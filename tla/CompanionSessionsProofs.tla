---------------------- MODULE CompanionSessionsProofs ----------------------
(***************************************************************************)
(* Proofs about the owner devices and the pairing code of the companion,   *)
(* for every number of browsers, requests and devices.                     *)
(*                                                                         *)
(* What the file and each copy of it that a thread still holds may differ  *)
(* in from what was settled is one predicate, Honest, which reading,       *)
(* changing and writing preserve.  Settling itself only happens when no    *)
(* thread holds a copy.                                                    *)
(***************************************************************************)
EXTENDS CompanionSessions, FiniteSetTheorems, TLAPS

(* The file or a copy of it, d, agrees with what was settled, s, when the    *)
(* credentials of e have expired and n have been issued.                     *)
Honest(d, s, e, n) ==
    /\ Revoked(s) \cap Active(d) = {}
    /\ \A k \in Creds : s[k] # "none" /\ d[k] = "none" => k \in e \/ n >= k + MaxDevices
    /\ \A k \in Creds : d[k] # "none" => k <= n

HonestCopies(w, s, e, n) == \A t \in Copies(w) : Honest(w[t].copy, s, e, n)

(* A pairing has no credential before the file is read for it.               *)
Form(r) ==
    /\ r.pc \in {"check", "mark"} => r.kind = "pair"
    /\ r.kind = "pair" /\ r.pc \in {"check", "mark", "load"} => r.cred = None

PairsWaiting(w) == {u \in Threads : w[u].kind = "pair" /\ w[u].cred = None}
Marking(w) == {u \in Threads : w[u].pc = "mark"}

(* There are credentials for all pairings under way.                         *)
Room(w, n) == n + Cardinality(PairsWaiting(w)) <= MaxCreds

(* Once a pairing has been accepted the code is closed, and the others that  *)
(* may still be accepted are among those counted then.                       *)
Counted(p, r, open, w) ==
    /\ p = 0 => r = 0
    /\ p > 0 => ~open /\ p + Cardinality(Marking(w)) <= r

SessionsInv ==
    /\ SessionsTypeOK
    /\ \A t \in Threads : Form(work[t])
    /\ Honest(devices, settled, expired, issued)
    /\ HonestCopies(work, settled, expired, issued)
    /\ \A k \in Creds : settled[k] # "none" => k <= issued
    /\ Room(work, issued)
    /\ Counted(pairings, rivals, codeOpen, work)

-----------------------------------------------------------------------------
(* The threads are finitely many, and so are those of them that wait.        *)
LEMMA CountFacts ==
    ASSUME NEW w
    PROVE  /\ IsFiniteSet(PairsWaiting(w)) /\ Cardinality(PairsWaiting(w)) \in Nat
           /\ IsFiniteSet(Marking(w)) /\ Cardinality(Marking(w)) \in Nat
           /\ Cardinality(Marking(w)) <= Cardinality(Threads)
           /\ Cardinality(Threads) \in Nat
  <1>1. IsFiniteSet(Threads)
    BY SessionsAssumption
  <1>2. PairsWaiting(w) \subseteq Threads /\ Marking(w) \subseteq Threads
    BY DEF PairsWaiting, Marking
  <1> QED
    BY <1>1, <1>2, FS_Subset, FS_CardinalityType

(* Of fewer waiting threads there are not more.                              *)
LEMMA FewerFacts ==
    ASSUME NEW v, NEW w
    PROVE  /\ PairsWaiting(v) \subseteq PairsWaiting(w)
                => Cardinality(PairsWaiting(v)) <= Cardinality(PairsWaiting(w))
           /\ Marking(v) \subseteq Marking(w)
                => Cardinality(Marking(v)) <= Cardinality(Marking(w))
  BY CountFacts, FS_Subset

(* A file or copy stays honest when time passes.                             *)
LEMMA HonestLater ==
    ASSUME NEW d \in Store, NEW s \in Store, NEW e, NEW n \in Nat, NEW f, NEW m \in Nat,
           e \subseteq f, n <= m, Honest(d, s, e, n)
    PROVE  Honest(d, s, f, m)
  <1>1. Creds \subseteq Nat /\ MaxDevices \in Nat
    BY SessionsAssumption DEF Creds
  <1>2. Revoked(s) \cap Active(d) = {}
    BY DEF Honest
  <1>3. ASSUME NEW k \in Creds, s[k] # "none", d[k] = "none"
        PROVE  k \in f \/ m >= k + MaxDevices
    <2>1. k \in e \/ n >= k + MaxDevices
      BY <1>3 DEF Honest
    <2>2. k \in Nat /\ k + MaxDevices \in Nat
      BY <1>1
    <2> QED
      BY <2>1, <2>2
  <1>4. ASSUME NEW k \in Creds, d[k] # "none" PROVE k <= m
    BY <1>1, <1>4 DEF Honest
  <1> QED
    BY <1>2, <1>3, <1>4 DEF Honest

(* Settling: what a state without copies says is settled.                    *)
LEMMA SettleStep ==
    ASSUME SessionsTypeOK, Settle, devices' \in Store, issued' \in Nat, issued <= issued',
           work' \in [Threads -> Work],
           \A k \in Creds : settled[k] # "none" => k <= issued,
           Honest(devices', settled, expired', issued'),
           HonestCopies(work', settled, expired', issued')
    PROVE  /\ settled' \in Store
           /\ Honest(devices', settled', expired', issued')
           /\ HonestCopies(work', settled', expired', issued')
           /\ \A k \in Creds : settled'[k] # "none" => k <= issued'
  <1>1. settled \in Store /\ issued \in Nat /\ Creds \subseteq Nat
    BY SessionsAssumption DEF SessionsTypeOK, Creds
  <1>2. settled' \in Store
    BY <1>1 DEF Settle, Store
  <1>3. \A k \in Creds :
          /\ settled'[k] = settled[k] \/ (settled'[k] = devices'[k] /\ devices'[k] # "none")
          /\ Copies(work') # {} => settled'[k] = settled[k]
    <2> TAKE k \in Creds
    <2>1. settled'[k] = IF Copies(work') # {} \/ settled[k] = "revoked" \/ devices'[k] = "none"
                          THEN settled[k] ELSE devices'[k]
      BY DEF Settle
    <2> QED
      BY <2>1
  <1>4. Honest(devices', settled', expired', issued')
    <2>1. \A k \in Creds : k \in Revoked(settled') => k \in Revoked(settled) \/ k \in Revoked(devices')
      BY <1>3 DEF Revoked
    <2>2. Revoked(settled') \cap Active(devices') = {}
      BY <2>1 DEF Honest, Revoked, Active
    <2>3. \A k \in Creds : settled'[k] # "none" /\ devices'[k] = "none" => settled[k] # "none"
      BY <1>3
    <2> QED
      BY <2>2, <2>3 DEF Honest
  <1>5. HonestCopies(work', settled', expired', issued')
    <2>1. CASE Copies(work') = {}
      BY <2>1 DEF HonestCopies
    <2>2. CASE Copies(work') # {}
      <3>1. settled' = settled
        <4>1. settled = [k \in Creds |-> settled[k]] /\ settled' = [k \in Creds |-> settled'[k]]
          BY <1>1, <1>2 DEF Store
        <4>2. \A k \in Creds : settled'[k] = settled[k]
          BY <1>3, <2>2
        <4> QED
          BY <4>1, <4>2
      <3> QED
        BY <3>1
    <2> QED
      BY <2>1, <2>2
  <1>6. ASSUME NEW k \in Creds, settled'[k] # "none" PROVE k <= issued'
    <2>1. CASE settled'[k] = settled[k]
      <3>1. k <= issued /\ k \in Nat
        BY <1>1, <1>6, <2>1
      <3> QED
        BY <1>1, <3>1
    <2>2. CASE devices'[k] # "none"
      BY <2>2 DEF Honest
    <2> QED
      BY <1>3, <2>1, <2>2
  <1> QED
    BY <1>2, <1>4, <1>5, <1>6

(* A step that neither reads the file nor writes it, gives no credential and *)
(* lets no pairing pass the code.                                            *)
LEMMA QuietStep ==
    ASSUME SessionsInv, Settle, devices' = devices, issued' = issued,
           expired \subseteq expired', expired' \subseteq Creds,
           cut' \in BOOLEAN, codeOpen' \in BOOLEAN, codeOpen' => codeOpen \/ pairings' = 0,
           sessions' \subseteq Browsers, token' \in [Browsers -> BOOLEAN],
           cred' \in [Browsers -> Creds \cup {None}],
           pairings' \in {0, pairings}, pairings' = 0 => rivals' = 0,
           pairings' # 0 => rivals' = rivals,
           restarts' \in 0..MaxRestarts, lost' \in 0..MaxLost,
           work' \in [Threads -> Work],
           \A t \in Threads :
             /\ Form(work'[t])
             /\ t \in Copies(work') => t \in Copies(work) /\ work'[t].copy = work[t].copy
             /\ work'[t].pc = "mark" => work[t].pc = "mark" \/ pairings' = 0,
           Room(work', issued)
    PROVE  SessionsInv'
  <1>1. /\ devices \in Store /\ settled \in Store /\ issued \in Nat /\ pairings \in Nat
        /\ rivals \in 0..Cardinality(Threads) /\ work \in [Threads -> Work] /\ issued \in 0..MaxCreds
    BY SessionsAssumption DEF SessionsInv, SessionsTypeOK
  <1>2. Honest(devices', settled, expired', issued')
    BY <1>1, HonestLater DEF SessionsInv
  <1>3. HonestCopies(work', settled, expired', issued')
    <2> SUFFICES ASSUME NEW t \in Copies(work')
                 PROVE  Honest(work'[t].copy, settled, expired', issued')
      BY DEF HonestCopies
    <2>1. t \in Copies(work) /\ work'[t].copy = work[t].copy /\ t \in Threads
      BY DEF Copies
    <2>2. work[t].copy \in Store /\ Honest(work[t].copy, settled, expired, issued)
      BY <1>1, <2>1 DEF SessionsInv, HonestCopies, Work
    <2> QED
      BY <1>1, <2>1, <2>2, HonestLater
  <1>4. /\ settled' \in Store
        /\ Honest(devices', settled', expired', issued')
        /\ HonestCopies(work', settled', expired', issued')
        /\ \A k \in Creds : settled'[k] # "none" => k <= issued'
    BY <1>1, <1>2, <1>3, SettleStep DEF SessionsInv
  <1>5. Counted(pairings', rivals', codeOpen', work')
    <2>1. CASE pairings' = 0
      BY <2>1 DEF Counted
    <2>2. CASE pairings' # 0
      <3>1. Marking(work') \subseteq Marking(work)
        BY <2>2 DEF Marking
      <3>2. /\ Cardinality(Marking(work')) <= Cardinality(Marking(work))
            /\ Cardinality(Marking(work')) \in Nat /\ Cardinality(Marking(work)) \in Nat
        BY <3>1, FewerFacts, CountFacts
      <3>3. pairings' = pairings /\ rivals' = rivals /\ pairings > 0 /\ rivals \in Nat
        BY <1>1, <2>2, CountFacts
      <3>4. ~codeOpen /\ pairings + Cardinality(Marking(work)) <= rivals
        BY <3>3 DEF SessionsInv, Counted
      <3>5. pairings + Cardinality(Marking(work')) <= rivals
        BY <1>1, <3>2, <3>3, <3>4
      <3> QED
        BY <2>2, <3>3, <3>4, <3>5 DEF Counted
    <2> QED
      BY <2>1, <2>2
  <1>6. pairings' \in Nat /\ rivals' \in 0..Cardinality(Threads)
    BY <1>1, CountFacts
  <1>7. SessionsTypeOK'
    BY <1>1, <1>4, <1>6 DEF SessionsTypeOK
  <1> QED
    BY <1>4, <1>5, <1>7 DEF SessionsInv

-----------------------------------------------------------------------------
(* What an invariant state says of the variables and of each thread.         *)
LEMMA StateFacts ==
    ASSUME SessionsInv
    PROVE  /\ devices \in Store /\ settled \in Store /\ cut \in BOOLEAN
           /\ expired \subseteq Creds /\ codeOpen \in BOOLEAN /\ sessions \subseteq Browsers
           /\ work \in [Threads -> Work] /\ token \in [Browsers -> BOOLEAN]
           /\ cred \in [Browsers -> Creds \cup {None}]
           /\ issued \in 0..MaxCreds /\ pairings \in Nat /\ restarts \in 0..MaxRestarts
           /\ rivals \in 0..Cardinality(Threads) /\ lost \in 0..MaxLost
           /\ \A t \in Threads : work[t] \in Work /\ Form(work[t])
           /\ Room(work, issued) /\ (pairings = 0 => rivals = 0)
  BY DEF SessionsInv, SessionsTypeOK, Counted

(* A thread without a request.                                               *)
LEMMA NoWorkFacts ==
    /\ NoWork \in Work /\ Form(NoWork) /\ NoWork.pc = "idle" /\ NoWork.kind = "none"
    /\ NoDevices \in Store
  BY DEF NoWork, Work, Form, NoDevices, Store, Kinds, Steps

(* Fewer pairings wait: there is room for them.                              *)
LEMMA RoomKept ==
    ASSUME SessionsInv, NEW w, PairsWaiting(w) \subseteq PairsWaiting(work)
    PROVE  Room(w, issued)
  <1>1. /\ Cardinality(PairsWaiting(w)) <= Cardinality(PairsWaiting(work))
        /\ Cardinality(PairsWaiting(w)) \in Nat /\ Cardinality(PairsWaiting(work)) \in Nat
    BY FewerFacts, CountFacts
  <1>2. issued \in Nat /\ MaxCreds \in Nat /\ issued + Cardinality(PairsWaiting(work)) <= MaxCreds
    BY SessionsAssumption DEF SessionsInv, SessionsTypeOK, Room
  <1> QED
    BY <1>1, <1>2 DEF Room

(* One thread goes on with r, and the code, the clients and the counters     *)
(* change as they may.                                                       *)
LEMMA ThreadStep ==
    ASSUME SessionsInv, Settle, NEW t \in Threads, NEW r \in Work,
           work' = [work EXCEPT ![t] = r], Form(r),
           r.pc \in {"save", "write"} => work[t].pc \in {"save", "write"} /\ r.copy = work[t].copy,
           r.pc = "mark" => work[t].pc = "mark" \/ pairings = 0,
           r.kind = "pair" /\ r.cred = None => work[t].kind = "pair" /\ work[t].cred = None,
           devices' = devices, issued' = issued, expired' = expired, codeOpen' = codeOpen,
           pairings' = pairings, rivals' = rivals,
           cut' \in BOOLEAN, sessions' \subseteq Browsers, token' \in [Browsers -> BOOLEAN],
           cred' \in [Browsers -> Creds \cup {None}],
           restarts' \in 0..MaxRestarts, lost' \in 0..MaxLost
    PROVE  SessionsInv'
  <1>1. /\ work' \in [Threads -> Work] /\ work'[t] = r
        /\ \A u \in Threads : u # t => work'[u] = work[u]
    BY StateFacts
  <1>2. \A u \in Threads :
             /\ Form(work'[u])
             /\ u \in Copies(work') => u \in Copies(work) /\ work'[u].copy = work[u].copy
             /\ work'[u].pc = "mark" => work[u].pc = "mark" \/ pairings' = 0
    <2> TAKE u \in Threads
    <2>1. CASE u = t
      BY <1>1, <2>1, StateFacts DEF Copies
    <2>2. CASE u # t
      BY <1>1, <2>2, StateFacts DEF Copies
    <2> QED
      BY <2>1, <2>2
  <1>3. PairsWaiting(work') \subseteq PairsWaiting(work)
    BY <1>1 DEF PairsWaiting
  <1>4. Room(work', issued)
    BY <1>3, RoomKept
  <1> QED
    BY <1>1, <1>2, <1>4, StateFacts, QuietStep

-----------------------------------------------------------------------------
(* The steps of one thread that end a request or only move it on.            *)
LEMMA EndStep ==
    ASSUME SessionsInv, Settle, NEW t \in Threads, EndWork(t),
           devices' = devices, cut' = cut, issued' = issued, expired' = expired,
           codeOpen' = codeOpen, pairings' = pairings, rivals' = rivals,
           sessions' \subseteq Browsers, token' \in [Browsers -> BOOLEAN],
           cred' \in [Browsers -> Creds \cup {None}],
           restarts' = restarts, lost' = lost
    PROVE  SessionsInv'
  <1>1. work' = [work EXCEPT ![t] = NoWork]
    BY DEF EndWork
  <1> QED
    BY <1>1, NoWorkFacts, StateFacts, ThreadStep

(* Answers, and a load that fails, end the request.                          *)
LEMMA AcceptedStep ==
    ASSUME SessionsInv, Settle, NEW t \in Threads,
           Accepted(t) \/ Refused(t) \/ Unheard(t) \/ LoadFails(t)
    PROVE  SessionsInv'
  <1>1. /\ EndWork(t) /\ devices' = devices /\ cut' = cut /\ issued' = issued /\ expired' = expired
        /\ codeOpen' = codeOpen /\ pairings' = pairings /\ rivals' = rivals
        /\ restarts' = restarts /\ lost' = lost
    BY DEF Accepted, Refused, Unheard, LoadFails, server, file, admitted, client, bounds
  <1>2. work[t] \in Work
    BY StateFacts
  <1>3. sessions' \subseteq Browsers
    BY <1>2, StateFacts DEF Accepted, Refused, Unheard, LoadFails, server, Work
  <1>4. token' \in [Browsers -> BOOLEAN]
    <2>1. \/ token' = token
          \/ \E v \in BOOLEAN : token' = [token EXCEPT ![work[t].from] = v]
      BY DEF Accepted, Refused, Unheard, LoadFails, client
    <2> QED
      BY <2>1, StateFacts
  <1>5. cred' \in [Browsers -> Creds \cup {None}]
    <2>1. \/ cred' = cred
          \/ \E c \in Creds \cup {None} : cred' = [cred EXCEPT ![work[t].from] = c]
      BY <1>2 DEF Accepted, Refused, Unheard, LoadFails, client, Work
    <2> QED
      BY <2>1, StateFacts
  <1> QED
    BY <1>1, <1>3, <1>4, <1>5, EndStep

(* Nobody waits for the answer any more: the request goes on.                *)
LEMMA LoseAnswerStep ==
    ASSUME SessionsInv, Settle, NEW t \in Threads, LoseAnswer(t)
    PROVE  SessionsInv'
  <1> DEFINE r == [work[t] EXCEPT !.from = None]
  <1>1. work[t] \in Work /\ Form(work[t])
    BY StateFacts
  <1>2. /\ r \in Work /\ r.pc = work[t].pc /\ r.kind = work[t].kind /\ r.cred = work[t].cred
        /\ r.copy = work[t].copy
    BY <1>1 DEF Work
  <1>3. /\ work' = [work EXCEPT ![t] = r]
        /\ lost' \in 0..MaxLost
    BY SessionsAssumption, StateFacts DEF LoseAnswer
  <1> HIDE DEF r
  <1>4. Form(r)
    BY <1>1, <1>2 DEF Form
  <1>5. /\ devices' = devices /\ cut' = cut /\ issued' = issued /\ expired' = expired
        /\ codeOpen' = codeOpen /\ pairings' = pairings /\ rivals' = rivals
        /\ restarts' = restarts /\ sessions' = sessions /\ token' = token /\ cred' = cred
    BY DEF LoseAnswer, server, file, admitted, client
  <1> QED
    BY <1>2, <1>3, <1>4, <1>5, StateFacts, ThreadStep

(* The file is emptied, the copy stays with the thread.                      *)
LEMMA OpenFileStep ==
    ASSUME SessionsInv, Settle, NEW t \in Threads, OpenFile(t)
    PROVE  SessionsInv'
  <1> DEFINE r == [work[t] EXCEPT !.pc = "write", !.over = FALSE]
  <1>1. work[t] \in Work /\ Form(work[t])
    BY StateFacts
  <1>2. /\ r \in Work /\ r.pc = "write" /\ r.kind = work[t].kind /\ r.cred = work[t].cred
        /\ r.copy = work[t].copy
    BY <1>1 DEF Work, Steps
  <1>3. work' = [work EXCEPT ![t] = r] /\ work[t].pc = "save"
    BY StateFacts DEF OpenFile
  <1> HIDE DEF r
  <1>4. Form(r)
    BY <1>2 DEF Form
  <1>5. /\ devices' = devices /\ cut' \in BOOLEAN /\ issued' = issued /\ expired' = expired
        /\ codeOpen' = codeOpen /\ pairings' = pairings /\ rivals' = rivals
        /\ restarts' = restarts /\ sessions' = sessions /\ token' = token /\ cred' = cred /\ lost' = lost
    BY DEF OpenFile, admitted, client, bounds
  <1> QED
    BY <1>2, <1>3, <1>4, <1>5, StateFacts, ThreadStep

(* A pairing that finds the code open comes before the first is accepted.    *)
LEMMA PairCheckStep ==
    ASSUME SessionsInv, Settle, NEW t \in Threads, PairCheck(t)
    PROVE  SessionsInv'
  <1> DEFINE pc == IF codeOpen THEN "mark" ELSE "refuse"
             r == [work[t] EXCEPT !.pc = pc]
  <1>1. work[t] \in Work /\ Form(work[t]) /\ work[t].pc = "check"
    BY StateFacts DEF PairCheck
  <1>2. /\ r \in Work /\ r.pc \in {"mark", "refuse"} /\ r.kind = work[t].kind /\ r.cred = work[t].cred
        /\ (r.pc = "mark" => codeOpen)
    BY <1>1, StateFacts DEF Work, Steps
  <1>3. work' = [work EXCEPT ![t] = r]
    BY StateFacts DEF PairCheck, Go
  <1> HIDE DEF r
  <1>4. Form(r)
    BY <1>1, <1>2 DEF Form
  <1>5. codeOpen => pairings = 0
    <2>1. pairings \in Nat
      BY StateFacts
    <2> QED
      BY <2>1 DEF SessionsInv, Counted
  <1>6. /\ devices' = devices /\ cut' = cut /\ issued' = issued /\ expired' = expired
        /\ codeOpen' = codeOpen /\ pairings' = pairings /\ rivals' = rivals
        /\ restarts' = restarts /\ sessions' = sessions /\ token' = token /\ cred' = cred /\ lost' = lost
    BY DEF PairCheck, server, file, admitted, client, bounds
  <1> QED
    BY <1>2, <1>3, <1>4, <1>5, <1>6, StateFacts, ThreadStep

(* Steps that begin a request.  What a request is:                           *)
LEMMA RequestFacts ==
    ASSUME NEW t, NEW k \in Kinds, NEW b \in Browsers, NEW c \in Creds \cup {None}
    PROVE  /\ Request(t, k, b, c) \in Work
           /\ Request(t, k, b, c).kind = k /\ Request(t, k, b, c).cred = c
           /\ Request(t, k, b, c).pc = IF k = "pair" THEN "check" ELSE "load"
  BY NoWorkFacts DEF Request, NoWork, Work, Steps

(* The browser asks to be recognised.                                        *)
LEMMA CheckStatusStep ==
    ASSUME SessionsInv, Settle, NEW b \in Browsers, NEW t \in Threads, CheckStatus(b, t)
    PROVE  SessionsInv'
  <1> DEFINE r == Request(t, "restore", b, cred[b])
  <1>1. "restore" \in Kinds /\ cred[b] \in Creds \cup {None}
    BY StateFacts DEF Kinds
  <1>2. r \in Work /\ r.kind = "restore" /\ r.pc = "load"
    BY <1>1, RequestFacts
  <1>3. work' = [work EXCEPT ![t] = r]
    BY DEF CheckStatus
  <1> HIDE DEF r
  <1>4. /\ devices' = devices /\ cut' = cut /\ issued' = issued /\ expired' = expired
        /\ codeOpen' = codeOpen /\ pairings' = pairings /\ rivals' = rivals
        /\ restarts' = restarts /\ sessions' = sessions /\ token' = token /\ cred' = cred /\ lost' = lost
    BY DEF CheckStatus, server, file, admitted, client, bounds
  <1>5. Form(r)
    BY <1>2 DEF Form
  <1> QED
    BY <1>2, <1>3, <1>4, <1>5, StateFacts, ThreadStep

(* The browser forgets its credential and has it revoked.                    *)
LEMMA DisconnectStep ==
    ASSUME SessionsInv, Settle, NEW b \in Browsers, NEW t \in Threads, Disconnect(b, t)
    PROVE  SessionsInv'
  <1> DEFINE r == IF cred[b] = None THEN work[t] ELSE Request(t, "revoke", b, cred[b])
  <1>1. "revoke" \in Kinds /\ cred[b] \in Creds \cup {None}
    BY StateFacts DEF Kinds
  <1>2. r \in Work /\ (r = work[t] \/ (r.kind = "revoke" /\ r.pc = "load"))
    BY <1>1, RequestFacts, StateFacts
  <1>3. work' = [work EXCEPT ![t] = r]
    BY StateFacts DEF Disconnect
  <1> HIDE DEF r
  <1>4. /\ devices' = devices /\ cut' = cut /\ issued' = issued /\ expired' = expired
        /\ codeOpen' = codeOpen /\ pairings' = pairings /\ rivals' = rivals
        /\ restarts' = restarts /\ lost' = lost
    BY DEF Disconnect, file, admitted, bounds
  <1>5. Form(r)
    BY <1>2, StateFacts DEF Form
  <1>6. /\ sessions' \subseteq Browsers /\ token' \in [Browsers -> BOOLEAN]
        /\ cred' \in [Browsers -> Creds \cup {None}]
    BY StateFacts DEF Disconnect
  <1> QED
    BY <1>2, <1>3, <1>4, <1>5, <1>6, StateFacts, ThreadStep

-----------------------------------------------------------------------------
(* Steps that leave the threads alone: time, and a browser out of reach.     *)
LEMMA IdleStep ==
    ASSUME SessionsInv, Settle, work' = work, devices' = devices, cut' = cut, issued' = issued,
           pairings' = pairings, rivals' = rivals, restarts' = restarts,
           expired \subseteq expired', expired' \subseteq Creds,
           codeOpen' \in BOOLEAN, codeOpen' => codeOpen,
           sessions' \subseteq Browsers, token' \in [Browsers -> BOOLEAN],
           cred' \in [Browsers -> Creds \cup {None}], lost' \in 0..MaxLost
    PROVE  SessionsInv'
  <1>1. \A t \in Threads :
             /\ Form(work'[t])
             /\ t \in Copies(work') => t \in Copies(work) /\ work'[t].copy = work[t].copy
             /\ work'[t].pc = "mark" => work[t].pc = "mark" \/ pairings' = 0
    BY StateFacts
  <1>2. Room(work', issued)
    BY StateFacts
  <1> QED
    BY <1>1, <1>2, StateFacts, QuietStep

(* The code, a session or a credential expires; a browser gives up.          *)
LEMMA TimeStep ==
    ASSUME SessionsInv, Settle,
           \/ CodeExpires
           \/ \E b \in Browsers : SessionExpires(b) \/ DisconnectOffline(b)
           \/ \E k \in Creds : CredentialExpires(k)
    PROVE  SessionsInv'
  <1>1. CASE CodeExpires
    <2>1. /\ work' = work /\ devices' = devices /\ cut' = cut /\ issued' = issued /\ expired' = expired
          /\ pairings' = pairings /\ rivals' = rivals /\ restarts' = restarts /\ lost' = lost
          /\ codeOpen' = FALSE /\ sessions' = sessions /\ token' = token /\ cred' = cred
      BY <1>1 DEF CodeExpires, file, admitted, client, bounds
    <2> QED
      BY <2>1, StateFacts, IdleStep
  <1>2. ASSUME NEW b \in Browsers, SessionExpires(b) PROVE SessionsInv'
    <2>1. /\ work' = work /\ devices' = devices /\ cut' = cut /\ issued' = issued /\ expired' = expired
          /\ pairings' = pairings /\ rivals' = rivals /\ restarts' = restarts /\ lost' = lost
          /\ codeOpen' = codeOpen /\ sessions' = sessions \ {b} /\ token' = token /\ cred' = cred
      BY <1>2 DEF SessionExpires, file, admitted, client, bounds
    <2>2. sessions' \subseteq Browsers
      BY <2>1, StateFacts
    <2> QED
      BY <2>1, <2>2, StateFacts, IdleStep
  <1>3. ASSUME NEW b \in Browsers, DisconnectOffline(b) PROVE SessionsInv'
    <2>1. /\ work' = work /\ devices' = devices /\ cut' = cut /\ issued' = issued /\ expired' = expired
          /\ pairings' = pairings /\ rivals' = rivals /\ restarts' = restarts /\ codeOpen' = codeOpen
      BY <1>3 DEF DisconnectOffline, file, admitted
    <2>2. /\ sessions' \subseteq Browsers /\ token' \in [Browsers -> BOOLEAN]
          /\ cred' \in [Browsers -> Creds \cup {None}]
      BY <1>3, StateFacts DEF DisconnectOffline
    <2>3. lost' \in 0..MaxLost
      BY <1>3, SessionsAssumption, StateFacts DEF DisconnectOffline
    <2> QED
      BY <2>1, <2>2, <2>3, StateFacts, IdleStep
  <1>4. ASSUME NEW k \in Creds, CredentialExpires(k) PROVE SessionsInv'
    <2>1. /\ work' = work /\ devices' = devices /\ cut' = cut /\ issued' = issued
          /\ pairings' = pairings /\ rivals' = rivals /\ restarts' = restarts /\ lost' = lost
          /\ codeOpen' = codeOpen /\ sessions' = sessions /\ token' = token /\ cred' = cred
          /\ expired' = expired \cup {k}
      BY <1>4 DEF CredentialExpires, file, admitted, client, bounds
    <2>2. expired \subseteq expired' /\ expired' \subseteq Creds
      BY <2>1, StateFacts
    <2> QED
      BY <2>1, <2>2, StateFacts, IdleStep
  <1> QED
    BY <1>1, <1>2, <1>3, <1>4

(* The page is loaded again: its requests go on, unheard.                    *)
LEMMA ReloadStep ==
    ASSUME SessionsInv, Settle, NEW b \in Browsers, Reload(b)
    PROVE  SessionsInv'
  <1>1. /\ devices' = devices /\ cut' = cut /\ issued' = issued /\ expired' = expired
        /\ codeOpen' = codeOpen /\ pairings' = pairings /\ rivals' = rivals
        /\ restarts' = restarts /\ cred' = cred /\ lost' = lost
    BY DEF Reload, file, admitted, bounds
  <1>2. sessions' \subseteq Browsers /\ token' \in [Browsers -> BOOLEAN]
    BY StateFacts DEF Reload
  <1>3. ASSUME NEW t \in Threads
        PROVE  /\ work'[t] \in Work /\ Form(work'[t]) /\ work'[t].pc = work[t].pc
               /\ work'[t].copy = work[t].copy
               /\ work'[t].kind = work[t].kind /\ work'[t].cred = work[t].cred
    <2> DEFINE r == [work[t] EXCEPT !.from = None]
    <2>1. work[t] \in Work /\ Form(work[t])
      BY StateFacts
    <2>2. /\ r \in Work /\ r.pc = work[t].pc /\ r.kind = work[t].kind /\ r.cred = work[t].cred
          /\ r.copy = work[t].copy
      BY <2>1 DEF Work
    <2>3. work'[t] = r \/ work'[t] = work[t]
      BY DEF Reload
    <2> HIDE DEF r
    <2> QED
      BY <2>1, <2>2, <2>3 DEF Form
  <1>4. work' \in [Threads -> Work]
    <2>1. \A t \in Threads : work'[t] \in Work
      BY <1>3
    <2>2. work' = [t \in Threads |-> work'[t]]
      BY DEF Reload
    <2> QED
      BY <2>1, <2>2
  <1>5. \A t \in Threads :
             /\ Form(work'[t])
             /\ t \in Copies(work') => t \in Copies(work) /\ work'[t].copy = work[t].copy
             /\ work'[t].pc = "mark" => work[t].pc = "mark" \/ pairings' = 0
    BY <1>3, <1>4, StateFacts DEF Copies
  <1>6. PairsWaiting(work') \subseteq PairsWaiting(work)
    BY <1>3 DEF PairsWaiting
  <1>7. Room(work', issued)
    BY <1>6, RoomKept
  <1> QED
    BY <1>1, <1>2, <1>4, <1>5, <1>7, StateFacts, QuietStep

(* The server is started again: no request is left, and there is a new code. *)
LEMMA RestartStep ==
    ASSUME SessionsInv, Settle, Restart
    PROVE  SessionsInv'
  <1>1. /\ devices' = devices /\ cut' = cut /\ issued' = issued /\ expired' = expired
        /\ codeOpen' = TRUE /\ pairings' = 0 /\ rivals' = 0 /\ sessions' = {}
        /\ token' = token /\ cred' = cred /\ lost' = lost
    BY DEF Restart, file, client
  <1>2. restarts' \in 0..MaxRestarts
    BY SessionsAssumption, StateFacts DEF Restart
  <1>3. \A t \in Threads : work'[t] = NoWork
    BY DEF Restart
  <1>4. work' \in [Threads -> Work]
    BY NoWorkFacts DEF Restart
  <1>5. \A t \in Threads :
             /\ Form(work'[t])
             /\ t \in Copies(work') => t \in Copies(work) /\ work'[t].copy = work[t].copy
             /\ work'[t].pc = "mark" => work[t].pc = "mark" \/ pairings' = 0
    BY <1>3, <1>4, NoWorkFacts DEF Copies
  <1>6. PairsWaiting(work') \subseteq PairsWaiting(work)
    BY <1>3, NoWorkFacts DEF PairsWaiting
  <1>7. Room(work', issued)
    BY <1>6, RoomKept
  <1> QED
    BY <1>1, <1>2, <1>4, <1>5, <1>7, StateFacts, QuietStep

(* One more pairing, for which there is room.                                *)
LEMMA PairStep ==
    ASSUME SessionsInv, Settle, NEW b \in Browsers, NEW t \in Threads, Pair(b, t)
    PROVE  SessionsInv'
  <1> DEFINE r == Request(t, "pair", b, None)
  <1>1. r \in Work /\ r.kind = "pair" /\ r.pc = "check" /\ r.cred = None
    <2>1. "pair" \in Kinds
      BY DEF Kinds
    <2> QED
      BY <2>1, RequestFacts
  <1>2. work' = [work EXCEPT ![t] = r]
    BY DEF Pair
  <1>3. issued + Cardinality(PairsWaiting(work)) < MaxCreds
    BY DEF Pair, PairsWaiting
  <1> HIDE DEF r
  <1>4. /\ work' \in [Threads -> Work] /\ work'[t] = r
        /\ \A u \in Threads : u # t => work'[u] = work[u]
    BY <1>1, <1>2, StateFacts
  <1>5. /\ devices' = devices /\ cut' = cut /\ issued' = issued /\ expired' = expired
        /\ codeOpen' = codeOpen /\ pairings' = pairings /\ rivals' = rivals
        /\ restarts' = restarts /\ sessions' = sessions /\ token' = token /\ cred' = cred /\ lost' = lost
    BY DEF Pair, server, file, admitted, client, bounds
  <1>6. \A u \in Threads :
             /\ Form(work'[u])
             /\ u \in Copies(work') => u \in Copies(work) /\ work'[u].copy = work[u].copy
             /\ work'[u].pc = "mark" => work[u].pc = "mark" \/ pairings' = 0
    <2> TAKE u \in Threads
    <2>1. CASE u = t
      BY <1>1, <1>4, <2>1 DEF Copies, Form
    <2>2. CASE u # t
      BY <1>4, <2>2, StateFacts DEF Copies
    <2> QED
      BY <2>1, <2>2
  <1>7. Room(work', issued)
    <2>1. PairsWaiting(work') \subseteq PairsWaiting(work) \cup {t}
      BY <1>4 DEF PairsWaiting
    <2>2. /\ IsFiniteSet(PairsWaiting(work) \cup {t})
          /\ Cardinality(PairsWaiting(work) \cup {t}) <= Cardinality(PairsWaiting(work)) + 1
      <3>1. IsFiniteSet(PairsWaiting(work)) /\ Cardinality(PairsWaiting(work)) \in Nat
        BY CountFacts
      <3>2. /\ IsFiniteSet(PairsWaiting(work) \cup {t})
            /\ \/ Cardinality(PairsWaiting(work) \cup {t}) = Cardinality(PairsWaiting(work))
               \/ Cardinality(PairsWaiting(work) \cup {t}) = Cardinality(PairsWaiting(work)) + 1
        BY <3>1, FS_AddElement, Zenon
      <3> QED
        BY <3>1, <3>2
    <2>3. /\ Cardinality(PairsWaiting(work')) <= Cardinality(PairsWaiting(work) \cup {t})
          /\ Cardinality(PairsWaiting(work) \cup {t}) \in Nat
      BY <2>1, <2>2, FS_Subset, FS_CardinalityType
    <2>4. issued \in Nat /\ MaxCreds \in Nat
      BY SessionsAssumption, StateFacts
    <2> QED
      BY <1>3, <2>2, <2>3, <2>4, CountFacts DEF Room
  <1> QED
    BY <1>4, <1>5, <1>6, <1>7, StateFacts, QuietStep

(* A pairing passes the code: the first closes it and counts its rivals, and *)
(* of those it is one.                                                       *)
LEMMA PairMarkStep ==
    ASSUME SessionsInv, Settle, NEW t \in Threads, PairMark(t)
    PROVE  SessionsInv'
  <1> DEFINE r == [work[t] EXCEPT !.pc = "load"]
  <1>1. work[t] \in Work /\ Form(work[t]) /\ work[t].pc = "mark"
    BY StateFacts DEF PairMark
  <1>2. /\ r \in Work /\ r.pc = "load" /\ r.kind = work[t].kind /\ r.cred = work[t].cred
    BY <1>1 DEF Work, Steps
  <1>3. work' = [work EXCEPT ![t] = r]
    BY StateFacts DEF PairMark, Go
  <1> HIDE DEF r
  <1>4. /\ work' \in [Threads -> Work] /\ work'[t] = r
        /\ \A u \in Threads : u # t => work'[u] = work[u]
    BY <1>2, <1>3, StateFacts
  <1>5. /\ devices' = devices /\ cut' = cut /\ issued' = issued /\ expired' = expired
        /\ codeOpen' = FALSE /\ pairings' = pairings + 1
        /\ restarts' = restarts /\ sessions' = sessions /\ token' = token /\ cred' = cred /\ lost' = lost
    BY DEF PairMark, CountPairing, file, client, bounds
  <1>6. rivals' = IF pairings = 0 THEN Cardinality(Marking(work)) ELSE rivals
    BY DEF PairMark, CountPairing, Marking
  <1>7. /\ Cardinality(Marking(work')) = Cardinality(Marking(work)) - 1
        /\ Cardinality(Marking(work)) \in Nat /\ Cardinality(Marking(work')) \in Nat
        /\ Cardinality(Marking(work)) <= Cardinality(Threads) /\ Cardinality(Threads) \in Nat
    <2>1. Marking(work') = Marking(work) \ {t} /\ t \in Marking(work)
      BY <1>1, <1>2, <1>4 DEF Marking
    <2> QED
      BY <2>1, CountFacts, FS_RemoveElement
  <1>8. Counted(pairings', rivals', codeOpen', work')
    <2>1. pairings \in Nat /\ rivals \in Nat
      BY <1>7, StateFacts
    <2>2. CASE pairings = 0
      BY <1>5, <1>6, <1>7, <2>1, <2>2 DEF Counted
    <2>3. CASE pairings # 0
      <3>1. pairings + Cardinality(Marking(work)) <= rivals
        BY <2>1, <2>3 DEF SessionsInv, Counted
      <3> QED
        BY <1>5, <1>6, <1>7, <2>1, <2>3, <3>1 DEF Counted
    <2> QED
      BY <2>2, <2>3
  <1>9. pairings' \in Nat /\ rivals' \in 0..Cardinality(Threads)
    BY <1>5, <1>6, <1>7, StateFacts
  <1>10. \A u \in Threads :
             /\ Form(work'[u])
             /\ u \in Copies(work') => u \in Copies(work) /\ work'[u].copy = work[u].copy
    <2> TAKE u \in Threads
    <2>1. CASE u = t
      BY <1>1, <1>2, <1>4, <2>1 DEF Copies, Form
    <2>2. CASE u # t
      BY <1>4, <2>2, StateFacts DEF Copies
    <2> QED
      BY <2>1, <2>2
  <1>11. Room(work', issued)
    <2>1. PairsWaiting(work') \subseteq PairsWaiting(work)
      BY <1>2, <1>4 DEF PairsWaiting
    <2> QED
      BY <2>1, RoomKept
  <1>12. HonestCopies(work', settled, expired', issued')
    BY <1>4, <1>5, <1>10 DEF HonestCopies, SessionsInv, Copies
  <1>13. /\ settled' \in Store
         /\ Honest(devices', settled', expired', issued')
         /\ HonestCopies(work', settled', expired', issued')
         /\ \A k \in Creds : settled'[k] # "none" => k <= issued'
    <2>1. issued \in Nat /\ issued <= issued /\ SessionsTypeOK
      BY SessionsAssumption, StateFacts DEF SessionsInv
    <2> QED
      BY <1>4, <1>5, <1>12, <2>1, StateFacts, SettleStep DEF SessionsInv
  <1>14. SessionsTypeOK'
    BY <1>4, <1>5, <1>9, <1>13, StateFacts DEF SessionsTypeOK
  <1> QED
    BY <1>5, <1>8, <1>10, <1>11, <1>13, <1>14 DEF SessionsInv

(* A thread writes its copy: the file is as honest as the copy was.          *)
LEMMA WriteFileStep ==
    ASSUME SessionsInv, Settle, NEW t \in Threads, WriteFile(t)
    PROVE  SessionsInv'
  <1>1. /\ issued' = issued /\ expired' = expired /\ cut' \in BOOLEAN
        /\ codeOpen' = codeOpen /\ pairings' = pairings /\ rivals' = rivals
        /\ restarts' = restarts /\ sessions' = sessions /\ token' = token /\ cred' = cred /\ lost' = lost
        /\ devices' = work[t].copy /\ work[t].pc = "write"
    BY DEF WriteFile, admitted, client, bounds
  <1>2. t \in Copies(work) /\ work[t].copy \in Store
    BY <1>1, StateFacts DEF Copies, Work
  <1>3. Honest(devices', settled, expired', issued')
    BY <1>1, <1>2 DEF SessionsInv, HonestCopies
  <1>4. ASSUME NEW u \in Threads
        PROVE  /\ work'[u] \in Work /\ Form(work'[u])
               /\ work'[u].kind = work[u].kind /\ work'[u].cred = work[u].cred
               /\ work'[u].pc = "mark" => work[u].pc = "mark"
               /\ u \in Copies(work') => u \in Copies(work) /\ work'[u].copy = work[u].copy
    <2> DEFINE p == [work[u] EXCEPT !.pc = "accept", !.copy = NoDevices, !.over = FALSE]
               q == [work[u] EXCEPT !.over = TRUE]
    <2>1. work[u] \in Work /\ Form(work[u])
      BY StateFacts
    <2>2. /\ p \in Work /\ p.pc = "accept" /\ p.kind = work[u].kind /\ p.cred = work[u].cred
      BY <2>1, NoWorkFacts DEF Work, Steps
    <2>3. /\ q \in Work /\ q.pc = work[u].pc /\ q.kind = work[u].kind /\ q.cred = work[u].cred
          /\ q.copy = work[u].copy
      BY <2>1 DEF Work
    <2>4. \/ u = t /\ work'[u] = p
          \/ u # t /\ work'[u] \in {q, work[u]}
      BY DEF WriteFile
    <2>5. DOMAIN work' = Threads /\ DOMAIN work = Threads
      BY StateFacts DEF WriteFile
    <2> HIDE DEF p, q
    <2>6. /\ work'[u] \in Work /\ Form(work'[u])
          /\ work'[u].kind = work[u].kind /\ work'[u].cred = work[u].cred
          /\ work'[u].pc \in {"accept", work[u].pc}
      BY <2>1, <2>2, <2>3, <2>4 DEF Form
    <2>7. work'[u].pc # "accept" => work'[u].pc = work[u].pc /\ work'[u].copy = work[u].copy
      BY <2>2, <2>3, <2>4
    <2> QED
      BY <2>5, <2>6, <2>7 DEF Copies
  <1>5. work' \in [Threads -> Work]
    <2>1. \A u \in Threads : work'[u] \in Work
      BY <1>4
    <2>2. work' = [u \in Threads |-> work'[u]]
      BY DEF WriteFile
    <2> QED
      BY <2>1, <2>2
  <1>6. HonestCopies(work', settled, expired', issued')
    BY <1>1, <1>4, <1>5 DEF HonestCopies, SessionsInv, Copies
  <1>7. /\ settled' \in Store
        /\ Honest(devices', settled', expired', issued')
        /\ HonestCopies(work', settled', expired', issued')
        /\ \A k \in Creds : settled'[k] # "none" => k <= issued'
    <2>1. issued \in Nat /\ issued <= issued /\ SessionsTypeOK
      BY SessionsAssumption, StateFacts DEF SessionsInv
    <2> QED
      BY <1>1, <1>2, <1>3, <1>5, <1>6, <2>1, SettleStep DEF SessionsInv
  <1>8. Room(work', issued)
    <2>1. PairsWaiting(work') \subseteq PairsWaiting(work)
      BY <1>4 DEF PairsWaiting
    <2> QED
      BY <2>1, RoomKept
  <1>9. Counted(pairings', rivals', codeOpen', work')
    <2>1. Marking(work') \subseteq Marking(work)
      BY <1>4 DEF Marking
    <2>2. /\ Cardinality(Marking(work')) <= Cardinality(Marking(work))
          /\ Cardinality(Marking(work')) \in Nat /\ Cardinality(Marking(work)) \in Nat
      BY <2>1, FewerFacts, CountFacts
    <2>3. pairings \in Nat /\ rivals \in Nat
      BY StateFacts, CountFacts
    <2> QED
      BY <1>1, <2>2, <2>3 DEF SessionsInv, Counted
  <1>10. SessionsTypeOK'
    BY <1>1, <1>2, <1>5, <1>7, StateFacts DEF SessionsTypeOK
  <1> QED
    BY <1>1, <1>4, <1>7, <1>8, <1>9, <1>10 DEF SessionsInv

-----------------------------------------------------------------------------
(* A thread reads the file and holds a copy of what it is to become; a       *)
(* pairing gives the next credential with it.                                *)
LEMMA LoadStep ==
    ASSUME SessionsInv, Settle, NEW t \in Threads, NEW r \in Work,
           work' = [work EXCEPT ![t] = r], work[t].pc = "load",
           Form(r), r.pc = "save", r.kind = work[t].kind,
           issued' \in {issued, issued + 1}, issued' \in 0..MaxCreds,
           issued' = issued => r.cred = work[t].cred,
           issued' # issued => work[t].kind = "pair" /\ work[t].cred = None /\ r.cred # None,
           Honest(r.copy, settled, expired, issued'),
           devices' = devices, cut' = cut, expired' = expired, codeOpen' = codeOpen,
           pairings' = pairings, rivals' = rivals, sessions' = sessions, token' = token,
           cred' = cred, restarts' = restarts, lost' = lost
    PROVE  SessionsInv'
  <1>1. /\ work' \in [Threads -> Work] /\ work'[t] = r
        /\ \A u \in Threads : u # t => work'[u] = work[u]
    BY StateFacts
  <1>2. issued \in Nat /\ MaxCreds \in Nat /\ issued' \in Nat /\ issued <= issued'
    BY SessionsAssumption, StateFacts
  <1>3. Honest(devices', settled, expired', issued')
    <2>1. expired \subseteq expired /\ Honest(devices, settled, expired, issued)
      BY DEF SessionsInv
    <2> QED
      BY <1>2, <2>1, StateFacts, HonestLater
  <1>4. HonestCopies(work', settled, expired', issued')
    <2> SUFFICES ASSUME NEW u \in Copies(work')
                 PROVE  Honest(work'[u].copy, settled, expired, issued')
      BY DEF HonestCopies
    <2>1. CASE u = t
      BY <1>1, <2>1
    <2>2. CASE u # t
      <3>1. u \in Threads /\ u \in Copies(work) /\ work'[u].copy = work[u].copy
        BY <1>1, <2>2, StateFacts DEF Copies
      <3>2. work[u].copy \in Store /\ Honest(work[u].copy, settled, expired, issued)
        BY <3>1, StateFacts DEF SessionsInv, HonestCopies, Work
      <3> QED
        BY <1>2, <3>1, <3>2, StateFacts, HonestLater
    <2> QED
      BY <2>1, <2>2
  <1>5. /\ settled' \in Store
        /\ Honest(devices', settled', expired', issued')
        /\ HonestCopies(work', settled', expired', issued')
        /\ \A k \in Creds : settled'[k] # "none" => k <= issued'
    <2>1. devices' \in Store /\ SessionsTypeOK /\ \A k \in Creds : settled[k] # "none" => k <= issued
      BY StateFacts DEF SessionsInv
    <2> QED
      BY <1>1, <1>2, <1>3, <1>4, <2>1, SettleStep
  <1>6. Room(work', issued')
    <2>1. CASE issued' = issued
      <3>1. PairsWaiting(work') \subseteq PairsWaiting(work)
        BY <1>1, <2>1 DEF PairsWaiting
      <3> QED
        BY <2>1, <3>1, RoomKept
    <2>2. CASE issued' # issued
      <3>1. PairsWaiting(work') = PairsWaiting(work) \ {t} /\ t \in PairsWaiting(work)
        BY <1>1, <2>2 DEF PairsWaiting
      <3>2. IsFiniteSet(PairsWaiting(work)) /\ Cardinality(PairsWaiting(work)) \in Nat
        BY CountFacts
      <3>3. Cardinality(PairsWaiting(work')) = Cardinality(PairsWaiting(work)) - 1
        BY <3>1, <3>2, FS_RemoveElement
      <3>4. issued + Cardinality(PairsWaiting(work)) <= MaxCreds
        BY StateFacts DEF Room
      <3> QED
        BY <1>2, <2>2, <3>2, <3>3, <3>4 DEF Room
    <2> QED
      BY <2>1, <2>2
  <1>7. Counted(pairings', rivals', codeOpen', work')
    <2>1. Marking(work') \subseteq Marking(work)
      BY <1>1 DEF Marking
    <2>2. /\ Cardinality(Marking(work')) <= Cardinality(Marking(work))
          /\ Cardinality(Marking(work')) \in Nat /\ Cardinality(Marking(work)) \in Nat
      BY <2>1, FewerFacts, CountFacts
    <2>3. pairings \in Nat /\ rivals \in Nat
      BY StateFacts, CountFacts
    <2> QED
      BY <2>2, <2>3 DEF SessionsInv, Counted
  <1>8. \A u \in Threads : Form(work'[u])
    BY <1>1, StateFacts
  <1>9. SessionsTypeOK'
    BY <1>1, <1>5, StateFacts DEF SessionsTypeOK
  <1> QED
    BY <1>5, <1>6, <1>7, <1>8, <1>9 DEF SessionsInv

(* A validation writes back what it has read.                                *)
LEMMA LoadToValidateStep ==
    ASSUME SessionsInv, Settle, NEW t \in Threads, LoadToValidate(t)
    PROVE  SessionsInv'
  <1> DEFINE r == [work[t] EXCEPT !.pc = "save", !.copy = devices]
             q == [work[t] EXCEPT !.pc = "refuse"]
  <1>1. work[t] \in Work /\ Form(work[t]) /\ work[t].pc = "load" /\ devices \in Store
        /\ work[t].kind = "restore"
    BY StateFacts DEF LoadToValidate
  <1>2. /\ r \in Work /\ r.pc = "save" /\ r.kind = "restore" /\ r.cred = work[t].cred /\ r.copy = devices
    BY <1>1 DEF Work, Steps
  <1>3. /\ q \in Work /\ q.pc = "refuse" /\ q.kind = "restore" /\ q.cred = work[t].cred
    BY <1>1 DEF Work, Steps
  <1>4. work' = [work EXCEPT ![t] = r] \/ work' = [work EXCEPT ![t] = q]
    BY StateFacts DEF LoadToValidate
  <1> HIDE DEF r, q
  <1>5. Form(r) /\ Form(q)
    BY <1>2, <1>3 DEF Form
  <1>6. /\ devices' = devices /\ cut' = cut /\ issued' = issued /\ expired' = expired
        /\ codeOpen' = codeOpen /\ pairings' = pairings /\ rivals' = rivals
        /\ restarts' = restarts /\ sessions' = sessions /\ token' = token /\ cred' = cred /\ lost' = lost
    BY DEF LoadToValidate, server, file, admitted, client, bounds
  <1>7. CASE work' = [work EXCEPT ![t] = r]
    <2>1. Honest(r.copy, settled, expired, issued') /\ issued' \in 0..MaxCreds
      BY <1>2, <1>6, StateFacts DEF SessionsInv
    <2> QED
      BY <1>1, <1>2, <1>5, <1>6, <1>7, <2>1, LoadStep
  <1>8. CASE work' = [work EXCEPT ![t] = q]
    BY <1>3, <1>5, <1>6, <1>8, StateFacts, ThreadStep
  <1> QED
    BY <1>4, <1>7, <1>8

(* A revocation only makes a device inactive.                                *)
LEMMA LoadToRevokeStep ==
    ASSUME SessionsInv, Settle, NEW t \in Threads, LoadToRevoke(t)
    PROVE  SessionsInv'
  <1> DEFINE d == [devices EXCEPT ![work[t].cred] = "revoked"]
             r == [work[t] EXCEPT !.pc = "save", !.copy = d]
             q == [work[t] EXCEPT !.pc = "accept"]
  <1>1. work[t] \in Work /\ Form(work[t]) /\ work[t].pc = "load" /\ devices \in Store
        /\ work[t].kind = "revoke"
    BY StateFacts DEF LoadToRevoke
  <1>2. d \in Store
    BY <1>1 DEF Store
  <1>3. \/ work' = [work EXCEPT ![t] = r] /\ work[t].cred \in Active(devices)
        \/ work' = [work EXCEPT ![t] = q]
    BY StateFacts DEF LoadToRevoke
  <1>4. work[t].cred \in Active(devices) =>
          /\ d[work[t].cred] = "revoked" /\ devices[work[t].cred] # "none"
          /\ \A k \in Creds : k # work[t].cred => d[k] = devices[k]
    BY <1>1 DEF Store, Active
  <1> HIDE DEF d
  <1>5. /\ r \in Work /\ r.pc = "save" /\ r.kind = "revoke" /\ r.cred = work[t].cred /\ r.copy = d
    BY <1>1, <1>2 DEF Work, Steps
  <1>6. /\ q \in Work /\ q.pc = "accept" /\ q.kind = "revoke" /\ q.cred = work[t].cred
    BY <1>1 DEF Work, Steps
  <1> HIDE DEF r, q
  <1>7. Form(r) /\ Form(q)
    BY <1>5, <1>6 DEF Form
  <1>8. /\ devices' = devices /\ cut' = cut /\ issued' = issued /\ expired' = expired
        /\ codeOpen' = codeOpen /\ pairings' = pairings /\ rivals' = rivals
        /\ restarts' = restarts /\ sessions' = sessions /\ token' = token /\ cred' = cred /\ lost' = lost
    BY DEF LoadToRevoke, server, file, admitted, client, bounds
  <1>9. CASE work' = [work EXCEPT ![t] = r] /\ work[t].cred \in Active(devices)
    <2>1. /\ Active(d) \subseteq Active(devices)
          /\ \A k \in Creds : d[k] = "none" <=> devices[k] = "none"
      BY <1>4, <1>9 DEF Active
    <2>2. Honest(devices, settled, expired, issued)
      BY DEF SessionsInv
    <2>3. Honest(d, settled, expired, issued)
      BY <2>1, <2>2 DEF Honest
    <2>4. Honest(r.copy, settled, expired, issued') /\ issued' \in 0..MaxCreds
      BY <1>5, <1>8, <2>3, StateFacts
    <2> QED
      BY <1>1, <1>5, <1>7, <1>8, <1>9, <2>4, LoadStep
  <1>10. CASE work' = [work EXCEPT ![t] = q]
    BY <1>6, <1>7, <1>8, <1>10, StateFacts, ThreadStep
  <1> QED
    BY <1>3, <1>9, <1>10

(* The devices a pairing drops from the file have expired, or there are as   *)
(* many newer ones as the file holds.                                        *)
LEMMA DroppedFacts ==
    ASSUME NEW k \in Nat, NEW j \in Nat, j <= k, NEW kept \in SUBSET (1..k),
           ~(Cardinality({i \in kept : i > j}) < MaxDevices)
    PROVE  k >= j + MaxDevices
  <1> DEFINE newer == {i \in kept : i > j}
  <1>1. newer \subseteq (j+1)..k
    <2> SUFFICES ASSUME NEW i \in kept, i > j PROVE i \in (j+1)..k
      OBVIOUS
    <2>1. i \in Nat /\ i <= k
      OBVIOUS
    <2> QED
      BY <2>1
  <1>2. /\ IsFiniteSet((j+1)..k)
        /\ Cardinality((j+1)..k) = IF (j+1) > k THEN 0 ELSE k - (j+1) + 1
    BY FS_Interval
  <1>3. Cardinality((j+1)..k) = k - j
    BY <1>2
  <1>4. IsFiniteSet(newer) /\ Cardinality(newer) <= k - j
    BY <1>1, <1>2, <1>3, FS_Subset
  <1>5. Cardinality(newer) \in Nat /\ MaxDevices \in Nat
    BY <1>4, FS_CardinalityType, SessionsAssumption
  <1> QED
    BY <1>4, <1>5

(* A pairing adds a device and drops none before its time.                   *)
LEMMA LoadToIssueStep ==
    ASSUME SessionsInv, Settle, NEW t \in Threads, LoadToIssue(t),
           NEW k, k = issued + 1
    PROVE  SessionsInv'
  <1> DEFINE kept == {j \in Creds : devices[j] # "none" /\ j \notin expired} \cup {k}
             newest == {j \in kept : Cardinality({i \in kept : i > j}) < MaxDevices}
             d == [j \in Creds |-> IF j = k THEN "active"
                                    ELSE IF j \in newest THEN devices[j] ELSE "none"]
             r == [work[t] EXCEPT !.pc = "save", !.cred = k, !.copy = d]
  <1>1. /\ work[t] \in Work /\ Form(work[t]) /\ work[t].pc = "load" /\ work[t].kind = "pair"
        /\ devices \in Store /\ settled \in Store
    BY StateFacts DEF LoadToIssue
  <1>2. work[t].cred = None
    BY <1>1 DEF Form
  <1>3. k \in Creds /\ k \in Nat /\ issued \in Nat /\ k = issued + 1 /\ k <= MaxCreds
    <2>1. t \in PairsWaiting(work)
      BY <1>1, <1>2 DEF PairsWaiting
    <2>2. Cardinality(PairsWaiting(work)) \in Nat /\ Cardinality(PairsWaiting(work)) # 0
      BY <2>1, CountFacts, FS_EmptySet
    <2>3. issued \in Nat /\ MaxCreds \in Nat /\ issued + Cardinality(PairsWaiting(work)) <= MaxCreds
      BY SessionsAssumption, StateFacts DEF Room
    <2> QED
      BY <2>2, <2>3 DEF Creds
  <1>4. work' = [work EXCEPT ![t] = r] /\ issued' = k
    BY StateFacts DEF LoadToIssue
  <1>5. d \in Store
    BY <1>1 DEF Store
  <1>6. Honest(devices, settled, expired, issued) /\ \A j \in Creds : settled[j] # "none" => j <= issued
    BY DEF SessionsInv
  <1>7. kept \in SUBSET (1..k)
    <2>1. \A j \in Creds : devices[j] # "none" => j <= issued
      BY <1>6 DEF Honest
    <2> QED
      BY <1>3, <2>1 DEF Creds
  <1>8. Honest(d, settled, expired, k)
    <2>1. \A j \in Creds : d[j] = IF j = k THEN "active" ELSE IF j \in newest THEN devices[j] ELSE "none"
      OBVIOUS
    <2>2. settled[k] = "none"
      BY <1>3, <1>6
    <2>3. ASSUME NEW j \in Creds, settled[j] # "none", d[j] = "none"
          PROVE  j \in expired \/ k >= j + MaxDevices
      <3>1. j # k /\ j <= k /\ j \in Nat
        BY <1>3, <1>6, <2>2, <2>3 DEF Creds
      <3>2. CASE devices[j] = "none"
        <4>1. j \in expired \/ issued >= j + MaxDevices
          BY <1>6, <2>3, <3>2 DEF Honest
        <4>2. j + MaxDevices \in Nat
          BY <3>1, SessionsAssumption
        <4> QED
          BY <1>3, <4>1, <4>2
      <3>3. CASE devices[j] # "none" /\ j \notin expired
        <4>1. j \in kept /\ j \notin newest
          BY <2>1, <2>3, <3>1, <3>3
        <4>2. ~(Cardinality({i \in kept : i > j}) < MaxDevices)
          BY <4>1
        <4> HIDE DEF kept
        <4> QED
          BY <1>3, <1>7, <3>1, <4>2, DroppedFacts
      <3> QED
        BY <3>2, <3>3
    <2> HIDE DEF d, kept, newest
    <2>4. Revoked(settled) \cap Active(d) = {}
      <3>1. Active(d) \subseteq Active(devices) \cup {k}
        BY <2>1 DEF Active
      <3> QED
        BY <1>6, <2>2, <3>1 DEF Honest, Revoked
    <2>5. ASSUME NEW j \in Creds, d[j] # "none" PROVE j <= k
      <3>1. CASE j = k
        BY <1>3, <3>1
      <3>2. CASE j # k
        <4>1. j <= issued /\ j \in Nat
          BY <1>6, <2>1, <2>5, <3>2 DEF Honest, Creds
        <4> QED
          BY <1>3, <4>1
      <3> QED
        BY <3>1, <3>2
    <2> QED
      BY <2>3, <2>4, <2>5 DEF Honest
  <1> HIDE DEF d
  <1>9. /\ r \in Work /\ r.pc = "save" /\ r.kind = "pair" /\ r.cred = k /\ r.copy = d
    BY <1>1, <1>3, <1>5 DEF Work, Steps
  <1> HIDE DEF r
  <1>10. Form(r) /\ k # None
    BY <1>3, <1>9, SessionsAssumption DEF Form
  <1>11. /\ devices' = devices /\ cut' = cut /\ expired' = expired
        /\ codeOpen' = codeOpen /\ pairings' = pairings /\ rivals' = rivals
        /\ restarts' = restarts /\ sessions' = sessions /\ token' = token /\ cred' = cred /\ lost' = lost
    BY DEF LoadToIssue, file, admitted, client, bounds
  <1>12. /\ issued' \in {issued, issued + 1} /\ issued' \in 0..MaxCreds /\ issued' # issued
    BY <1>3, <1>4, SessionsAssumption
  <1>13. Honest(r.copy, settled, expired, issued')
    BY <1>4, <1>8, <1>9
  <1> QED
    BY <1>1, <1>2, <1>4, <1>9, <1>10, <1>11, <1>12, <1>13, LoadStep

-----------------------------------------------------------------------------
(* Every step keeps the invariant.                                           *)
LEMMA SessionsStepKeeps ==
    ASSUME SessionsInv, [SessionsNext]_vars
    PROVE  SessionsInv'
  <1>1. CASE UNCHANGED vars
    <2>1. /\ devices' = devices /\ cut' = cut /\ issued' = issued /\ expired' = expired
          /\ codeOpen' = codeOpen /\ pairings' = pairings /\ rivals' = rivals /\ settled' = settled
          /\ restarts' = restarts /\ sessions' = sessions /\ token' = token /\ cred' = cred
          /\ lost' = lost /\ work' = work
      BY <1>1 DEF vars, server, file, admitted, client, bounds
    <2> QED
      BY <2>1 DEF SessionsInv, SessionsTypeOK
  <1>2. CASE SessionsStep /\ Settle
    <2>1. ASSUME NEW b \in Browsers, Use(b) PROVE SessionsInv'
      BY <1>2, <2>1, PairStep, CheckStatusStep, DisconnectStep, ReloadStep, TimeStep DEF Use
    <2>2. ASSUME NEW t \in Threads, Load(t) PROVE SessionsInv'
      BY <1>2, <2>2, LoadToIssueStep, LoadToValidateStep, LoadToRevokeStep DEF Load
    <2>3. ASSUME NEW t \in Threads, Handle(t) PROVE SessionsInv'
      BY <1>2, <2>2, <2>3, PairCheckStep, PairMarkStep, OpenFileStep, WriteFileStep, AcceptedStep
         DEF Handle
    <2> QED
      BY <1>2, <2>1, <2>3, LoseAnswerStep, RestartStep, TimeStep DEF SessionsStep
  <1> QED
    BY <1>1, <1>2 DEF SessionsNext

(* It holds when the server is started for the first time.                   *)
LEMMA SessionsStart ==
    ASSUME SessionsInit
    PROVE  SessionsInv
  <1>1. SessionsTypeOK
    <2>1. /\ issued \in 0..MaxCreds /\ pairings \in Nat /\ rivals \in 0..Cardinality(Threads)
          /\ restarts \in 0..MaxRestarts /\ lost \in 0..MaxLost
      BY CountFacts, SessionsAssumption DEF SessionsInit
    <2>2. /\ devices \in Store /\ settled \in Store /\ work \in [Threads -> Work]
          /\ expired \subseteq Creds /\ sessions \subseteq Browsers
      BY NoWorkFacts DEF SessionsInit
    <2>3. token \in [Browsers -> BOOLEAN] /\ cut \in BOOLEAN /\ codeOpen \in BOOLEAN
      BY DEF SessionsInit
    <2>4. cred \in [Browsers -> Creds \cup {None}]
      BY DEF SessionsInit
    <2> QED
      BY <2>1, <2>2, <2>3, <2>4 DEF SessionsTypeOK
  <1>2. \A t \in Threads : work[t] = NoWork
    BY DEF SessionsInit
  <1>3. DOMAIN work = Threads /\ Copies(work) = {}
    BY <1>2, NoWorkFacts DEF SessionsInit, Copies
  <1>4. \A k \in Creds : devices[k] = "none" /\ settled[k] = "none"
    BY DEF SessionsInit, NoDevices
  <1>5. Honest(devices, settled, expired, issued)
    BY <1>4 DEF Honest, Revoked
  <1>6. Room(work, issued)
    <2>1. PairsWaiting(work) = {}
      BY <1>2, NoWorkFacts DEF PairsWaiting
    <2>2. Cardinality(PairsWaiting(work)) = 0
      BY <2>1, FS_EmptySet
    <2> QED
      BY <2>2, SessionsAssumption DEF Room, SessionsInit
  <1>7. Counted(pairings, rivals, codeOpen, work)
    BY DEF SessionsInit, Counted
  <1> QED
    BY <1>1, <1>2, <1>3, <1>4, <1>5, <1>6, <1>7, NoWorkFacts DEF SessionsInv, HonestCopies

(* The invariant holds in every state of the companion.                      *)
THEOREM SessionsInvariant == SessionsSpec => []SessionsInv
  <1>1. SessionsInit => SessionsInv
    BY SessionsStart
  <1>2. SessionsInv /\ [SessionsNext]_vars => SessionsInv'
    BY SessionsStepKeeps
  <1> QED
    BY <1>1, <1>2, PTL DEF SessionsSpec

(* The variables have their types.                                           *)
THEOREM SessionsTypes == SessionsSpec => []SessionsTypeOK
  <1>1. SessionsInv => SessionsTypeOK
    BY DEF SessionsInv
  <1> QED
    BY <1>1, SessionsInvariant, PTL

(* A settled revocation is never undone by the threads that rewrite the file *)
(* (owner_device_sessions.py: issue, validate, revoke).                      *)
THEOREM SessionsRevokedForGood == SessionsSpec => []RevokedForGood
  <1>1. SessionsInv => RevokedForGood
    BY DEF SessionsInv, HonestCopies, Honest, RevokedForGood
  <1> QED
    BY <1>1, SessionsInvariant, PTL

(* A settled device is dropped from the file only for its age or for newer   *)
(* ones (issue_owner_device_credential: ttl_days and max_devices).           *)
THEOREM SessionsKeptOrOutlived == SessionsSpec => []KeptOrOutlived
  <1>1. SessionsInv => KeptOrOutlived
    BY DEF SessionsInv, Honest, KeptOrOutlived
  <1> QED
    BY <1>1, SessionsInvariant, PTL

(* A code admits no more requests than had compared it when it was first     *)
(* accepted (create_browser_session of server.py).                           *)
THEOREM SessionsPairedAtOnce == SessionsSpec => []PairedAtOnce
  <1>1. SessionsInv => PairedAtOnce
    <2> SUFFICES ASSUME SessionsInv PROVE PairedAtOnce
      OBVIOUS
    <2>1. /\ pairings \in Nat /\ rivals \in 0..Cardinality(Threads) /\ Cardinality(Threads) \in Nat
          /\ Cardinality(Marking(work)) \in Nat
      BY StateFacts, CountFacts
    <2> QED
      BY <2>1 DEF SessionsInv, Counted, PairedAtOnce
  <1> QED
    BY <1>1, SessionsInvariant, PTL

=============================================================================
