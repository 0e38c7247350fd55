----------------------- MODULE DispatchWritersProofs -----------------------
(***************************************************************************)
(* Proofs about DispatchWriters, for every set of packets and processes    *)
(* and all bounds.                                                         *)
(*                                                                         *)
(* WritersInv holds when the scripts overlap in any way.                   *)
(* SerialWritersInv adds what holds when one script ends before the next   *)
(* one starts: the running one still knows what is in the state file.      *)
(*                                                                         *)
(* The operators below take the ledger `is` and the results `rs` as        *)
(* parameters, so that a fact about an earlier ledger can be compared with *)
(* one about a later ledger.                                               *)
(***************************************************************************)
EXTENDS DispatchWriters, TLAPS

(* A record's ids exist and belong to its packet, and its status is that of  *)
(* its result.                                                               *)
SoundRecord(p, r, is, rs) ==
    /\ r.issue # 0 => r.issue \in DOMAIN is /\ is[r.issue].packet = p
    /\ r.session # 0 => /\ r.session \in DOMAIN rs
                        /\ rs[r.session].packet = p
                        /\ rs[r.session].status = r.status
    /\ r.evidence # 0 => r.evidence \in DOMAIN rs /\ rs[r.evidence].packet = p

Sound(f, is, rs) ==
    /\ f \in [Packets -> Record]
    /\ \A p \in Packets : SoundRecord(p, f[p], is, rs)

PacketScripts == {"dispatch", "capture", "record"}

(* Where a process stands fits its agenda.                                   *)
StageFits(r) ==
    /\ r.pc # "rest" => Len(r.agenda) # 0
    /\ r.pc = "link" => Head(r.agenda) = "dispatch"
    /\ r.pc = "load" => Head(r.agenda) = "capture"
    /\ \A k \in DOMAIN r.agenda : r.agenda[k] \in PacketScripts => r.packet \in Packets

(* What a process remembers is sound: its snapshot, the result it is about   *)
(* to record, the issues it is about to read or close.                       *)
MemoryFits(r, is, rs) ==
    /\ Sound(r.snap, is, rs)
    /\ r.result # 0 => r.result \in DOMAIN rs /\ rs[r.result].packet = r.packet
    /\ r.pc = "load" => r.result # 0
    /\ r.pc = "save" /\ Head(r.agenda) \in {"capture", "record"} => r.result # 0
    /\ r.pc = "read" => \A p \in r.todo : r.snap[p].issue # 0
    /\ r.pc = "close" => \A p \in r.todo : Ready(r.snap[p])

ProcOK(r, is, rs) == r \in Proc /\ StageFits(r) /\ MemoryFits(r, is, rs)

Closings(is, rs) ==
    \A i \in DOMAIN is :
        is[i].closed =>
            \E n \in DOMAIN rs : rs[n].packet = is[i].packet /\ rs[n].status = "done"

Ledger(is) == is \in Seq(Issue) /\ Len(is) <= MaxIssues
Worked(rs) == rs \in Seq(Result) /\ Len(rs) <= MaxResults

Frame ==
    /\ archive \subseteq Record
    /\ refreshed \in [Packets -> SUBSET Labels]
    /\ lost \subseteq 0..MaxIssues
    /\ faults \in 0..MaxFaults
    /\ proc \in [Procs -> Proc]

WritersInv ==
    /\ Frame
    /\ Ledger(issues)
    /\ Worked(results)
    /\ Closings(issues, results)
    /\ Sound(file, issues, results)
    /\ \A w \in Procs : ProcOK(proc[w], issues, results)

(* The ledger and the results only grow.                                     *)
Grows(is, rs, js, ss) ==
    /\ DOMAIN is \subseteq DOMAIN js
    /\ \A i \in DOMAIN is : js[i].packet = is[i].packet
    /\ DOMAIN rs \subseteq DOMAIN ss
    /\ \A n \in DOMAIN rs : ss[n] = rs[n]

-----------------------------------------------------------------------------
(* What is sound stays sound.                                                *)
LEMMA SoundGrows ==
  ASSUME NEW is, NEW rs, NEW js, NEW ss, Grows(is, rs, js, ss), NEW f, Sound(f, is, rs)
  PROVE  Sound(f, js, ss)
  BY DEF Sound, SoundRecord, Grows

LEMMA ProcGrows ==
  ASSUME NEW is, NEW rs, NEW js, NEW ss, Grows(is, rs, js, ss), NEW r, ProcOK(r, is, rs)
  PROVE  ProcOK(r, js, ss)
  <1>1. Sound(r.snap, js, ss)
    BY SoundGrows DEF ProcOK, MemoryFits
  <1> QED
    BY <1>1 DEF ProcOK, MemoryFits, Grows

LEMMA NoRecordType == NoRecord \in Record
  BY WritersAssumption DEF NoRecord, Record, Statuses

LEMMA IdleType == Idle \in Proc
  <1>1. << >> \in Seq(Scripts)
    OBVIOUS
  <1>2. [p \in Packets |-> NoRecord] \in [Packets -> Record]
    BY NoRecordType
  <1>3. 0 \in 0..MaxResults
    BY WritersAssumption
  <1> QED
    BY <1>1, <1>2, <1>3 DEF Idle, Proc

LEMMA EmptySound == ASSUME NEW is, NEW rs PROVE Sound([p \in Packets |-> NoRecord], is, rs)
  BY NoRecordType DEF Sound, SoundRecord, NoRecord

(* A process at rest is sound, and so is one that starts an agenda.          *)
LEMMA IdleOK == ASSUME NEW is, NEW rs PROVE ProcOK(Idle, is, rs)
  <1>1. StageFits(Idle) /\ MemoryFits(Idle, is, rs)
    BY EmptySound DEF StageFits, MemoryFits, Idle
  <1> QED
    BY <1>1, IdleType DEF ProcOK

LEMMA BegunOK ==
  ASSUME NEW is, NEW rs, NEW agenda \in Seq(Scripts), Len(agenda) # 0,
         NEW p \in Packets \cup {NoPacket},
         \A k \in DOMAIN agenda : agenda[k] \in PacketScripts => p \in Packets
  PROVE  ProcOK([Idle EXCEPT !.pc = "next", !.agenda = agenda, !.packet = p], is, rs)
  <1> DEFINE r == [Idle EXCEPT !.pc = "next", !.agenda = agenda, !.packet = p]
  <1>1. r \in Proc
    BY IdleType DEF Proc
  <1>2. /\ r.pc = "next" /\ r.agenda = agenda /\ r.packet = p
        /\ r.snap = Idle.snap /\ r.result = 0
    BY DEF Idle
  <1>3. Sound(r.snap, is, rs)
    BY <1>2, EmptySound DEF Idle
  <1> HIDE DEF r
  <1>4. StageFits(r)
    BY <1>2 DEF StageFits
  <1>5. MemoryFits(r, is, rs)
    BY <1>2, <1>3 DEF MemoryFits
  <1>6. ProcOK(r, is, rs)
    BY <1>1, <1>4, <1>5 DEF ProcOK
  <1> QED
    BY <1>6 DEF r

(* Ended moves on to the rest of the agenda.                                 *)
LEMMA EndedOK ==
  ASSUME NEW w \in Procs, NEW is, NEW rs, ProcOK(proc[w], is, rs), proc[w].pc # "rest"
  PROVE  ProcOK(Ended(w), is, rs)
  <1> DEFINE a == proc[w].agenda
  <1>1. a \in Seq(Scripts) /\ Len(a) # 0 /\ proc[w].packet \in Packets \cup {NoPacket}
    BY DEF ProcOK, StageFits, Proc
  <1>2. \A k \in DOMAIN a : a[k] \in PacketScripts => proc[w].packet \in Packets
    BY DEF ProcOK, StageFits
  <1> HIDE DEF a
  <1>3. CASE Len(a) = 1
    BY <1>3, IdleOK DEF Ended, a
  <1>4. CASE Len(a) # 1
    <2>1. Tail(a) \in Seq(Scripts) /\ Len(Tail(a)) # 0
      BY <1>1, <1>4
    <2>2. \A k \in DOMAIN Tail(a) : Tail(a)[k] \in PacketScripts => proc[w].packet \in Packets
      <3>1. \A k \in DOMAIN Tail(a) : k + 1 \in DOMAIN a /\ Tail(a)[k] = a[k + 1]
        BY <1>1, <1>4
      <3> QED
        BY <1>2, <3>1
    <2>3. ProcOK([Idle EXCEPT !.pc = "next", !.agenda = Tail(a), !.packet = proc[w].packet], is, rs)
      BY <1>1, <2>1, <2>2, BegunOK
    <2> QED
      BY <1>4, <2>3 DEF Ended, a
  <1> QED
    BY <1>3, <1>4

-----------------------------------------------------------------------------
(* The empty system satisfies the invariant.                                 *)
LEMMA InitWritersInv == Init => WritersInv
  <1> SUFFICES ASSUME Init PROVE WritersInv
    OBVIOUS
  <1>1. Frame
    <2>1. refreshed \in [Packets -> SUBSET Labels]
      BY DEF Init
    <2>2. proc \in [Procs -> Proc]
      BY IdleType DEF Init
    <2> QED
      BY <2>1, <2>2, WritersAssumption DEF Init, Frame
  <1>2. Ledger(issues) /\ Worked(results)
    BY WritersAssumption DEF Init, Ledger, Worked
  <1>3. Closings(issues, results)
    BY DEF Init, Closings
  <1>4. Sound(file, issues, results)
    BY EmptySound DEF Init
  <1>5. \A w \in Procs : ProcOK(proc[w], issues, results)
    BY IdleOK DEF Init
  <1> QED
    BY <1>1, <1>2, <1>3, <1>4, <1>5 DEF WritersInv

(* A step in which one process becomes r.                                    *)
LEMMA ProcStep ==
  ASSUME WritersInv, NEW w \in Procs, NEW r, Become(w, r),
         Grows(issues, results, issues', results'),
         ProcOK(r, issues', results'),
         Sound(file', issues', results'),
         Ledger(issues'), Worked(results'), Closings(issues', results'),
         archive' \subseteq Record, refreshed' \in [Packets -> SUBSET Labels],
         lost' \subseteq 0..MaxIssues, faults' \in 0..MaxFaults
  PROVE  WritersInv'
  <1>1. proc \in [Procs -> Proc] /\ r \in Proc
    BY DEF WritersInv, Frame, ProcOK
  <1>2. proc' \in [Procs -> Proc]
    BY <1>1 DEF Become
  <1>3. \A v \in Procs : proc'[v] = IF v = w THEN r ELSE proc[v]
    BY <1>1 DEF Become
  <1>4. \A v \in Procs : ProcOK(proc'[v], issues', results')
    <2>1. ASSUME NEW v \in Procs, v # w PROVE ProcOK(proc[v], issues', results')
      <3>1. ProcOK(proc[v], issues, results)
        BY DEF WritersInv
      <3> QED
        BY <3>1, ProcGrows
    <2> QED
      BY <1>3, <2>1
  <1>5. Frame'
    BY <1>2 DEF Frame
  <1> QED
    BY <1>4, <1>5 DEF WritersInv

LEMMA SameGrows == ASSUME NEW is, NEW rs PROVE Grows(is, rs, is, rs)
  BY DEF Grows

(* A step that changes only the process and perhaps the count of faults.     *)
LEMMA QuietStep ==
  ASSUME WritersInv, NEW w \in Procs, NEW r, Become(w, r),
         ProcOK(r, issues, results),
         UNCHANGED <<file, archive, refreshed, issues, results, lost>>,
         faults' \in 0..MaxFaults
  PROVE  WritersInv'
  <1>1. Grows(issues, results, issues', results')
    BY SameGrows
  <1>2. /\ ProcOK(r, issues', results')
        /\ Sound(file', issues', results')
        /\ Ledger(issues') /\ Worked(results') /\ Closings(issues', results')
    BY DEF WritersInv
  <1>3. /\ archive' \subseteq Record /\ refreshed' \in [Packets -> SUBSET Labels]
        /\ lost' \subseteq 0..MaxIssues
    BY DEF WritersInv, Frame
  <1> QED
    BY <1>1, <1>2, <1>3, ProcStep

(* A step that writes the state file.                                        *)
LEMMA SaveStep ==
  ASSUME WritersInv, NEW w \in Procs, NEW r, Become(w, r),
         ProcOK(r, issues, results), Sound(file', issues, results),
         UNCHANGED <<archive, refreshed, issues, results, lost, faults>>
  PROVE  WritersInv'
  <1>1. Grows(issues, results, issues', results')
    BY SameGrows
  <1>2. /\ ProcOK(r, issues', results')
        /\ Sound(file', issues', results')
        /\ Ledger(issues') /\ Worked(results') /\ Closings(issues', results')
    BY DEF WritersInv
  <1>3. /\ archive' \subseteq Record /\ refreshed' \in [Packets -> SUBSET Labels]
        /\ lost' \subseteq 0..MaxIssues /\ faults' \in 0..MaxFaults
    BY DEF WritersInv, Frame
  <1> QED
    BY <1>1, <1>2, <1>3, ProcStep

(* A process at work, taken apart.                                           *)
LEMMA ProcFacts ==
  ASSUME WritersInv, NEW w \in Procs
  PROVE  /\ proc[w] \in Proc
         /\ ProcOK(proc[w], issues, results)
         /\ Sound(file, issues, results)
         /\ faults \in 0..MaxFaults
  BY DEF WritersInv, Frame

(* What Loaded makes of a process.                                           *)
Stages == {"rest", "next", "link", "read", "save", "out", "load", "archive", "edit", "close"}

LEMMA LoadedFacts ==
  ASSUME WritersInv, NEW w \in Procs, NEW pc \in Stages
  PROVE  /\ Loaded(w, pc) \in Proc
         /\ Loaded(w, pc).pc = pc
         /\ Loaded(w, pc).agenda = proc[w].agenda
         /\ Loaded(w, pc).packet = proc[w].packet
         /\ Loaded(w, pc).snap = file
         /\ Loaded(w, pc).todo = proc[w].todo
         /\ Loaded(w, pc).result = proc[w].result
  <1>1. proc[w] \in Proc /\ file \in [Packets -> Record]
    BY ProcFacts DEF Sound
  <1> QED
    BY <1>1 DEF Loaded, Proc, Stages

(* A process that has loaded the file for a stage that asks nothing more.    *)
LEMMA LoadedOK ==
  ASSUME WritersInv, NEW w \in Procs, proc[w].pc # "rest",
         NEW pc \in {"link", "save"},
         pc = "link" => Head(proc[w].agenda) = "dispatch",
         pc = "save" => \/ Head(proc[w].agenda) \notin {"capture", "record"}
                        \/ proc[w].result # 0
  PROVE  ProcOK(Loaded(w, pc), issues, results)
  <1> DEFINE r == Loaded(w, pc)
  <1>1. /\ r \in Proc /\ r.pc = pc /\ r.agenda = proc[w].agenda
        /\ r.packet = proc[w].packet /\ r.snap = file /\ r.result = proc[w].result
    BY LoadedFacts DEF Stages
  <1>2. ProcOK(proc[w], issues, results) /\ Sound(file, issues, results)
    BY ProcFacts
  <1> HIDE DEF r
  <1>3. StageFits(r)
    BY <1>1, <1>2 DEF ProcOK, StageFits
  <1>4. MemoryFits(r, issues, results)
    BY <1>1, <1>2 DEF ProcOK, MemoryFits
  <1>5. ProcOK(r, issues, results)
    BY <1>1, <1>3, <1>4 DEF ProcOK
  <1> QED
    BY <1>5 DEF r

(* A process that is about to run a script for a packet has one.             *)
LEMMA HeadPacket ==
  ASSUME WritersInv, NEW w \in Procs, proc[w].pc # "rest",
         Head(proc[w].agenda) \in PacketScripts
  PROVE  proc[w].packet \in Packets
  <1> DEFINE a == proc[w].agenda
  <1>1. a \in Seq(Scripts) /\ Len(a) # 0
    BY ProcFacts DEF ProcOK, StageFits, Proc
  <1>2. \A k \in DOMAIN a : a[k] \in PacketScripts => proc[w].packet \in Packets
    BY ProcFacts DEF ProcOK, StageFits
  <1> HIDE DEF a
  <1>3. 1 \in DOMAIN a /\ Head(a) = a[1]
    BY <1>1
  <1> QED
    BY <1>2, <1>3 DEF a

-----------------------------------------------------------------------------
(* One lemma per action, or per group of actions with the same effect.       *)
LEMMA BeginInv ==
  ASSUME WritersInv, NEW w \in Procs, NEW agenda \in Seq(Scripts), Len(agenda) # 0,
         NEW p \in Packets \cup {NoPacket},
         \A k \in DOMAIN agenda : agenda[k] \in PacketScripts => p \in Packets,
         Begin(w, agenda, p)
  PROVE  WritersInv'
  <1>1. ProcOK([Idle EXCEPT !.pc = "next", !.agenda = agenda, !.packet = p], issues, results)
    BY BegunOK
  <1>2. UNCHANGED <<file, archive, refreshed, issues, results, lost>> /\ faults' \in 0..MaxFaults
    BY ProcFacts DEF Begin
  <1> QED
    BY <1>1, <1>2, QuietStep DEF Begin

(* The wrapper's parts are sequences of scripts.                             *)
LEMMA AgendaParts ==
  /\ Pilot \in Seq(Scripts) /\ RefreshState \in Seq(Scripts) /\ WorkerCapture \in Seq(Scripts)
  /\ LabelReconciliation \in Seq(Scripts) /\ CompleteAgenda \in Seq(Scripts)
  /\ Len(Pilot) = 1 /\ Len(RefreshState) = 3 /\ Len(WorkerCapture) = 1
  /\ Len(LabelReconciliation) = 2 /\ Len(CompleteAgenda) = 2
BY DEF Pilot, RefreshState, WorkerCapture, LabelReconciliation, CompleteAgenda, Scripts

LEMMA StartInv ==
  ASSUME WritersInv, NEW w \in Procs, Start(w)
  PROVE  WritersInv'
  <1>1. ASSUME NEW p \in Packets, StartWrapper(w, p) PROVE WritersInv'
    <2>1. WrapperAgenda \in Seq(Scripts) /\ Len(WrapperAgenda) # 0
      BY AgendaParts DEF WrapperAgenda
    <2> QED
      BY <1>1, <2>1, BeginInv DEF StartWrapper
  <1>2. ASSUME NEW agenda \in OperatorAgendas, Begin(w, agenda, NoPacket) PROVE WritersInv'
    <2>1. agenda \in Seq(Scripts) /\ Len(agenda) # 0
      <3>1. RefreshState \in Seq(Scripts) /\ Len(RefreshState) # 0
            /\ CompleteAgenda \in Seq(Scripts) /\ Len(CompleteAgenda) # 0
        BY AgendaParts
      <3>2. <<"labels">> \in Seq(Scripts) /\ Len(<<"labels">>) # 0
        BY DEF Scripts
      <3>3. <<"cleanup">> \in Seq(Scripts) /\ Len(<<"cleanup">>) # 0
        BY DEF Scripts
      <3> QED
        BY <3>1, <3>2, <3>3 DEF OperatorAgendas
    <2>2. \A k \in DOMAIN agenda : agenda[k] \notin PacketScripts
      BY DEF OperatorAgendas, RefreshState, CompleteAgenda, PacketScripts
    <2> QED
      BY <1>2, <2>1, <2>2, BeginInv
  <1>3. ASSUME NEW agenda \in PacketAgendas, NEW p \in Packets, Begin(w, agenda, p)
        PROVE  WritersInv'
    <2>1. agenda \in Seq(Scripts) /\ Len(agenda) # 0
      <3>1. <<"capture">> \in Seq(Scripts) /\ Len(<<"capture">>) # 0
        BY DEF Scripts
      <3>2. <<"record">> \in Seq(Scripts) /\ Len(<<"record">>) # 0
        BY DEF Scripts
      <3> QED
        BY <3>1, <3>2 DEF PacketAgendas
    <2> QED
      BY <1>3, <2>1, BeginInv
  <1> QED
    BY <1>1, <1>2, <1>3 DEF Start, StartOperator

LEMMA DispatchLoadInv ==
  ASSUME WritersInv, NEW w \in Procs, DispatchLoad(w)
  PROVE  WritersInv'
  <1> DEFINE r == IF proc[w].packet \in Present THEN Idle ELSE Loaded(w, "link")
  <1>1. ProcOK(r, issues, results)
    BY LoadedOK, IdleOK DEF DispatchLoad, Runs, At
  <1>2. Become(w, r)
    BY DEF DispatchLoad
  <1> HIDE DEF r
  <1> QED
    BY <1>1, <1>2, QuietStep, ProcFacts DEF DispatchLoad

LEMMA DispatchLinkInv ==
  ASSUME WritersInv, NEW w \in Procs, DispatchLink(w)
  PROVE  WritersInv'
  <1> DEFINE p == proc[w].packet
             snap == proc[w].snap
  <1>1. p \in Packets
    BY HeadPacket, ProcFacts DEF DispatchLink, At, ProcOK, StageFits, PacketScripts
  <1>2. Sound(snap, issues, results)
    BY ProcFacts DEF ProcOK, MemoryFits
  <1>3. PICK i \in LinkedIssue(p), thread \in BOOLEAN :
          /\ i <= MaxIssues
          /\ issues' = IF i > Len(issues) THEN Append(issues, NewIssue(p)) ELSE issues
          /\ file' = [snap EXCEPT ![p] = [@ EXCEPT !.issue = i, !.thread = thread]]
          /\ \/ thread /\ End(w) /\ UNCHANGED faults
             \/ ~thread /\ faults < MaxFaults /\ faults' = faults + 1 /\ Become(w, Idle)
    BY DEF DispatchLink
  <1>4. UNCHANGED <<archive, refreshed, results, lost>>
    BY DEF DispatchLink
  <1>5. Ledger(issues) /\ Worked(results) /\ Closings(issues, results) /\ Frame
    BY DEF WritersInv
  <1>6. i \in Nat \ {0} /\ i <= Len(issues) + 1
    <2>1. CASE Hits(p) = {}
      BY <1>5, <2>1 DEF LinkedIssue, Ledger
    <2>2. CASE Hits(p) # {}
      BY <1>5, <2>2 DEF LinkedIssue, Hits, Ledger
    <2> QED
      BY <2>1, <2>2
  <1>7. NewIssue(p) \in Issue /\ NewIssue(p).packet = p /\ NewIssue(p).closed = FALSE
    BY <1>1 DEF NewIssue, Issue, Labels
  <1> HIDE DEF p, snap
  <1>8. /\ Ledger(issues')
        /\ Grows(issues, results, issues', results')
        /\ i \in DOMAIN issues'
        /\ Closings(issues', results')
        /\ i > Len(issues) => issues'[i].packet = p
    <2>1. CASE i > Len(issues)
      <3>1. issues' = Append(issues, NewIssue(p)) /\ i = Len(issues) + 1
        BY <1>3, <1>5, <1>6, <2>1 DEF Ledger
      <3>2. /\ issues' \in Seq(Issue) /\ Len(issues') = i
            /\ DOMAIN issues' = 1..i
            /\ \A k \in DOMAIN issues : issues'[k] = issues[k]
            /\ issues'[i] = NewIssue(p)
            /\ DOMAIN issues = 1..Len(issues) /\ Len(issues) \in Nat
        BY <1>5, <1>7, <3>1 DEF Ledger
      <3>3. Ledger(issues')
        BY <1>3, <3>2 DEF Ledger
      <3>4. Grows(issues, results, issues', results')
        BY <1>4, <3>1, <3>2 DEF Grows
      <3>5. \A k \in DOMAIN issues' : k # i => k \in DOMAIN issues
        BY <3>1, <3>2
      <3>6. Closings(issues', results')
        BY <1>4, <1>5, <1>7, <3>2, <3>5 DEF Closings
      <3>7. i \in DOMAIN issues'
        BY <3>1, <3>2
      <3> QED
        BY <1>7, <3>2, <3>3, <3>4, <3>6, <3>7
    <2>2. CASE ~(i > Len(issues))
      <3>1. issues' = issues
        BY <1>3, <2>2
      <3>2. i \in DOMAIN issues
        BY <1>5, <1>6, <2>2 DEF Ledger
      <3> QED
        BY <1>4, <1>5, <2>2, <3>1, <3>2, SameGrows
    <2> QED
      BY <2>1, <2>2
  <1>9. issues'[i].packet = p
    <2>1. CASE i > Len(issues)
      BY <1>8, <2>1
    <2>2. CASE ~(i > Len(issues))
      <3>1. i \in Hits(p)
        BY <1>5, <2>2 DEF LinkedIssue, Ledger, p
      <3> QED
        BY <1>3, <2>2, <3>1 DEF Hits
    <2> QED
      BY <2>1, <2>2
  <1>10. Sound(file', issues', results')
    <2>1. Sound(snap, issues', results')
      BY <1>2, <1>8, SoundGrows
    <2>2. i \in 0..MaxIssues
      BY <1>3, <1>6, WritersAssumption
    <2> DEFINE q == [snap[p] EXCEPT !.issue = i, !.thread = thread]
    <2>3. q \in Record
      BY <1>1, <2>1, <2>2 DEF Sound, Record
    <2>4. SoundRecord(p, q, issues', results')
      <3>1. SoundRecord(p, snap[p], issues', results') /\ snap[p] \in Record
        BY <1>1, <2>1 DEF Sound
      <3>2. /\ q.issue = i /\ q.session = snap[p].session /\ q.status = snap[p].status
            /\ q.evidence = snap[p].evidence
        BY <3>1 DEF Record
      <3> HIDE DEF q
      <3> QED
        BY <1>8, <1>9, <3>1, <3>2 DEF SoundRecord
    <2> HIDE DEF q
    <2>5. file' = [snap EXCEPT ![p] = q]
      BY <1>3 DEF q
    <2> QED
      BY <2>1, <2>3, <2>4, <2>5 DEF Sound
  <1>11. /\ Worked(results') /\ archive' \subseteq Record
         /\ refreshed' \in [Packets -> SUBSET Labels] /\ lost' \subseteq 0..MaxIssues
    BY <1>4, <1>5 DEF Frame
  <1>12. faults' \in 0..MaxFaults
    BY <1>3, <1>5, WritersAssumption DEF Frame
  <1>13. CASE End(w)
    <2>1. ProcOK(Ended(w), issues, results)
      BY EndedOK, ProcFacts DEF DispatchLink, At
    <2>2. ProcOK(Ended(w), issues', results')
      BY <1>8, <2>1, ProcGrows
    <2> QED
      BY <1>8, <1>10, <1>11, <1>12, <1>13, <2>2, ProcStep DEF End
  <1>14. CASE Become(w, Idle)
    BY <1>8, <1>10, <1>11, <1>12, <1>14, IdleOK, ProcStep
  <1> QED
    BY <1>3, <1>13, <1>14

-----------------------------------------------------------------------------
LEMMA RefreshLoadInv ==
  ASSUME WritersInv, NEW w \in Procs, RefreshLoad(w)
  PROVE  WritersInv'
  <1>1. PICK T \in Inspected(w) :
          Become(w, [Loaded(w, "read") EXCEPT !.todo = {p \in T : file[p].issue # 0}])
    BY DEF RefreshLoad
  <1> DEFINE r == [Loaded(w, "read") EXCEPT !.todo = {p \in T : file[p].issue # 0}]
  <1>2. T \subseteq Packets
    BY DEF Inspected, Present
  <1>3. /\ Loaded(w, "read") \in Proc /\ Loaded(w, "read").pc = "read"
        /\ Loaded(w, "read").agenda = proc[w].agenda
        /\ Loaded(w, "read").packet = proc[w].packet
        /\ Loaded(w, "read").snap = file
        /\ Loaded(w, "read").result = proc[w].result
    BY LoadedFacts DEF Stages
  <1>4. r \in Proc
    BY <1>2, <1>3 DEF Proc
  <1>5. /\ r.pc = "read" /\ r.agenda = proc[w].agenda /\ r.packet = proc[w].packet
        /\ r.snap = file /\ r.result = proc[w].result
        /\ \A p \in r.todo : file[p].issue # 0
    BY <1>3 DEF Proc
  <1> HIDE DEF r
  <1>6. ProcOK(r, issues, results)
    BY <1>4, <1>5, ProcFacts DEF ProcOK, StageFits, MemoryFits, RefreshLoad, Runs, At
  <1>7. Become(w, r)
    BY <1>1 DEF r
  <1> QED
    BY <1>6, <1>7, QuietStep, ProcFacts DEF RefreshLoad

LEMMA ReadIssueInv ==
  ASSUME WritersInv, NEW w \in Procs, NEW p \in Packets, ReadIssue(w, p)
  PROVE  WritersInv'
  <1> DEFINE q == Observed(proc[w].snap[p])
             snap == [proc[w].snap EXCEPT ![p] = q]
             r == [proc[w] EXCEPT !.todo = @ \ {p}, !.read = @ \cup {p}, !.snap = snap]
  <1>1. /\ proc[w] \in Proc /\ proc[w].pc = "read" /\ p \in proc[w].todo
        /\ Sound(proc[w].snap, issues, results) /\ proc[w].snap[p].issue # 0
    BY ProcFacts DEF ReadIssue, At, ProcOK, MemoryFits
  <1>2. q \in Record /\ SoundRecord(p, q, issues, results) /\ q.issue # 0
    <2>1. proc[w].snap[p] \in Record /\ SoundRecord(p, proc[w].snap[p], issues, results)
      BY <1>1 DEF Sound
    <2>2. issues[proc[w].snap[p].issue] \in Issue
      BY <1>1, <2>1 DEF SoundRecord, WritersInv, Ledger
    <2>3. q \in Record
      BY <2>1, <2>2 DEF Observed, Record, Issue
    <2>4. /\ q.issue = proc[w].snap[p].issue /\ q.session = proc[w].snap[p].session
          /\ q.status = proc[w].snap[p].status /\ q.evidence = proc[w].snap[p].evidence
      BY <2>1 DEF Observed, Record
    <2> HIDE DEF q
    <2> QED
      BY <1>1, <2>1, <2>3, <2>4 DEF SoundRecord
  <1> HIDE DEF q
  <1>3. /\ Sound(snap, issues, results)
        /\ \A u \in proc[w].todo \ {p} : snap[u].issue # 0
    BY <1>1, <1>2, ProcFacts DEF Sound, ProcOK, MemoryFits, Proc
  <1>4. snap \in [Packets -> Record]
    BY <1>3 DEF Sound
  <1> HIDE DEF snap
  <1>5. r \in Proc
    BY <1>1, <1>4 DEF Proc
  <1>6. /\ r.pc = "read" /\ r.agenda = proc[w].agenda /\ r.packet = proc[w].packet
        /\ r.snap = snap /\ r.result = proc[w].result /\ r.todo = proc[w].todo \ {p}
    BY <1>1 DEF Proc
  <1> HIDE DEF r
  <1>7. ProcOK(r, issues, results)
    BY <1>1, <1>3, <1>5, <1>6, ProcFacts DEF ProcOK, StageFits, MemoryFits
  <1>8. Become(w, r)
    BY DEF ReadIssue, r, snap, q
  <1> QED
    BY <1>7, <1>8, QuietStep, ProcFacts DEF ReadIssue

(* A process with less left to do.                                           *)
LEMMA LessToDo ==
  ASSUME WritersInv, NEW w \in Procs, NEW p, proc[w].pc \in {"read", "close"}
  PROVE  ProcOK([proc[w] EXCEPT !.todo = @ \ {p}], issues, results)
  <1> DEFINE r == [proc[w] EXCEPT !.todo = @ \ {p}]
  <1>1. proc[w] \in Proc
    BY ProcFacts
  <1>2. r \in Proc
    BY <1>1 DEF Proc
  <1>3. /\ r.pc = proc[w].pc /\ r.agenda = proc[w].agenda /\ r.packet = proc[w].packet
        /\ r.snap = proc[w].snap /\ r.result = proc[w].result
        /\ r.todo = proc[w].todo \ {p}
    BY <1>1 DEF Proc
  <1> HIDE DEF r
  <1>4. ProcOK(r, issues, results)
    BY <1>2, <1>3, ProcFacts DEF ProcOK, StageFits, MemoryFits
  <1> QED
    BY <1>4 DEF r

LEMMA ReadFailsInv ==
  ASSUME WritersInv, NEW w \in Procs, NEW p \in Packets, ReadFails(w, p)
  PROVE  WritersInv'
  <1>1. ProcOK([proc[w] EXCEPT !.todo = @ \ {p}], issues, results)
    BY LessToDo DEF ReadFails, At
  <1>2. faults' \in 0..MaxFaults
    BY ProcFacts, WritersAssumption DEF ReadFails
  <1>3. UNCHANGED <<file, archive, refreshed, issues, results, lost>>
    BY DEF ReadFails
  <1> QED
    BY <1>1, <1>2, <1>3, QuietStep DEF ReadFails

(* A process at a stage that asks nothing of its locals.                     *)
LEMMA PlainStage ==
  ASSUME WritersInv, NEW w \in Procs, NEW pc \in {"out", "archive"}, proc[w].pc # "rest"
  PROVE  ProcOK([proc[w] EXCEPT !.pc = pc], issues, results)
  <1> DEFINE r == [proc[w] EXCEPT !.pc = pc]
  <1>1. proc[w] \in Proc
    BY ProcFacts
  <1>2. r \in Proc
    BY <1>1 DEF Proc
  <1>3. /\ r.pc = pc /\ r.agenda = proc[w].agenda /\ r.packet = proc[w].packet
        /\ r.snap = proc[w].snap /\ r.result = proc[w].result
    BY <1>1 DEF Proc
  <1> HIDE DEF r
  <1>4. ProcOK(r, issues, results)
    BY <1>2, <1>3, ProcFacts DEF ProcOK, StageFits, MemoryFits
  <1> QED
    BY <1>4 DEF r

LEMMA RefreshSaveInv ==
  ASSUME WritersInv, NEW w \in Procs, RefreshSave(w)
  PROVE  WritersInv'
  <1>1. Sound(file', issues, results)
    BY ProcFacts DEF RefreshSave, ProcOK, MemoryFits
  <1>2. UNCHANGED <<archive, refreshed, issues, results, lost, faults>>
    BY DEF RefreshSave
  <1>3. ProcOK(Ended(w), issues, results) /\ ProcOK([proc[w] EXCEPT !.pc = "out"], issues, results)
    BY EndedOK, PlainStage, ProcFacts DEF RefreshSave, At
  <1>4. End(w) \/ Become(w, [proc[w] EXCEPT !.pc = "out"])
    BY DEF RefreshSave
  <1> QED
    BY <1>1, <1>2, <1>3, <1>4, SaveStep DEF End

LEMMA RefreshOutInv ==
  ASSUME WritersInv, NEW w \in Procs, RefreshOut(w)
  PROVE  WritersInv'
  <1>1. ProcOK(Ended(w), issues, results)
    BY EndedOK, ProcFacts DEF RefreshOut, At
  <1>2. refreshed' \in [Packets -> SUBSET Labels]
    <2>1. proc[w].snap \in [Packets -> Record]
      BY ProcFacts DEF Proc
    <2> QED
      BY <2>1 DEF RefreshOut, Record
  <1>3. UNCHANGED <<file, archive, issues, results, lost, faults>> /\ Become(w, Ended(w))
    BY DEF RefreshOut, End
  <1>4. /\ Grows(issues, results, issues', results') /\ ProcOK(Ended(w), issues', results')
        /\ Sound(file', issues', results')
        /\ Ledger(issues') /\ Worked(results') /\ Closings(issues', results')
        /\ archive' \subseteq Record /\ lost' \subseteq 0..MaxIssues /\ faults' \in 0..MaxFaults
    BY <1>1, <1>3, SameGrows DEF WritersInv, Frame
  <1> QED
    BY <1>2, <1>3, <1>4, ProcStep

-----------------------------------------------------------------------------
LEMMA DiscordInv ==
  ASSUME WritersInv, NEW w \in Procs, DiscordLoad(w) \/ DiscordSave(w)
  PROVE  WritersInv'
  <1>1. CASE DiscordLoad(w)
    <2>1. ProcOK(Loaded(w, "save"), issues, results)
      BY <1>1, LoadedOK DEF DiscordLoad, Runs, At
    <2> QED
      BY <1>1, <2>1, QuietStep, ProcFacts DEF DiscordLoad
  <1>2. CASE DiscordSave(w)
    <2>1. ProcOK(Ended(w), issues, results)
      BY <1>2, EndedOK, ProcFacts DEF DiscordSave, At
    <2>2. Sound(file', issues, results)
      BY <1>2, ProcFacts DEF DiscordSave, ProcOK, MemoryFits
    <2>3. Become(w, Ended(w)) /\ UNCHANGED <<archive, refreshed, issues, results, lost, faults>>
      BY <1>2 DEF DiscordSave, End
    <2> QED
      BY <2>1, <2>2, <2>3, SaveStep
  <1> QED
    BY <1>1, <1>2

-----------------------------------------------------------------------------
(* A new result leaves what was sound sound.                                 *)
LEMMA AppendResult ==
  ASSUME WritersInv, NEW x \in Result, results' = Append(results, x),
         Len(results) < MaxResults, issues' = issues
  PROVE  /\ Grows(issues, results, issues', results')
         /\ Ledger(issues') /\ Worked(results') /\ Closings(issues', results')
         /\ Sound(file, issues', results')
         /\ Len(results) + 1 \in DOMAIN results'
         /\ results'[Len(results) + 1] = x
         /\ Len(results) + 1 \in 0..MaxResults
  <1>1. /\ Worked(results) /\ Closings(issues, results) /\ Ledger(issues)
        /\ Sound(file, issues, results)
    BY DEF WritersInv
  <1>2. /\ results' \in Seq(Result) /\ Len(results') = Len(results) + 1
        /\ DOMAIN results' = 1..(Len(results) + 1)
        /\ DOMAIN results = 1..Len(results) /\ Len(results) \in Nat
        /\ \A n \in DOMAIN results : results'[n] = results[n]
        /\ results'[Len(results) + 1] = x
    BY <1>1 DEF Worked
  <1>3. Grows(issues, results, issues', results')
    BY <1>2 DEF Grows
  <1>4. Worked(results')
    BY <1>2, WritersAssumption DEF Worked
  <1>5. Closings(issues', results')
    <2>1. DOMAIN results \subseteq DOMAIN results'
      BY <1>2
    <2> QED
      BY <1>1, <1>2, <2>1 DEF Closings
  <1>6. Sound(file, issues', results')
    BY <1>1, <1>3, SoundGrows
  <1>7. Len(results) + 1 \in 0..MaxResults /\ Len(results) + 1 \in DOMAIN results'
    BY <1>2, WritersAssumption
  <1> QED
    BY <1>1, <1>2, <1>3, <1>4, <1>5, <1>6, <1>7

(* capture and record produce a result and take it up.                       *)
LEMMA ProduceStep ==
  ASSUME WritersInv, NEW w \in Procs, NEW x \in Result, x.packet = proc[w].packet,
         results' = Append(results, x), Len(results) < MaxResults,
         NEW base \in Proc, base.agenda = proc[w].agenda, base.packet = proc[w].packet,
         Sound(base.snap, issues, results),
         \/ base.pc = "load" /\ Head(proc[w].agenda) = "capture"
         \/ base.pc = "save",
         proc[w].pc # "rest",
         Become(w, [base EXCEPT !.result = Len(results) + 1]),
         UNCHANGED <<file, archive, refreshed, issues, lost, faults>>
  PROVE  WritersInv'
  <1> DEFINE r == [base EXCEPT !.result = Len(results) + 1]
  <1>1. /\ Grows(issues, results, issues', results')
        /\ Ledger(issues') /\ Worked(results') /\ Closings(issues', results')
        /\ Sound(file, issues', results')
        /\ Len(results) + 1 \in DOMAIN results'
        /\ results'[Len(results) + 1] = x
        /\ Len(results) + 1 \in 0..MaxResults
    BY AppendResult
  <1>2. r \in Proc
    BY <1>1 DEF Proc
  <1>3. /\ r.pc = base.pc /\ r.agenda = proc[w].agenda /\ r.packet = proc[w].packet
        /\ r.snap = base.snap /\ r.result = Len(results) + 1
    BY DEF Proc
  <1>4. Sound(base.snap, issues', results')
    BY <1>1, SoundGrows
  <1>5. Len(results) + 1 # 0
    BY DEF WritersInv, Worked
  <1> HIDE DEF r
  <1>6. StageFits(r)
    BY <1>3, ProcFacts DEF ProcOK, StageFits
  <1>7. MemoryFits(r, issues', results')
    BY <1>1, <1>3, <1>4, <1>5 DEF MemoryFits
  <1>8. ProcOK(r, issues', results') /\ Become(w, r)
    BY <1>2, <1>6, <1>7 DEF ProcOK, r
  <1>9. /\ Sound(file', issues', results')
        /\ archive' \subseteq Record /\ refreshed' \in [Packets -> SUBSET Labels]
        /\ lost' \subseteq 0..MaxIssues /\ faults' \in 0..MaxFaults
    BY <1>1 DEF WritersInv, Frame
  <1> QED
    BY <1>1, <1>8, <1>9, ProcStep

LEMMA CaptureRunInv ==
  ASSUME WritersInv, NEW w \in Procs, CaptureRun(w)
  PROVE  WritersInv'
  <1>1. PICK status \in {"done", "failed"} :
          results' = Append(results, [packet |-> proc[w].packet, status |-> status,
                                      manual |-> FALSE])
    BY DEF CaptureRun
  <1> DEFINE base == [proc[w] EXCEPT !.pc = "load"]
             x == [packet |-> proc[w].packet, status |-> status, manual |-> FALSE]
  <1>2. proc[w].packet \in Packets
    BY HeadPacket DEF CaptureRun, Runs, At, PacketScripts
  <1>3. x \in Result /\ x.packet = proc[w].packet
    BY <1>2 DEF Result, Statuses
  <1>4. /\ proc[w] \in Proc /\ proc[w].pc # "rest" /\ Head(proc[w].agenda) = "capture"
        /\ Sound(proc[w].snap, issues, results)
    BY ProcFacts DEF CaptureRun, Runs, At, ProcOK, MemoryFits
  <1>5. base \in Proc
    BY <1>4 DEF Proc
  <1>6. /\ base.pc = "load" /\ base.agenda = proc[w].agenda /\ base.packet = proc[w].packet
        /\ base.snap = proc[w].snap
    BY <1>4 DEF Proc
  <1>7. [base EXCEPT !.result = Len(results) + 1]
          = [proc[w] EXCEPT !.pc = "load", !.result = Len(results) + 1]
    BY <1>4 DEF Proc
  <1>8. Become(w, [base EXCEPT !.result = Len(results) + 1])
    BY <1>7 DEF CaptureRun
  <1>9. /\ Len(results) < MaxResults
        /\ UNCHANGED <<file, archive, refreshed, issues, lost, faults>>
    BY DEF CaptureRun
  <1> HIDE DEF base, x
  <1> QED
    BY <1>1, <1>3, <1>4, <1>5, <1>6, <1>8, <1>9, ProduceStep DEF x

LEMMA RecordLoadInv ==
  ASSUME WritersInv, NEW w \in Procs, RecordLoad(w)
  PROVE  WritersInv'
  <1>1. PICK status \in Statuses \ {""} :
          results' = Append(results, [packet |-> proc[w].packet, status |-> status,
                                      manual |-> TRUE])
    BY DEF RecordLoad
  <1> DEFINE x == [packet |-> proc[w].packet, status |-> status, manual |-> TRUE]
  <1>2. proc[w].packet \in Packets
    BY HeadPacket DEF RecordLoad, Runs, At, PacketScripts
  <1>3. x \in Result /\ x.packet = proc[w].packet
    BY <1>2 DEF Result, Statuses
  <1>4. proc[w].pc # "rest"
    BY DEF RecordLoad, Runs, At
  <1>5. /\ Loaded(w, "save") \in Proc /\ Loaded(w, "save").pc = "save"
        /\ Loaded(w, "save").agenda = proc[w].agenda
        /\ Loaded(w, "save").packet = proc[w].packet /\ Loaded(w, "save").snap = file
    BY LoadedFacts DEF Stages
  <1>6. /\ Become(w, [Loaded(w, "save") EXCEPT !.result = Len(results) + 1])
        /\ Len(results) < MaxResults
        /\ UNCHANGED <<file, archive, refreshed, issues, lost, faults>>
    BY DEF RecordLoad
  <1>7. Sound(Loaded(w, "save").snap, issues, results)
    BY <1>5, ProcFacts
  <1> HIDE DEF x
  <1> QED
    BY <1>1, <1>3, <1>4, <1>5, <1>6, <1>7, ProduceStep DEF x

LEMMA CaptureLoadInv ==
  ASSUME WritersInv, NEW w \in Procs, CaptureLoad(w)
  PROVE  WritersInv'
  <1>1. ProcOK(Loaded(w, "save"), issues, results)
    BY LoadedOK, ProcFacts DEF CaptureLoad, At, ProcOK, MemoryFits
  <1> QED
    BY <1>1, QuietStep, ProcFacts DEF CaptureLoad

(* The snapshot with a result written into the record of its packet.         *)
LEMMA ResultWritten ==
  ASSUME WritersInv, NEW w \in Procs, proc[w].pc = "save",
         Head(proc[w].agenda) \in {"capture", "record"},
         NEW e \in {proc[w].result, proc[w].snap[proc[w].packet].evidence}
  PROVE  Sound([proc[w].snap EXCEPT
                  ![proc[w].packet] = [@ EXCEPT !.session = proc[w].result,
                                                !.status = results[proc[w].result].status,
                                                !.evidence = e]], issues, results)
  <1> DEFINE p == proc[w].packet
             n == proc[w].result
             snap == proc[w].snap
             q == [snap[p] EXCEPT !.session = n, !.status = results[n].status, !.evidence = e]
  <1>1. p \in Packets
    BY HeadPacket DEF PacketScripts
  <1>2. /\ Sound(snap, issues, results) /\ n \in DOMAIN results /\ results[n].packet = p
        /\ n \in 0..MaxResults
    BY ProcFacts DEF ProcOK, MemoryFits, Proc
  <1>3. results[n].status \in Statuses
    <2>1. results \in Seq(Result)
      BY DEF WritersInv, Worked
    <2>2. results[n] \in Result
      BY <1>2, <2>1
    <2> QED
      BY <2>2 DEF Result
  <1>4. snap[p] \in Record /\ SoundRecord(p, snap[p], issues, results)
    BY <1>1, <1>2 DEF Sound
  <1>5. e \in 0..MaxResults
    BY <1>2, <1>4 DEF Record
  <1>6. q \in Record
    BY <1>2, <1>3, <1>4, <1>5 DEF Record
  <1>7. /\ q.issue = snap[p].issue /\ q.session = n /\ q.status = results[n].status
        /\ q.evidence = e
    BY <1>4 DEF Record
  <1>8. e # 0 => e \in DOMAIN results /\ results[e].packet = p
    BY <1>2, <1>4 DEF SoundRecord
  <1> HIDE DEF q
  <1>9. SoundRecord(p, q, issues, results)
    BY <1>2, <1>4, <1>7, <1>8 DEF SoundRecord
  <1>10. Sound([snap EXCEPT ![p] = q], issues, results)
    BY <1>1, <1>2, <1>6, <1>9 DEF Sound
  <1> QED
    BY <1>10 DEF q

LEMMA CaptureSaveInv ==
  ASSUME WritersInv, NEW w \in Procs, CaptureSave(w)
  PROVE  WritersInv'
  <1>1. Sound(file', issues, results)
    <2>1. Sound([proc[w].snap EXCEPT
                   ![proc[w].packet] = [@ EXCEPT !.session = proc[w].result,
                                                 !.status = results[proc[w].result].status,
                                                 !.evidence = proc[w].result]], issues, results)
      BY ResultWritten DEF CaptureSave, At
    <2> QED
      BY <2>1 DEF CaptureSave, CaptureEvidence
  <1>2. UNCHANGED <<archive, refreshed, issues, results, lost, faults>>
    BY DEF CaptureSave
  <1>3. ProcOK(Ended(w), issues, results) /\ ProcOK(Idle, issues, results)
    BY EndedOK, IdleOK, ProcFacts DEF CaptureSave, At
  <1>4. Become(w, Ended(w)) \/ Become(w, Idle)
    BY DEF CaptureSave, End
  <1> QED
    BY <1>1, <1>2, <1>3, <1>4, SaveStep

LEMMA RecordSaveInv ==
  ASSUME WritersInv, NEW w \in Procs, RecordSave(w)
  PROVE  WritersInv'
  <1>1. PICK e \in {proc[w].result, proc[w].snap[proc[w].packet].evidence} :
          file' = [proc[w].snap EXCEPT
                     ![proc[w].packet] = [@ EXCEPT !.session = proc[w].result,
                                                   !.status = results[proc[w].result].status,
                                                   !.evidence = e]]
    BY DEF RecordSave
  <1>2. Sound(file', issues, results)
    BY <1>1, ResultWritten DEF RecordSave, At
  <1>3. UNCHANGED <<archive, refreshed, issues, results, lost, faults>> /\ Become(w, Ended(w))
    BY DEF RecordSave, End
  <1>4. ProcOK(Ended(w), issues, results)
    BY EndedOK, ProcFacts DEF RecordSave, At
  <1> QED
    BY <1>2, <1>3, <1>4, SaveStep

-----------------------------------------------------------------------------
LEMMA CleanupLoadInv ==
  ASSUME WritersInv, NEW w \in Procs, CleanupLoad(w)
  PROVE  WritersInv'
  <1>1. PICK T \in Selections :
          Become(w, IF T = {} THEN Ended(w)
                    ELSE [Loaded(w, "save") EXCEPT !.todo = T, !.old = archive])
    BY DEF CleanupLoad
  <1> DEFINE r == [Loaded(w, "save") EXCEPT !.todo = T, !.old = archive]
  <1>2. T \subseteq Packets
    BY DEF Selections, Matched, Present
  <1>3. /\ Loaded(w, "save") \in Proc /\ Loaded(w, "save").pc = "save"
        /\ Loaded(w, "save").agenda = proc[w].agenda
        /\ Loaded(w, "save").packet = proc[w].packet
        /\ Loaded(w, "save").snap = file
        /\ Loaded(w, "save").result = proc[w].result
    BY LoadedFacts DEF Stages
  <1>4. archive \subseteq Record
    BY DEF WritersInv, Frame
  <1>5. r \in Proc
    BY <1>2, <1>3, <1>4 DEF Proc
  <1>6. /\ r.pc = "save" /\ r.agenda = proc[w].agenda /\ r.packet = proc[w].packet
        /\ r.snap = file /\ r.result = proc[w].result
    BY <1>3 DEF Proc
  <1>7. proc[w].pc # "rest" /\ Head(proc[w].agenda) = "cleanup"
    BY DEF CleanupLoad, Runs, At
  <1> HIDE DEF r
  <1>8. ProcOK(r, issues, results)
    BY <1>5, <1>6, <1>7, ProcFacts DEF ProcOK, StageFits, MemoryFits
  <1>9. ProcOK(Ended(w), issues, results)
    BY <1>7, EndedOK, ProcFacts
  <1>10. Become(w, Ended(w)) \/ Become(w, r)
    BY <1>1 DEF r
  <1> QED
    BY <1>8, <1>9, <1>10, QuietStep, ProcFacts DEF CleanupLoad

LEMMA CleanupSaveInv ==
  ASSUME WritersInv, NEW w \in Procs, CleanupSave(w)
  PROVE  WritersInv'
  <1>1. Sound(file', issues, results)
    <2>1. Sound(proc[w].snap, issues, results)
      BY ProcFacts DEF ProcOK, MemoryFits
    <2>2. file' = [p \in Packets |->
                     IF p \in proc[w].todo THEN NoRecord ELSE proc[w].snap[p]]
      BY DEF CleanupSave
    <2>3. \A p \in Packets : SoundRecord(p, NoRecord, issues, results)
      BY DEF SoundRecord, NoRecord
    <2> QED
      BY <2>1, <2>2, <2>3, NoRecordType DEF Sound
  <1>2. UNCHANGED <<archive, refreshed, issues, results, lost, faults>>
        /\ Become(w, [proc[w] EXCEPT !.pc = "archive"])
    BY DEF CleanupSave
  <1>3. ProcOK([proc[w] EXCEPT !.pc = "archive"], issues, results)
    BY PlainStage DEF CleanupSave, At
  <1> QED
    BY <1>1, <1>2, <1>3, SaveStep

LEMMA CleanupArchiveInv ==
  ASSUME WritersInv, NEW w \in Procs, CleanupArchive(w)
  PROVE  WritersInv'
  <1>1. ProcOK(Ended(w), issues, results)
    BY EndedOK, ProcFacts DEF CleanupArchive, At
  <1>2. archive' \subseteq Record
    BY ProcFacts DEF CleanupArchive, Archived, Proc
  <1>3. UNCHANGED <<file, refreshed, issues, results, lost, faults>> /\ Become(w, Ended(w))
    BY DEF CleanupArchive, End
  <1>4. /\ Grows(issues, results, issues', results') /\ ProcOK(Ended(w), issues', results')
        /\ Sound(file', issues', results')
        /\ Ledger(issues') /\ Worked(results') /\ Closings(issues', results')
        /\ refreshed' \in [Packets -> SUBSET Labels]
        /\ lost' \subseteq 0..MaxIssues /\ faults' \in 0..MaxFaults
    BY <1>1, <1>3, SameGrows DEF WritersInv, Frame
  <1> QED
    BY <1>2, <1>3, <1>4, ProcStep

-----------------------------------------------------------------------------
(* A process at the stage that edits labels.                                 *)
LEMMA EditStage ==
  ASSUME WritersInv, NEW w \in Procs, proc[w].pc # "rest", NEW E \in SUBSET Edit
  PROVE  ProcOK([proc[w] EXCEPT !.pc = "edit", !.edits = E], issues, results)
  <1> DEFINE r == [proc[w] EXCEPT !.pc = "edit", !.edits = E]
  <1>1. proc[w] \in Proc
    BY ProcFacts
  <1>2. r \in Proc
    BY <1>1 DEF Proc
  <1>3. /\ r.pc = "edit" /\ r.agenda = proc[w].agenda /\ r.packet = proc[w].packet
        /\ r.snap = proc[w].snap /\ r.result = proc[w].result
    BY <1>1 DEF Proc
  <1> HIDE DEF r
  <1>4. ProcOK(r, issues, results)
    BY <1>2, <1>3, ProcFacts DEF ProcOK, StageFits, MemoryFits
  <1> QED
    BY <1>4 DEF r

LEMMA LabelPlanInv ==
  ASSUME WritersInv, NEW w \in Procs, LabelPlan(w)
  PROVE  WritersInv'
  <1>1. PlannedEdits \in SUBSET Edit
    <2>1. ASSUME NEW p \in Packets, Planned(p) PROVE PlannedEdit(p) \in Edit
      <3>1. file[p] \in Record /\ refreshed[p] \in SUBSET Labels
        BY ProcFacts DEF Sound, WritersInv, Frame
      <3>2. KnownLabels(p) \in SUBSET Labels
        BY <3>1 DEF KnownLabels, Record
      <3>3. file[p].issue \in 1..MaxIssues
        BY <2>1, <3>1, WritersAssumption DEF Planned, Record
      <3>4. DesiredLabel(file[p]) \in Labels
        BY DEF DesiredLabel, Labels
      <3> QED
        BY <3>2, <3>3, <3>4 DEF PlannedEdit, Edit
    <2> QED
      BY <2>1 DEF PlannedEdits
  <1>2. ProcOK([proc[w] EXCEPT !.pc = "edit", !.edits = PlannedEdits], issues, results)
    BY <1>1, EditStage DEF LabelPlan, Runs, At
  <1> QED
    BY <1>2, QuietStep, ProcFacts DEF LabelPlan

(* A step that changes an issue, neither its packet nor, unless it is done,  *)
(* whether it is closed.                                                     *)
LEMMA IssueStep ==
  ASSUME WritersInv, NEW w \in Procs, NEW r, Become(w, r),
         ProcOK(r, issues, results),
         NEW i, NEW x \in Issue, issues' = [issues EXCEPT ![i] = x],
         i \in DOMAIN issues =>
            /\ x.packet = issues[i].packet
            /\ x.closed => \/ issues[i].closed
                           \/ \E n \in DOMAIN results :
                                results[n].packet = x.packet /\ results[n].status = "done",
         UNCHANGED <<file, archive, refreshed, results, lost, faults>>
  PROVE  WritersInv'
  <1>1. /\ Ledger(issues) /\ Closings(issues, results) /\ Sound(file, issues, results)
        /\ Worked(results) /\ Frame
    BY DEF WritersInv
  <1>2. /\ issues' \in Seq(Issue) /\ Len(issues') = Len(issues)
        /\ DOMAIN issues' = DOMAIN issues
        /\ \A k \in DOMAIN issues : issues'[k] = IF k = i THEN x ELSE issues[k]
    <2>1. issues \in [1..Len(issues) -> Issue] /\ Len(issues) \in Nat
      BY <1>1 DEF Ledger
    <2>2. issues' \in [1..Len(issues) -> Issue]
      BY <2>1
    <2>3. \A k \in 1..Len(issues) : issues'[k] = IF k = i THEN x ELSE issues[k]
      BY <2>1
    <2>4. issues' \in Seq(Issue)
      BY <2>1, <2>2
    <2>5. Len(issues') = Len(issues)
      BY <2>1, <2>2, <2>4
    <2> QED
      BY <2>1, <2>2, <2>3, <2>4, <2>5
  <1>3. Grows(issues, results, issues', results')
    BY <1>2 DEF Grows
  <1>4. Ledger(issues')
    BY <1>1, <1>2 DEF Ledger
  <1>5. Closings(issues', results')
    BY <1>1, <1>2 DEF Closings
  <1>6. ProcOK(r, issues', results') /\ Sound(file', issues', results')
    BY <1>1, <1>3, ProcGrows, SoundGrows
  <1>7. /\ Worked(results') /\ archive' \subseteq Record
        /\ refreshed' \in [Packets -> SUBSET Labels]
        /\ lost' \subseteq 0..MaxIssues /\ faults' \in 0..MaxFaults
    BY <1>1 DEF Frame
  <1> QED
    BY <1>3, <1>4, <1>5, <1>6, <1>7, ProcStep

LEMMA EditLabelsInv ==
  ASSUME WritersInv, NEW w \in Procs, NEW e \in proc[w].edits, EditLabels(w, e)
  PROVE  WritersInv'
  <1> DEFINE i == e.issue
             x == [issues[i] EXCEPT !.labels = (@ \cup e.add) \ e.remove]
             r == [proc[w] EXCEPT !.edits = @ \ {e}]
  <1>1. proc[w] \in Proc /\ e \in Edit
    BY ProcFacts DEF Proc
  <1>2. /\ proc[w].pc = "edit"
        /\ issues' = [issues EXCEPT ![i].labels = (@ \cup e.add) \ e.remove]
        /\ Become(w, r)
        /\ UNCHANGED <<file, archive, refreshed, results, lost, faults>>
    BY DEF EditLabels, At
  <1>3. r = [proc[w] EXCEPT !.pc = "edit", !.edits = proc[w].edits \ {e}]
    BY <1>1, <1>2 DEF Proc
  <1>4. ProcOK(r, issues, results)
    <2>1. proc[w].edits \ {e} \in SUBSET Edit
      BY <1>1 DEF Proc
    <2> QED
      BY <1>2, <1>3, <2>1, EditStage
  <1>5. issues \in Seq(Issue)
    BY DEF WritersInv, Ledger
  <1> HIDE DEF r
  <1>6. CASE i \in DOMAIN issues
    <2>1. issues[i] \in Issue
      BY <1>5, <1>6
    <2>2. x \in Issue /\ x.packet = issues[i].packet /\ x.closed = issues[i].closed
      BY <1>1, <2>1 DEF Issue, Edit
    <2>3. issues' = [issues EXCEPT ![i] = x]
      BY <1>2
    <2> HIDE DEF x, i
    <2> QED
      BY <1>2, <1>4, <2>2, <2>3, IssueStep
  <1>7. CASE i \notin DOMAIN issues
    <2>1. issues' = issues
      BY <1>2, <1>5, <1>7
    <2> QED
      BY <1>2, <1>4, <2>1, QuietStep, ProcFacts
  <1> QED
    BY <1>6, <1>7

LEMMA QuietEndInv ==
  ASSUME WritersInv, NEW w \in Procs, LabelsEnd(w) \/ CompleteEnd(w)
  PROVE  WritersInv'
  <1>1. ProcOK(Ended(w), issues, results)
    BY EndedOK, ProcFacts DEF LabelsEnd, CompleteEnd, At
  <1>2. /\ Become(w, Ended(w))
        /\ UNCHANGED <<file, archive, refreshed, issues, results, lost, faults>>
    BY DEF LabelsEnd, CompleteEnd, End
  <1> QED
    BY <1>1, <1>2, QuietStep, ProcFacts

-----------------------------------------------------------------------------
LEMMA CompleteLoadInv ==
  ASSUME WritersInv, NEW w \in Procs, CompleteLoad(w)
  PROVE  WritersInv'
  <1>1. PICK T \in Candidates(w) :
          Become(w, [Loaded(w, "close") EXCEPT !.todo = {p \in T : ~file[p].closed}])
    BY DEF CompleteLoad
  <1> DEFINE r == [Loaded(w, "close") EXCEPT !.todo = {p \in T : ~file[p].closed}]
  <1>2. T \subseteq Packets /\ \A p \in T : Ready(file[p])
    BY DEF Candidates
  <1>3. /\ Loaded(w, "close") \in Proc /\ Loaded(w, "close").pc = "close"
        /\ Loaded(w, "close").agenda = proc[w].agenda
        /\ Loaded(w, "close").packet = proc[w].packet
        /\ Loaded(w, "close").snap = file
        /\ Loaded(w, "close").result = proc[w].result
    BY LoadedFacts DEF Stages
  <1>4. r \in Proc
    BY <1>2, <1>3 DEF Proc
  <1>5. /\ r.pc = "close" /\ r.agenda = proc[w].agenda /\ r.packet = proc[w].packet
        /\ r.snap = file /\ r.result = proc[w].result
        /\ \A p \in r.todo : Ready(r.snap[p])
    BY <1>2, <1>3 DEF Proc
  <1> HIDE DEF r
  <1>6. ProcOK(r, issues, results)
    BY <1>4, <1>5, ProcFacts DEF ProcOK, StageFits, MemoryFits, CompleteLoad, Runs, At
  <1>7. Become(w, r)
    BY <1>1 DEF r
  <1> QED
    BY <1>6, <1>7, QuietStep, ProcFacts DEF CompleteLoad

(* Closing the issue of a record that was ready: the result that made it     *)
(* ready is there.                                                           *)
LEMMA CloseIssueInv ==
  ASSUME WritersInv, NEW w \in Procs, NEW p \in Packets, CloseIssue(w, p)
  PROVE  WritersInv'
  <1> DEFINE snap == proc[w].snap
             i == snap[p].issue
             x == [issues[i] EXCEPT !.closed = TRUE]
             r == [proc[w] EXCEPT !.todo = @ \ {p}]
  <1>1. /\ proc[w].pc = "close" /\ p \in proc[w].todo
        /\ issues' = [issues EXCEPT ![i].closed = TRUE]
        /\ Become(w, r)
        /\ UNCHANGED <<file, archive, refreshed, results, lost, faults>>
    BY DEF CloseIssue, At
  <1>2. ProcOK(r, issues, results)
    BY <1>1, LessToDo
  <1>3. Ready(snap[p]) /\ SoundRecord(p, snap[p], issues, results)
    BY <1>1, ProcFacts DEF ProcOK, MemoryFits, Sound
  <1>4. i \in DOMAIN issues /\ issues[i].packet = p
    BY <1>3 DEF Ready, SoundRecord
  <1>5. \E n \in DOMAIN results : results[n].packet = p /\ results[n].status = "done"
    BY <1>3 DEF Ready, WorkerDone, SoundRecord
  <1>6. issues \in Seq(Issue)
    BY DEF WritersInv, Ledger
  <1>7. issues[i] \in Issue
    BY <1>4, <1>6
  <1>8. x \in Issue /\ x.packet = issues[i].packet
    BY <1>7 DEF Issue
  <1>9. issues' = [issues EXCEPT ![i] = x]
    BY <1>1
  <1>10. Become(w, r) /\ UNCHANGED <<file, archive, refreshed, results, lost, faults>>
    BY <1>1
  <1> HIDE DEF r, x, i
  <1>11. \E n \in DOMAIN results : results[n].packet = x.packet /\ results[n].status = "done"
    BY <1>4, <1>5, <1>8
  <1> QED
    BY <1>2, <1>8, <1>9, <1>10, <1>11, IssueStep

LEMMA FailInv ==
  ASSUME WritersInv, NEW w \in Procs, Fail(w)
  PROVE  WritersInv'
  <1>1. lost' \subseteq 0..MaxIssues
    <2>1. \A p \in proc[w].todo : proc[w].snap[p].issue \in 0..MaxIssues
      BY ProcFacts DEF Proc, Record
    <2> QED
      BY <2>1 DEF Fail, WritersInv, Frame
  <1>2. faults' \in 0..MaxFaults
    BY ProcFacts, WritersAssumption DEF Fail
  <1>3. UNCHANGED <<file, archive, refreshed, issues, results>> /\ Become(w, Idle)
    BY DEF Fail
  <1>4. /\ Grows(issues, results, issues', results') /\ ProcOK(Idle, issues', results')
        /\ Sound(file', issues', results')
        /\ Ledger(issues') /\ Worked(results') /\ Closings(issues', results')
        /\ archive' \subseteq Record /\ refreshed' \in [Packets -> SUBSET Labels]
    BY <1>3, IdleOK, SameGrows DEF WritersInv, Frame
  <1> QED
    BY <1>1, <1>2, <1>3, <1>4, ProcStep

LEMMA StutterInv == ASSUME WritersInv, UNCHANGED vars PROVE WritersInv'
  <1>1. /\ file' = file /\ archive' = archive /\ refreshed' = refreshed
        /\ issues' = issues /\ results' = results /\ proc' = proc
        /\ lost' = lost /\ faults' = faults
    BY DEF vars
  <1>2. Frame'
    BY <1>1 DEF WritersInv, Frame
  <1>3. Sound(file', issues', results') /\ Closings(issues', results')
        /\ Ledger(issues') /\ Worked(results')
    BY <1>1 DEF WritersInv
  <1>4. \A w \in Procs : ProcOK(proc'[w], issues', results')
    BY <1>1 DEF WritersInv
  <1> QED
    BY <1>2, <1>3, <1>4 DEF WritersInv

(* Every step preserves the invariant.                                       *)
LEMMA NextInv == ASSUME WritersInv, Next PROVE WritersInv'
  <1>1. PICK w \in Procs : Start(w) \/ Step(w) \/ Disturb(w)
    BY DEF Next
  <1>2. CASE Start(w)
    BY <1>2, StartInv
  <1>3. CASE Step(w)
    <2>1. CASE DispatchLoad(w) \/ DispatchLink(w)
      BY <2>1, DispatchLoadInv, DispatchLinkInv
    <2>2. CASE RefreshLoad(w) \/ RefreshSave(w) \/ RefreshOut(w)
      BY <2>2, RefreshLoadInv, RefreshSaveInv, RefreshOutInv
    <2>3. CASE \E p \in Packets : ReadIssue(w, p) \/ CloseIssue(w, p)
      BY <2>3, ReadIssueInv, CloseIssueInv
    <2>4. CASE DiscordLoad(w) \/ DiscordSave(w)
      BY <2>4, DiscordInv
    <2>5. CASE CaptureRun(w) \/ CaptureLoad(w) \/ CaptureSave(w)
      BY <2>5, CaptureRunInv, CaptureLoadInv, CaptureSaveInv
    <2>6. CASE RecordLoad(w) \/ RecordSave(w)
      BY <2>6, RecordLoadInv, RecordSaveInv
    <2>7. CASE CleanupLoad(w) \/ CleanupSave(w) \/ CleanupArchive(w)
      BY <2>7, CleanupLoadInv, CleanupSaveInv, CleanupArchiveInv
    <2>8. CASE LabelPlan(w) \/ LabelsEnd(w) \/ \E e \in proc[w].edits : EditLabels(w, e)
      BY <2>8, LabelPlanInv, QuietEndInv, EditLabelsInv
    <2>9. CASE CompleteLoad(w) \/ CompleteEnd(w)
      BY <2>9, CompleteLoadInv, QuietEndInv
    <2> QED
      BY <1>3, <2>1, <2>2, <2>3, <2>4, <2>5, <2>6, <2>7, <2>8, <2>9 DEF Step
  <1>4. CASE Disturb(w)
    BY <1>4, FailInv, ReadFailsInv DEF Disturb
  <1> QED
    BY <1>1, <1>2, <1>3, <1>4

-----------------------------------------------------------------------------
(* The inductive invariant holds however the scripts overlap: records in the *)
(* file and in every snapshot name issues and results of their own packet,   *)
(* and what a completion is about to close was ready.                        *)
THEOREM WritersInvariant == OverlapSpec => []WritersInv
  <1>1. WritersInv /\ [Next]_vars => WritersInv'
    BY NextInv, StutterInv
  <1> QED
    BY <1>1, InitWritersInv, PTL DEF OverlapSpec

(* The state of the scripts is always well typed.                            *)
THEOREM WritersTypeCorrect == OverlapSpec => []WritersTypeOK
  <1>1. WritersInv => WritersTypeOK
    <2> SUFFICES ASSUME WritersInv PROVE WritersTypeOK
      OBVIOUS
    <2>1. \A w \in Procs : proc[w].result <= Len(results)
      <3> TAKE w \in Procs
      <3>1. proc[w].result # 0 => proc[w].result \in DOMAIN results
        BY ProcFacts DEF ProcOK, MemoryFits
      <3>2. results \in Seq(Result) /\ proc[w].result \in Nat
        BY ProcFacts DEF WritersInv, Worked, Proc
      <3> QED
        BY <3>1, <3>2
    <2>2. file \in [Packets -> Record]
      BY DEF WritersInv, Sound
    <2> QED
      BY <2>1, <2>2 DEF WritersInv, Frame, Ledger, Worked, WritersTypeOK
  <1> QED
    BY <1>1, WritersInvariant, PTL

(* An issue is closed only for a packet with a done result, whatever scripts *)
(* overlap and whichever snapshots overwrite the file (close_issue).         *)
THEOREM ClosuresAreEarned == OverlapSpec => []ClosedMeansDone
  <1>1. WritersInv => ClosedMeansDone
    BY DEF WritersInv, Closings, ClosedMeansDone
  <1> QED
    BY <1>1, WritersInvariant, PTL

(* No record holds another packet's session or evidence (update_state).      *)
THEOREM EvidenceStaysOwn == OverlapSpec => []EvidenceIsOwn
  <1>1. WritersInv => EvidenceIsOwn
    BY DEF WritersInv, Sound, SoundRecord, EvidenceIsOwn
  <1> QED
    BY <1>1, WritersInvariant, PTL


-----------------------------------------------------------------------------
(* One script at a time.  A script that has loaded the state file f then     *)
(* knows it, up to what a refresh has read of the issues, when it saves; a   *)
(* dispatch does not know its packet, a cleanup knows the archive ar, and a  *)
(* result recorded by hand is one.                                           *)
Agrees(f, g) ==
    \A p \in Packets :
        /\ f[p].issue = g[p].issue /\ f[p].thread = g[p].thread
        /\ f[p].session = g[p].session /\ f[p].status = g[p].status
        /\ f[p].evidence = g[p].evidence

AtWork(r, f, ar, rs) ==
    /\ r.pc \in {"link", "save", "close"} => r.snap = f
    /\ r.pc = "read" => Agrees(r.snap, f)
    /\ r.pc = "link" => f[r.packet] = NoRecord
    /\ r.pc = "save" /\ Head(r.agenda) = "cleanup" => r.old = ar
    /\ r.pc = "archive" => r.old = ar
    /\ r.pc = "save" /\ Head(r.agenda) = "record" => rs[r.result].manual

(* A result has its own evidence, or is an operator's.                       *)
OwnEvidence(f, rs) ==
    \A p \in Packets :
        f[p].session # 0 => f[p].evidence = f[p].session \/ rs[f[p].session].manual

OneAtWork == \A w, v \in Procs : ~At(w, "rest") /\ ~At(v, "rest") => w = v

SerialWritersInv ==
    /\ WritersInv
    /\ OneAtWork
    /\ \A w \in Procs : AtWork(proc[w], file, archive, results)
    /\ OwnEvidence(file, results)
    /\ KeptOrArchived

OthersRest(w) == \A v \in Procs \ {w} : At(v, "rest")

(* Stages in which a process relies on nothing it has loaded.                *)
Calm == {"rest", "next", "out", "load", "edit"}

LEMMA CalmAtWork ==
  ASSUME NEW r, r.pc \in Calm, NEW f, NEW ar, NEW rs
  PROVE  AtWork(r, f, ar, rs)
  BY DEF Calm, AtWork

LEMMA EndedCalm == ASSUME NEW w \in Procs PROVE Ended(w).pc \in Calm
  BY DEF Ended, Idle, Calm

(* Whoever makes a step is the one at work.                                  *)
LEMMA ActingAlone ==
  ASSUME SerialWritersInv, NEW w \in Procs, ~At(w, "rest")
  PROVE  OthersRest(w)
  BY DEF SerialWritersInv, OneAtWork, OthersRest

(* It is enough to look at the process that makes the step.                  *)
LEMMA SerialStep ==
  ASSUME SerialWritersInv, WritersInv', NEW w \in Procs, NEW r, Become(w, r), OthersRest(w),
         AtWork(r, file', archive', results'), OwnEvidence(file', results'), KeptOrArchived'
  PROVE  SerialWritersInv'
  <1>1. proc \in [Procs -> Proc]
    BY DEF SerialWritersInv, WritersInv, Frame
  <1>2. \A v \in Procs : proc'[v] = IF v = w THEN r ELSE proc[v]
    BY <1>1 DEF Become
  <1>3. OneAtWork'
    BY <1>2 DEF OneAtWork, OthersRest, At
  <1>4. ASSUME NEW v \in Procs PROVE AtWork(proc'[v], file', archive', results')
    <2>1. CASE v # w
      <3>1. proc'[v].pc \in Calm
        BY <1>2, <2>1 DEF OthersRest, At, Calm
      <3> QED
        BY <3>1, CalmAtWork
    <2> QED
      BY <1>2, <2>1
  <1>5. (\A v \in Procs : AtWork(proc[v], file, archive, results))'
    BY <1>4 DEF AtWork, Agrees
  <1>6. OwnEvidence(file, results)'
    BY DEF OwnEvidence
  <1> QED
    BY <1>3, <1>5, <1>6 DEF SerialWritersInv

(* No issue is forgotten by a step that keeps the links of the records.      *)
SameLedger ==
    /\ DOMAIN issues' = DOMAIN issues
    /\ \A i \in DOMAIN issues : issues'[i].packet = issues[i].packet

SameLinks == \A p \in Packets : file'[p].issue = file[p].issue

LEMMA KeptStep ==
  ASSUME SerialWritersInv, NEW w \in Procs, OthersRest(w), ~At(w, "archive"),
         SameLedger, SameLinks, UNCHANGED <<archive, lost>>
  PROVE  KeptOrArchived'
  <1> SUFFICES ASSUME NEW i \in DOMAIN issues
               PROVE  \/ file'[issues'[i].packet].issue = i
                      \/ \E r \in archive' : r.issue = i
                      \/ i \in lost'
    BY DEF KeptOrArchived, SameLedger
  <1>1. \/ file[issues[i].packet].issue = i
        \/ \E r \in archive : r.issue = i
        \/ \E v \in Procs : At(v, "archive")
        \/ i \in lost
    BY DEF SerialWritersInv, KeptOrArchived
  <1>2. issues[i].packet \in Packets
    <2>1. issues \in Seq(Issue)
      BY DEF SerialWritersInv, WritersInv, Ledger
    <2>2. issues[i] \in Issue
      BY <2>1
    <2> QED
      BY <2>2 DEF Issue
  <1> QED
    BY <1>1, <1>2 DEF OthersRest, At, SameLedger, SameLinks

(* New results do not touch what the records say of older ones.              *)
LEMMA EvidenceGrows ==
  ASSUME SerialWritersInv, NEW rs, \A n \in DOMAIN results : rs[n] = results[n]
  PROVE  OwnEvidence(file, rs)
  BY DEF SerialWritersInv, OwnEvidence, WritersInv, Sound, SoundRecord

LEMMA QuietSerial ==
  ASSUME SerialWritersInv, WritersInv', NEW w \in Procs, NEW r, Become(w, r), OthersRest(w),
         ~At(w, "archive"), SameLedger, UNCHANGED <<file, archive, lost>>,
         \A n \in DOMAIN results : results'[n] = results[n],
         AtWork(r, file, archive, results')
  PROVE  SerialWritersInv'
  <1>1. KeptOrArchived'
    BY KeptStep DEF SameLinks
  <1>2. OwnEvidence(file', results')
    BY EvidenceGrows
  <1> QED
    BY <1>1, <1>2, SerialStep

(* A step that writes the file and keeps its links.                          *)
LEMMA SaveSerial ==
  ASSUME SerialWritersInv, WritersInv', NEW w \in Procs, NEW r, Become(w, r), OthersRest(w),
         ~At(w, "archive"), UNCHANGED <<archive, issues, results, lost>>, SameLinks,
         r.pc \in Calm, OwnEvidence(file', results)
  PROVE  SerialWritersInv'
  <1>1. KeptOrArchived'
    BY KeptStep DEF SameLedger
  <1> QED
    BY <1>1, CalmAtWork, SerialStep

LEMMA SerialFacts ==
  ASSUME SerialWritersInv, NEW w \in Procs
  PROVE  /\ WritersInv
         /\ proc[w] \in Proc
         /\ ProcOK(proc[w], issues, results)
         /\ Sound(file, issues, results)
         /\ AtWork(proc[w], file, archive, results)
         /\ OwnEvidence(file, results)
  BY ProcFacts DEF SerialWritersInv

-----------------------------------------------------------------------------
(* The steps after which the process relies on nothing it has loaded.        *)
LEMMA SerialStart ==
  ASSUME SerialWritersInv, WritersInv', NEW w \in Procs, NoneRunning, Start(w)
  PROVE  SerialWritersInv'
  <1>1. PICK r : r.pc = "next" /\ Become(w, r)
    <2>1. ASSUME NEW agenda, NEW p, Begin(w, agenda, p)
          PROVE  \E r : r.pc = "next" /\ Become(w, r)
      <3> DEFINE r == [Idle EXCEPT !.pc = "next", !.agenda = agenda, !.packet = p]
      <3>1. r.pc = "next"
        BY DEF Idle
      <3>2. Become(w, r)
        BY <2>1 DEF Begin
      <3> QED
        BY <3>1, <3>2
    <2> QED
      BY <2>1 DEF Start, StartWrapper, StartOperator
  <1>2. UNCHANGED <<file, archive, issues, results, lost>>
    BY DEF Start, StartWrapper, StartOperator, Begin
  <1>3. OthersRest(w) /\ ~At(w, "archive")
    BY DEF NoneRunning, OthersRest, At
  <1>4. AtWork(r, file, archive, results')
    BY <1>1, CalmAtWork DEF Calm
  <1> QED
    BY <1>1, <1>2, <1>3, <1>4, QuietSerial DEF SameLedger

LEMMA SerialCalm ==
  ASSUME SerialWritersInv, WritersInv', NEW w \in Procs,
         \/ RefreshOut(w) \/ LabelPlan(w) \/ LabelsEnd(w) \/ CompleteEnd(w)
         \/ Fail(w) /\ ~At(w, "archive")
  PROVE  SerialWritersInv'
  <1>1. PICK r : r.pc \in Calm /\ Become(w, r)
    <2>1. CASE RefreshOut(w) \/ LabelsEnd(w) \/ CompleteEnd(w)
      BY <2>1, EndedCalm DEF RefreshOut, LabelsEnd, CompleteEnd, End
    <2>2. CASE LabelPlan(w)
      <3> DEFINE r == [proc[w] EXCEPT !.pc = "edit", !.edits = PlannedEdits]
      <3>1. r.pc = "edit"
        BY SerialFacts DEF Proc
      <3>2. Become(w, r)
        BY <2>2 DEF LabelPlan
      <3> HIDE DEF r
      <3> QED
        BY <3>1, <3>2 DEF Calm
    <2>3. CASE Fail(w)
      BY <2>3 DEF Fail, Idle, Calm
    <2> QED
      BY <2>1, <2>2, <2>3
  <1>2. UNCHANGED <<file, archive, issues, results, lost>> /\ ~At(w, "archive") /\ ~At(w, "rest")
    BY DEF RefreshOut, LabelPlan, LabelsEnd, CompleteEnd, Fail, Runs, At
  <1>3. AtWork(r, file, archive, results')
    BY <1>1, CalmAtWork
  <1> QED
    BY <1>1, <1>2, <1>3, ActingAlone, QuietSerial DEF SameLedger

(* An edit of labels, and a closing: the ledger keeps its packets.           *)
LEMMA SerialIssueStep ==
  ASSUME SerialWritersInv, WritersInv', NEW w \in Procs,
         (\E e \in proc[w].edits : EditLabels(w, e)) \/ (\E p \in Packets : CloseIssue(w, p))
  PROVE  SerialWritersInv'
  <1>0. /\ issues \in Seq(Issue) /\ proc[w] \in Proc
        /\ AtWork(proc[w], file, archive, results)
    BY SerialFacts DEF WritersInv, Ledger
  <1>1. ASSUME NEW i, NEW S, \/ issues' = [issues EXCEPT ![i].labels = S]
                             \/ issues' = [issues EXCEPT ![i].closed = S]
        PROVE  SameLedger
    <2>1. \A k \in DOMAIN issues : issues[k] \in Issue
      BY <1>0
    <2> QED
      BY <1>1, <2>1 DEF SameLedger, Issue
  <1>2. ASSUME NEW e \in proc[w].edits, EditLabels(w, e) PROVE SerialWritersInv'
    <2> DEFINE r == [proc[w] EXCEPT !.edits = @ \ {e}]
    <2>1. r.pc = "edit"
      BY <1>0, <1>2 DEF EditLabels, At, Proc
    <2>2. Become(w, r) /\ UNCHANGED <<file, archive, results, lost>> /\ At(w, "edit")
      BY <1>2 DEF EditLabels
    <2>3. SameLedger
      BY <1>1, <1>2 DEF EditLabels
    <2> HIDE DEF r
    <2>4. AtWork(r, file, archive, results')
      BY <2>1, CalmAtWork DEF Calm
    <2> QED
      BY <2>2, <2>3, <2>4, ActingAlone, QuietSerial DEF At
  <1>3. ASSUME NEW p \in Packets, CloseIssue(w, p) PROVE SerialWritersInv'
    <2> DEFINE r == [proc[w] EXCEPT !.todo = @ \ {p}]
    <2>1. r.pc = "close" /\ r.snap = proc[w].snap
      BY <1>0, <1>3 DEF CloseIssue, At, Proc
    <2>2. Become(w, r) /\ UNCHANGED <<file, archive, results, lost>> /\ At(w, "close")
      BY <1>3 DEF CloseIssue
    <2>3. SameLedger
      BY <1>1, <1>3 DEF CloseIssue
    <2> HIDE DEF r
    <2>4. AtWork(r, file, archive, results')
      BY <1>0, <2>1, <2>2 DEF AtWork, At
    <2> QED
      BY <2>2, <2>3, <2>4, ActingAlone, QuietSerial DEF At
  <1> QED
    BY <1>2, <1>3

-----------------------------------------------------------------------------
(* The steps that load the file.                                             *)
LEMMA SerialLoad ==
  ASSUME SerialWritersInv, WritersInv', NEW w \in Procs,
         \/ DispatchLoad(w) \/ RefreshLoad(w) \/ DiscordLoad(w) \/ CaptureLoad(w)
         \/ CleanupLoad(w) \/ CompleteLoad(w)
  PROVE  SerialWritersInv'
  <1>0. /\ WritersInv /\ proc[w].pc # "rest" /\ ~At(w, "archive") /\ OthersRest(w)
        /\ UNCHANGED <<file, archive, issues, results, lost>>
    BY SerialFacts, ActingAlone DEF DispatchLoad, RefreshLoad, DiscordLoad, CaptureLoad, CleanupLoad,
                                    CompleteLoad, Runs, At
  <1>1. SUFFICES \E r : Become(w, r) /\ AtWork(r, file, archive, results)
    BY <1>0, QuietSerial DEF SameLedger
  <1>2. CASE DispatchLoad(w)
    <2>1. CASE proc[w].packet \in Present
      <3>1. Become(w, Idle) /\ Idle.pc \in Calm
        BY <1>2, <2>1 DEF DispatchLoad, Idle, Calm
      <3> QED
        BY <3>1, CalmAtWork
    <2>2. CASE proc[w].packet \notin Present
      <3> DEFINE r == Loaded(w, "link")
      <3>1. r.pc = "link" /\ r.snap = file /\ r.packet = proc[w].packet
        BY <1>0, LoadedFacts DEF Stages
      <3>2. Become(w, r)
        BY <1>2, <2>2 DEF DispatchLoad
      <3>3. file[proc[w].packet] = NoRecord
        BY <1>0, <1>2, <2>2, HeadPacket DEF DispatchLoad, Runs, Present, PacketScripts
      <3> HIDE DEF r
      <3> QED
        BY <3>1, <3>2, <3>3 DEF AtWork
    <2> QED
      BY <2>1, <2>2
  <1>3. CASE RefreshLoad(w)
    <2>1. PICK T \in Inspected(w) :
            Become(w, [Loaded(w, "read") EXCEPT !.todo = {p \in T : file[p].issue # 0}])
      BY <1>3 DEF RefreshLoad
    <2> DEFINE r == [Loaded(w, "read") EXCEPT !.todo = {p \in T : file[p].issue # 0}]
    <2>2. r.pc = "read" /\ r.snap = file
      BY <1>0, LoadedFacts DEF Stages, Proc
    <2>3. Become(w, r)
      BY <2>1
    <2> HIDE DEF r
    <2> QED
      BY <2>2, <2>3 DEF AtWork, Agrees
  <1>4. CASE DiscordLoad(w) \/ CaptureLoad(w)
    <2> DEFINE r == Loaded(w, "save")
    <2>1. /\ r.pc = "save" /\ r.snap = file /\ r.agenda = proc[w].agenda
      BY <1>0, LoadedFacts DEF Stages
    <2>2. Head(proc[w].agenda) \in {"discord", "capture"}
      BY <1>4, SerialFacts DEF DiscordLoad, CaptureLoad, Runs, At, ProcOK, StageFits
    <2>3. Become(w, r)
      BY <1>4 DEF DiscordLoad, CaptureLoad
    <2> HIDE DEF r
    <2> QED
      BY <2>1, <2>2, <2>3 DEF AtWork
  <1>5. CASE CleanupLoad(w)
    <2>1. PICK T \in Selections :
            Become(w, IF T = {} THEN Ended(w)
                      ELSE [Loaded(w, "save") EXCEPT !.todo = T, !.old = archive])
      BY <1>5 DEF CleanupLoad
    <2>2. CASE T = {}
      BY <2>1, <2>2, EndedCalm, CalmAtWork
    <2>3. CASE T # {}
      <3> DEFINE r == [Loaded(w, "save") EXCEPT !.todo = T, !.old = archive]
      <3>1. r.pc = "save" /\ r.snap = file /\ r.agenda = proc[w].agenda /\ r.old = archive
        BY <1>0, LoadedFacts DEF Stages, Proc
      <3>2. Head(proc[w].agenda) = "cleanup"
        BY <1>5 DEF CleanupLoad, Runs
      <3>3. Become(w, r)
        BY <2>1, <2>3
      <3> HIDE DEF r
      <3> QED
        BY <3>1, <3>2, <3>3 DEF AtWork
    <2> QED
      BY <2>2, <2>3
  <1>6. CASE CompleteLoad(w)
    <2>1. PICK T \in Candidates(w) :
            Become(w, [Loaded(w, "close") EXCEPT !.todo = {p \in T : ~file[p].closed}])
      BY <1>6 DEF CompleteLoad
    <2> DEFINE r == [Loaded(w, "close") EXCEPT !.todo = {p \in T : ~file[p].closed}]
    <2>2. r.pc = "close" /\ r.snap = file
      BY <1>0, LoadedFacts DEF Stages, Proc
    <2>3. Become(w, r)
      BY <2>1
    <2> HIDE DEF r
    <2> QED
      BY <2>2, <2>3 DEF AtWork
  <1> QED
    BY <1>2, <1>3, <1>4, <1>5, <1>6

(* A worker or an operator produces a result.                                *)
LEMMA SerialProduce ==
  ASSUME SerialWritersInv, WritersInv', NEW w \in Procs, CaptureRun(w) \/ RecordLoad(w)
  PROVE  SerialWritersInv'
  <1>0. /\ WritersInv /\ proc[w] \in Proc /\ ~At(w, "archive") /\ OthersRest(w)
        /\ UNCHANGED <<file, archive, issues, lost>>
    BY SerialFacts, ActingAlone DEF CaptureRun, RecordLoad, Runs, At
  <1>1. results \in Seq(Result)
    BY <1>0 DEF WritersInv, Worked
  <1>2. PICK x : /\ results' = Append(results, x)
                 /\ RecordLoad(w) => x.manual
    <2>1. ~(CaptureRun(w) /\ RecordLoad(w))
      BY DEF CaptureRun, RecordLoad, Runs
    <2>2. CASE CaptureRun(w)
      <3>1. \E x : results' = Append(results, x)
        BY <2>2 DEF CaptureRun
      <3> QED
        BY <2>1, <2>2, <3>1
    <2>3. CASE RecordLoad(w)
      <3>1. PICK status \in Statuses :
              results' = Append(results, [packet |-> proc[w].packet, status |-> status,
                                          manual |-> TRUE])
        BY <2>3 DEF RecordLoad
      <3> DEFINE x == [packet |-> proc[w].packet, status |-> status, manual |-> TRUE]
      <3>2. x.manual /\ results' = Append(results, x)
        BY <3>1
      <3> HIDE DEF x
      <3> QED
        BY <3>2
    <2> QED
      BY <2>2, <2>3
  <1>3. /\ \A n \in DOMAIN results : results'[n] = results[n]
        /\ results'[Len(results) + 1] = x
    BY <1>1, <1>2
  <1>4. SUFFICES \E r : Become(w, r) /\ AtWork(r, file, archive, results')
    BY <1>0, <1>3, QuietSerial DEF SameLedger
  <1>5. CASE CaptureRun(w)
    <2> DEFINE r == [proc[w] EXCEPT !.pc = "load", !.result = Len(results) + 1]
    <2>1. r.pc = "load"
      BY <1>0 DEF Proc
    <2>2. Become(w, r)
      BY <1>5 DEF CaptureRun
    <2> HIDE DEF r
    <2> QED
      BY <2>1, <2>2, CalmAtWork DEF Calm
  <1>6. CASE RecordLoad(w)
    <2> DEFINE r == [Loaded(w, "save") EXCEPT !.result = Len(results) + 1]
    <2>1. /\ r.pc = "save" /\ r.snap = file /\ r.agenda = proc[w].agenda
          /\ r.result = Len(results) + 1
      BY <1>0, LoadedFacts DEF Stages, Proc
    <2>2. Head(proc[w].agenda) = "record"
      BY <1>6 DEF RecordLoad, Runs
    <2>3. Become(w, r)
      BY <1>6 DEF RecordLoad
    <2> HIDE DEF r
    <2> QED
      BY <1>2, <1>3, <1>6, <2>1, <2>2, <2>3 DEF AtWork
  <1> QED
    BY <1>5, <1>6

-----------------------------------------------------------------------------
(* A refresh reads the issues and saves what it has read.                    *)
LEMMA SerialRead ==
  ASSUME SerialWritersInv, WritersInv', NEW w \in Procs, NEW p \in Packets,
         ReadIssue(w, p) \/ ReadFails(w, p)
  PROVE  SerialWritersInv'
  <1>0. /\ proc[w] \in Proc /\ proc[w].pc = "read" /\ OthersRest(w) /\ ~At(w, "archive")
        /\ UNCHANGED <<file, archive, issues, results, lost>>
        /\ Agrees(proc[w].snap, file)
    BY SerialFacts, ActingAlone DEF ReadIssue, ReadFails, At, AtWork
  <1>1. SUFFICES \E r : Become(w, r) /\ r.pc = "read" /\ Agrees(r.snap, file)
    BY <1>0, QuietSerial DEF SameLedger, AtWork
  <1>2. CASE ReadFails(w, p)
    <2> DEFINE r == [proc[w] EXCEPT !.todo = @ \ {p}]
    <2>1. r.pc = "read" /\ r.snap = proc[w].snap
      BY <1>0 DEF Proc
    <2>2. Become(w, r)
      BY <1>2 DEF ReadFails
    <2> HIDE DEF r
    <2> QED
      BY <1>0, <2>1, <2>2
  <1>3. CASE ReadIssue(w, p)
    <2> DEFINE snap == [proc[w].snap EXCEPT ![p] = Observed(proc[w].snap[p])]
               r == [proc[w] EXCEPT !.todo = @ \ {p}, !.read = @ \cup {p}, !.snap = snap]
    <2>1. proc[w].snap \in [Packets -> Record]
      BY <1>0 DEF Proc
    <2>2. Agrees(snap, proc[w].snap)
      <3>1. /\ Observed(proc[w].snap[p]).issue = proc[w].snap[p].issue
            /\ Observed(proc[w].snap[p]).thread = proc[w].snap[p].thread
            /\ Observed(proc[w].snap[p]).session = proc[w].snap[p].session
            /\ Observed(proc[w].snap[p]).status = proc[w].snap[p].status
            /\ Observed(proc[w].snap[p]).evidence = proc[w].snap[p].evidence
        BY <2>1 DEF Observed, Record
      <3>2. \A q \in Packets : snap[q] = IF q = p THEN Observed(proc[w].snap[p])
                                         ELSE proc[w].snap[q]
        BY <2>1
      <3> HIDE DEF snap
      <3> QED
        BY <3>1, <3>2 DEF Agrees
    <2>3. Become(w, r)
      BY <1>3 DEF ReadIssue
    <2> HIDE DEF snap
    <2>4. r.pc = "read" /\ r.snap = snap
      BY <1>0 DEF Proc
    <2> HIDE DEF r
    <2> QED
      BY <1>0, <2>2, <2>3, <2>4 DEF Agrees
  <1> QED
    BY <1>2, <1>3

LEMMA SerialPlainSave ==
  ASSUME SerialWritersInv, WritersInv', NEW w \in Procs, RefreshSave(w) \/ DiscordSave(w)
  PROVE  SerialWritersInv'
  <1>1. PICK r : Become(w, r) /\ r.pc \in Calm
    <2> DEFINE r == [proc[w] EXCEPT !.pc = "out"]
    <2>1. r.pc = "out"
      BY SerialFacts DEF Proc
    <2>2. Become(w, Ended(w)) \/ Become(w, r)
      BY DEF RefreshSave, DiscordSave, End
    <2> HIDE DEF r
    <2> QED
      BY <2>1, <2>2, EndedCalm DEF Calm
  <1>2. file' = proc[w].snap /\ Agrees(proc[w].snap, file)
    BY SerialFacts DEF RefreshSave, DiscordSave, At, AtWork, Agrees
  <1>3. /\ UNCHANGED <<archive, issues, results, lost>> /\ ~At(w, "archive") /\ ~At(w, "rest")
    BY DEF RefreshSave, DiscordSave, At
  <1>4. SameLinks /\ OwnEvidence(file', results)
    BY <1>2, SerialFacts DEF SameLinks, OwnEvidence, Agrees
  <1> QED
    BY <1>1, <1>3, <1>4, ActingAlone, SaveSerial

(* A result is recorded, with its own evidence unless an operator states it. *)
LEMMA SerialResultSave ==
  ASSUME SerialWritersInv, WritersInv', NEW w \in Procs, CaptureSave(w) \/ RecordSave(w)
  PROVE  SerialWritersInv'
  <1> DEFINE p == proc[w].packet
             n == proc[w].result
  <1>1. PICK e : /\ file' = [proc[w].snap EXCEPT
                              ![p] = [@ EXCEPT !.session = n, !.status = results[n].status,
                                               !.evidence = e]]
                 /\ CaptureSave(w) => e = n
    <2>1. ~(CaptureSave(w) /\ RecordSave(w))
      BY DEF CaptureSave, RecordSave
    <2> QED
      BY <2>1 DEF CaptureSave, RecordSave, CaptureEvidence
  <1>2. PICK r : Become(w, r) /\ r.pc \in Calm
    BY EndedCalm DEF CaptureSave, RecordSave, End, Idle, Calm
  <1>3. /\ UNCHANGED <<archive, issues, results, lost>> /\ ~At(w, "archive") /\ ~At(w, "rest")
        /\ proc[w].pc = "save"
    BY DEF CaptureSave, RecordSave, At
  <1>4. proc[w].snap = file /\ file \in [Packets -> Record]
    BY <1>3, SerialFacts DEF AtWork, Sound
  <1>5. RecordSave(w) => results[n].manual
    BY <1>3, SerialFacts DEF RecordSave, AtWork
  <1> DEFINE q == [file[p] EXCEPT !.session = n, !.status = results[n].status, !.evidence = e]
  <1>6. p \in Packets
    BY <1>3, SerialFacts, HeadPacket DEF CaptureSave, RecordSave, PacketScripts
  <1>7. q.issue = file[p].issue /\ q.session = n /\ q.evidence = e
    BY <1>4, <1>6 DEF Record
  <1>8. file' = [file EXCEPT ![p] = q]
    BY <1>1, <1>4
  <1> HIDE DEF q
  <1>9. \A x \in Packets : file'[x] = IF x = p THEN q ELSE file[x]
    BY <1>4, <1>8
  <1> HIDE DEF p, n
  <1>10. SameLinks
    BY <1>7, <1>9 DEF SameLinks
  <1>11. e = n \/ results[n].manual
    BY <1>1, <1>5
  <1>12. OwnEvidence(file', results)
    <2>1. OwnEvidence(file, results)
      BY SerialFacts
    <2> QED
      BY <1>7, <1>9, <1>11, <2>1 DEF OwnEvidence
  <1> QED
    BY <1>2, <1>3, <1>10, <1>12, ActingAlone, SaveSerial

-----------------------------------------------------------------------------
(* A cleanup takes records out of the state and, while it alone works, puts  *)
(* all of them into the archive; killed between the two it loses them.       *)
LEMMA SerialCleanup ==
  ASSUME SerialWritersInv, WritersInv', NEW w \in Procs, CleanupSave(w)
  PROVE  SerialWritersInv'
  <1> DEFINE r == [proc[w] EXCEPT !.pc = "archive"]
  <1>1. /\ proc[w].pc = "save" /\ Head(proc[w].agenda) = "cleanup" /\ Become(w, r)
        /\ file' = [p \in Packets |-> IF p \in proc[w].todo THEN NoRecord ELSE proc[w].snap[p]]
        /\ UNCHANGED <<archive, issues, results, lost>>
    BY DEF CleanupSave, At
  <1>2. /\ proc[w] \in Proc /\ proc \in [Procs -> Proc] /\ proc[w].snap = file
        /\ proc[w].old = archive /\ OwnEvidence(file, results) /\ issues \in Seq(Issue)
    BY <1>1, SerialFacts DEF AtWork, WritersInv, Frame, Ledger
  <1>3. /\ r.pc = "archive" /\ r.todo = proc[w].todo /\ r.snap = file /\ r.old = archive
    BY <1>2 DEF Proc
  <1> HIDE DEF r
  <1>4. AtWork(r, file', archive', results')
    BY <1>1, <1>3 DEF AtWork
  <1>5. OwnEvidence(file', results')
    BY <1>1, <1>2 DEF OwnEvidence, NoRecord
  <1>6. proc'[w] = r
    BY <1>1, <1>2 DEF Become
  <1>7. OthersRest(w)
    BY <1>1, ActingAlone DEF At
  <1>8. KeptOrArchived'
    <2> SUFFICES ASSUME NEW i \in DOMAIN issues
                 PROVE  \/ file'[issues[i].packet].issue = i
                        \/ \E x \in archive : x.issue = i
                        \/ proc'[w].pc = "archive" /\ \E p \in proc'[w].todo : proc'[w].snap[p].issue = i
                        \/ i \in lost
      BY <1>1 DEF KeptOrArchived, At
    <2>1. \/ file[issues[i].packet].issue = i
          \/ \E x \in archive : x.issue = i
          \/ \E v \in Procs : At(v, "archive")
          \/ i \in lost
      BY DEF SerialWritersInv, KeptOrArchived
    <2>2. ~\E v \in Procs : At(v, "archive")
      BY <1>1, <1>7 DEF OthersRest, At
    <2>3. issues[i].packet \in Packets
      <3>1. issues[i] \in Issue
        BY <1>2
      <3> QED
        BY <3>1 DEF Issue
    <2>4. CASE file[issues[i].packet].issue = i
      BY <1>1, <1>2, <1>3, <1>6, <2>3, <2>4
    <2> QED
      BY <2>1, <2>2, <2>4
  <1> QED
    BY <1>1, <1>4, <1>5, <1>7, <1>8, SerialStep

LEMMA SerialArchive ==
  ASSUME SerialWritersInv, WritersInv', NEW w \in Procs,
         CleanupArchive(w) \/ (Fail(w) /\ At(w, "archive"))
  PROVE  SerialWritersInv'
  <1>1. /\ proc[w].pc = "archive" /\ UNCHANGED <<file, issues, results>>
        /\ archive \subseteq archive' /\ lost \subseteq lost'
    BY SerialFacts DEF CleanupArchive, Archived, Fail, At, AtWork
  <1>2. \A p \in proc[w].todo :
          (\E x \in archive' : x.issue = proc[w].snap[p].issue) \/ proc[w].snap[p].issue \in lost'
    BY DEF CleanupArchive, Archived, Fail
  <1>3. PICK r : Become(w, r) /\ r.pc \in Calm
    BY EndedCalm DEF CleanupArchive, Fail, End, Idle, Calm
  <1>4. OthersRest(w)
    BY <1>1, ActingAlone DEF At
  <1>5. KeptOrArchived'
    <2> SUFFICES ASSUME NEW i \in DOMAIN issues
                 PROVE  \/ file[issues[i].packet].issue = i
                        \/ \E x \in archive' : x.issue = i
                        \/ i \in lost'
      BY <1>1 DEF KeptOrArchived
    <2>1. \/ file[issues[i].packet].issue = i
          \/ \E x \in archive : x.issue = i
          \/ \E v \in Procs : At(v, "archive") /\ \E p \in proc[v].todo : proc[v].snap[p].issue = i
          \/ i \in lost
      BY DEF SerialWritersInv, KeptOrArchived
    <2>2. ASSUME NEW v \in Procs, At(v, "archive") PROVE v = w
      BY <1>4, <2>2 DEF OthersRest, At
    <2> QED
      BY <1>1, <1>2, <2>1, <2>2
  <1>6. OwnEvidence(file', results')
    BY <1>1, SerialFacts
  <1> QED
    BY <1>3, <1>4, <1>5, <1>6, CalmAtWork, SerialStep

-----------------------------------------------------------------------------
(* A dispatch links its packet, which no record knew, to an issue of its     *)
(* own; the issue is new, or was known elsewhere.                            *)
LEMMA SerialLink ==
  ASSUME SerialWritersInv, WritersInv', NEW w \in Procs, DispatchLink(w)
  PROVE  SerialWritersInv'
  <1> DEFINE p == proc[w].packet
  <1>1. /\ proc[w].pc = "link" /\ UNCHANGED <<archive, results, lost>> /\ OthersRest(w)
    BY ActingAlone DEF DispatchLink, At
  <1>2. /\ proc[w].snap = file /\ file[p] = NoRecord /\ issues \in Seq(Issue)
        /\ file \in [Packets -> Record] /\ OwnEvidence(file, results)
    BY <1>1, SerialFacts DEF AtWork, Sound, WritersInv, Ledger
  <1>3. p \in Packets
    BY <1>1, SerialFacts, HeadPacket DEF ProcOK, StageFits, PacketScripts
  <1>4. PICK i \in LinkedIssue(p), thread \in BOOLEAN :
          /\ issues' = IF i > Len(issues) THEN Append(issues, NewIssue(p)) ELSE issues
          /\ file' = [file EXCEPT ![p] = [@ EXCEPT !.issue = i, !.thread = thread]]
    BY <1>2 DEF DispatchLink
  <1>5. PICK r : Become(w, r) /\ r.pc \in Calm
    BY EndedCalm DEF DispatchLink, End, Idle, Calm
  <1> DEFINE q == [file[p] EXCEPT !.issue = i, !.thread = thread]
  <1>6. q.issue = i /\ q.session = 0
    <2>1. NoRecord.session = 0
      BY DEF NoRecord
    <2>2. file[p] \in Record /\ file[p].session = 0
      BY <1>2, <1>3, <2>1
    <2> QED
      BY <2>2 DEF Record
  <1> HIDE DEF q
  <1>7. \A x \in Packets : file'[x] = IF x = p THEN q ELSE file[x]
    BY <1>2, <1>4 DEF q
  <1>8. OwnEvidence(file', results')
    BY <1>1, <1>2, <1>6, <1>7 DEF OwnEvidence
  <1>9. ASSUME NEW k \in DOMAIN issues'
        PROVE  \/ k \in DOMAIN issues /\ issues'[k] = issues[k]
               \/ k = i /\ issues'[k].packet = p
    <2>1. CASE i > Len(issues)
      <3>1. i = Len(issues) + 1
        <4>1. CASE Hits(p) = {}
          BY <4>1 DEF LinkedIssue
        <4>2. CASE Hits(p) # {}
          BY <1>2, <2>1, <4>2 DEF LinkedIssue, Hits
        <4> QED
          BY <4>1, <4>2
      <3>2. issues' = Append(issues, NewIssue(p))
        BY <1>4, <2>1
      <3>3. NewIssue(p).packet = p
        BY DEF NewIssue
      <3>4. /\ DOMAIN issues' = 1..(Len(issues) + 1) /\ DOMAIN issues = 1..Len(issues)
            /\ Len(issues) \in Nat /\ issues'[Len(issues) + 1] = NewIssue(p)
            /\ \A n \in 1..Len(issues) : issues'[n] = issues[n]
        BY <1>2, <3>2
      <3>5. k \in 1..Len(issues) \/ k = Len(issues) + 1
        BY <3>4
      <3> QED
        BY <3>1, <3>3, <3>4, <3>5
    <2> QED
      BY <1>4, <2>1
  <1>10. KeptOrArchived'
    <2> SUFFICES ASSUME NEW k \in DOMAIN issues'
                 PROVE  \/ file'[issues'[k].packet].issue = k
                        \/ \E x \in archive : x.issue = k
                        \/ k \in lost
      BY <1>1 DEF KeptOrArchived
    <2>1. CASE k = i /\ issues'[k].packet = p
      BY <1>3, <1>6, <1>7, <2>1
    <2>2. CASE k \in DOMAIN issues /\ issues'[k] = issues[k]
      <3>1. \/ file[issues[k].packet].issue = k
            \/ \E x \in archive : x.issue = k
            \/ \E v \in Procs : At(v, "archive")
            \/ k \in lost
        BY <2>2 DEF SerialWritersInv, KeptOrArchived
      <3>2. ~\E v \in Procs : At(v, "archive")
        BY <1>1 DEF OthersRest, At
      <3>3. issues[k].packet \in Packets /\ k # 0
        <4>1. issues[k] \in Issue
          BY <1>2, <2>2
        <4> QED
          BY <1>2, <2>2, <4>1 DEF Issue
      <3>4. issues[k].packet = p => file[issues[k].packet].issue # k
        <4>1. NoRecord.issue = 0
          BY DEF NoRecord
        <4> QED
          BY <1>2, <3>3, <4>1
      <3> QED
        BY <1>7, <2>2, <3>1, <3>2, <3>3, <3>4
    <2> QED
      BY <1>9, <2>1, <2>2
  <1> QED
    BY <1>1, <1>5, <1>8, <1>10, CalmAtWork, SerialStep

LEMMA NextSerial ==
  ASSUME SerialWritersInv, [SequentialNext]_vars
  PROVE  SerialWritersInv'
  <1>1. CASE UNCHANGED vars
    <2>1. /\ file' = file /\ archive' = archive /\ issues' = issues /\ results' = results
          /\ proc' = proc /\ lost' = lost
      BY <1>1 DEF vars
    <2>2. WritersInv' /\ OneAtWork' /\ KeptOrArchived'
      BY <1>1, <2>1, StutterInv DEF SerialWritersInv, OneAtWork, At, KeptOrArchived
    <2>3. (\A w \in Procs : AtWork(proc[w], file, archive, results))' /\ OwnEvidence(file, results)'
      BY <2>1 DEF SerialWritersInv, AtWork, Agrees, OwnEvidence
    <2> QED
      BY <2>2, <2>3 DEF SerialWritersInv
  <1>2. CASE SequentialNext
    <2>1. PICK w \in Procs : (NoneRunning /\ Start(w)) \/ Step(w) \/ Disturb(w)
      BY <1>2 DEF SequentialNext
    <2>2. WritersInv'
      BY <2>1, NextInv DEF Next, SerialWritersInv
    <2>3. CASE NoneRunning /\ Start(w)
      BY <2>2, <2>3, SerialStart
    <2>4. CASE Step(w)
      <3>1. CASE DispatchLoad(w) \/ RefreshLoad(w) \/ DiscordLoad(w) \/ CaptureLoad(w)
                 \/ CleanupLoad(w) \/ CompleteLoad(w)
        BY <2>2, <3>1, SerialLoad
      <3>2. CASE DispatchLink(w)
        BY <2>2, <3>2, SerialLink
      <3>3. CASE RefreshSave(w) \/ DiscordSave(w)
        BY <2>2, <3>3, SerialPlainSave
      <3>4. CASE RefreshOut(w) \/ LabelPlan(w) \/ LabelsEnd(w) \/ CompleteEnd(w)
        BY <2>2, <3>4, SerialCalm
      <3>5. CASE \E p \in Packets : ReadIssue(w, p)
        BY <2>2, <3>5, SerialRead
      <3>6. CASE (\E p \in Packets : CloseIssue(w, p)) \/ (\E e \in proc[w].edits : EditLabels(w, e))
        BY <2>2, <3>6, SerialIssueStep
      <3>7. CASE CaptureRun(w) \/ RecordLoad(w)
        BY <2>2, <3>7, SerialProduce
      <3>8. CASE CaptureSave(w) \/ RecordSave(w)
        BY <2>2, <3>8, SerialResultSave
      <3>9. CASE CleanupSave(w) \/ CleanupArchive(w)
        BY <2>2, <3>9, SerialCleanup, SerialArchive
      <3> QED
        BY <2>4, <3>1, <3>2, <3>3, <3>4, <3>5, <3>6, <3>7, <3>8, <3>9 DEF Step
    <2>5. CASE Disturb(w)
      <3>1. CASE Fail(w)
        BY <2>2, <3>1, SerialCalm, SerialArchive
      <3>2. CASE \E p \in Packets : ReadFails(w, p)
        BY <2>2, <3>2, SerialRead
      <3> QED
        BY <2>5, <3>1, <3>2 DEF Disturb
    <2> QED
      BY <2>1, <2>3, <2>4, <2>5
  <1> QED
    BY <1>1, <1>2

(* The inductive invariant of scripts one at a time.                         *)
THEOREM SerialWritersInvariant == SequentialSpec => []SerialWritersInv
  <1>1. Init => SerialWritersInv
    <2> SUFFICES ASSUME Init PROVE SerialWritersInv
      OBVIOUS
    <2>1. \A w \in Procs : proc[w] = Idle
      BY DEF Init
    <2>2. Idle.pc = "rest"
      BY DEF Idle
    <2>3. OneAtWork
      BY <2>1, <2>2 DEF OneAtWork, At
    <2>4. \A w \in Procs : AtWork(proc[w], file, archive, results)
      BY <2>1, <2>2, CalmAtWork DEF Calm
    <2>5. OwnEvidence(file, results) /\ KeptOrArchived
      <3>1. NoRecord.session = 0
        BY DEF NoRecord
      <3>2. \A p \in Packets : file[p] = NoRecord
        BY DEF Init
      <3>3. DOMAIN issues = {}
        BY DEF Init
      <3> QED
        BY <3>1, <3>2, <3>3 DEF OwnEvidence, KeptOrArchived
    <2> QED
      BY <2>3, <2>4, <2>5, InitWritersInv DEF SerialWritersInv
  <1> QED
    BY <1>1, NextSerial, PTL DEF SequentialSpec

(* When scripts do not overlap, an issue is known to the state file, to the  *)
(* archive, or to the cleanup between the two, unless a cleanup was killed   *)
(* there (archive_records).                                                  *)
THEOREM WritersKeepOrArchive == SequentialSpec => []KeptOrArchived
  <1>1. SerialWritersInv => KeptOrArchived
    BY DEF SerialWritersInv
  <1> QED
    BY <1>1, SerialWritersInvariant, PTL

(* Only close_issue closes an issue, and it does so by a record that was     *)
(* ready when it was loaded and still is in the file.                        *)
LEMMA ClosingStep ==
  ASSUME SerialWritersInv, [SequentialNext]_vars, NEW i \in DOMAIN issues,
         ~issues[i].closed, issues'[i].closed
  PROVE  \E w \in Procs, p \in Packets : CloseIssue(w, p) /\ proc[w].snap[p].issue = i
  <1>0. issues \in Seq(Issue) /\ issues[i] \in Issue
    <2>1. issues \in Seq(Issue)
      BY DEF SerialWritersInv, WritersInv, Ledger
    <2> QED
      BY <2>1
  <1>1. issues' # issues
    OBVIOUS
  <1>2. PICK w \in Procs : \/ DispatchLink(w) \/ \E p \in Packets : CloseIssue(w, p)
                           \/ \E e \in proc[w].edits : EditLabels(w, e)
    <2>1. PICK w \in Procs : (NoneRunning /\ Start(w)) \/ Step(w) \/ Disturb(w)
      BY <1>1 DEF SequentialNext, vars
    <2>2. ~Start(w) /\ ~Disturb(w)
      BY <1>1 DEF Start, StartOperator, StartWrapper, Begin, Disturb, Fail, ReadFails
    <2>3. ~(\/ DispatchLoad(w) \/ RefreshLoad(w) \/ RefreshSave(w) \/ RefreshOut(w)
            \/ DiscordLoad(w) \/ DiscordSave(w) \/ CaptureRun(w) \/ CaptureLoad(w)
            \/ CaptureSave(w) \/ RecordLoad(w) \/ RecordSave(w) \/ CleanupLoad(w)
            \/ CleanupSave(w) \/ CleanupArchive(w) \/ LabelPlan(w) \/ LabelsEnd(w)
            \/ CompleteLoad(w) \/ CompleteEnd(w) \/ \E p \in Packets : ReadIssue(w, p))
      BY <1>1 DEF DispatchLoad, RefreshLoad, RefreshSave, RefreshOut, DiscordLoad, DiscordSave,
                  CaptureRun, CaptureLoad, CaptureSave, RecordLoad, RecordSave, CleanupLoad,
                  CleanupSave, CleanupArchive, LabelPlan, LabelsEnd, CompleteLoad, CompleteEnd,
                  ReadIssue
    <2> QED
      BY <2>1, <2>2, <2>3 DEF Step
  <1>3. ~DispatchLink(w)
    <2> SUFFICES ASSUME DispatchLink(w) PROVE FALSE
      OBVIOUS
    <2>1. PICK x : issues' = Append(issues, x)
      BY <1>1 DEF DispatchLink
    <2>2. issues'[i] = issues[i]
      BY <1>0, <2>1
    <2> QED
      BY <2>2
  <1>4. ASSUME NEW e \in proc[w].edits, EditLabels(w, e) PROVE FALSE
    <2>1. issues'[i].closed = issues[i].closed
      BY <1>0, <1>4 DEF EditLabels, Issue
    <2> QED
      BY <2>1
  <1>5. PICK p \in Packets : CloseIssue(w, p)
    BY <1>2, <1>3, <1>4
  <1>6. proc[w].snap[p].issue = i
    BY <1>0, <1>5 DEF CloseIssue
  <1> QED
    BY <1>5, <1>6

(* When scripts do not overlap, an issue is closed only while the state file *)
(* holds a done result with its evidence for it (ready_for_completion,       *)
(* close_issue), the evidence of the result itself unless an operator has    *)
(* recorded it (build_record).                                               *)
THEOREM WritersCloseOnRecord == SequentialSpec => ClosedOnRecord
  <1> DEFINE A == \A i \in DOMAIN issues :
         ~issues[i].closed /\ issues'[i].closed =>
             LET r == file[issues[i].packet]
             IN /\ r.issue = i
                /\ r.thread
                /\ WorkerDone(r)
                /\ r.evidence # 0
                /\ r.evidence = r.session \/ results[r.session].manual
  <1>1. SerialWritersInv /\ [SequentialNext]_vars => [A]_vars
    <2> SUFFICES ASSUME SerialWritersInv, [SequentialNext]_vars, NEW i \in DOMAIN issues,
                        ~issues[i].closed, issues'[i].closed
                 PROVE  LET r == file[issues[i].packet]
                        IN /\ r.issue = i
                           /\ r.thread
                           /\ WorkerDone(r)
                           /\ r.evidence # 0
                           /\ r.evidence = r.session \/ results[r.session].manual
      OBVIOUS
    <2>1. PICK w \in Procs, p \in Packets : CloseIssue(w, p) /\ proc[w].snap[p].issue = i
      BY ClosingStep
    <2>2. proc[w].pc = "close" /\ p \in proc[w].todo
      BY <2>1 DEF CloseIssue, At
    <2>3. proc[w].snap = file /\ Ready(file[p])
      BY <2>2, SerialFacts DEF AtWork, ProcOK, MemoryFits
    <2>4. issues[i].packet = p
      BY <2>1, <2>3, SerialFacts DEF Sound, SoundRecord, Ready
    <2>5. file[p].session # 0 => file[p].evidence = file[p].session \/ results[file[p].session].manual
      BY SerialFacts DEF OwnEvidence
    <2> QED
      BY <2>1, <2>3, <2>4, <2>5 DEF Ready, WorkerDone
  <1> QED
    BY <1>1, SerialWritersInvariant, PTL DEF SequentialSpec, ClosedOnRecord

(* Only the saves of the scripts change the state file.                      *)
LEMMA FileWriters ==
  ASSUME [SequentialNext]_vars, file' # file
  PROVE  \E w \in Procs : \/ DispatchLink(w) \/ RefreshSave(w) \/ DiscordSave(w)
                           \/ CaptureSave(w) \/ RecordSave(w) \/ CleanupSave(w)
  <1>1. PICK w \in Procs : (NoneRunning /\ Start(w)) \/ Step(w) \/ Disturb(w)
    BY DEF SequentialNext, vars
  <1>2. ~Start(w) /\ ~Disturb(w)
    BY DEF Start, StartOperator, StartWrapper, Begin, Disturb, Fail, ReadFails
  <1>3. ~(\/ DispatchLoad(w) \/ RefreshLoad(w) \/ RefreshOut(w)
          \/ DiscordLoad(w) \/ CaptureRun(w) \/ CaptureLoad(w)
          \/ RecordLoad(w) \/ CleanupLoad(w)
          \/ CleanupArchive(w) \/ LabelPlan(w) \/ LabelsEnd(w)
          \/ CompleteLoad(w) \/ CompleteEnd(w)
          \/ (\E p \in Packets : ReadIssue(w, p) \/ CloseIssue(w, p))
          \/ (\E e \in proc[w].edits : EditLabels(w, e)))
    BY DEF DispatchLoad, RefreshLoad, RefreshOut, DiscordLoad, CaptureRun, CaptureLoad,
           RecordLoad, CleanupLoad, CleanupArchive, LabelPlan, LabelsEnd,
           CompleteLoad, CompleteEnd, ReadIssue, CloseIssue, EditLabels
  <1> QED
    BY <1>1, <1>2, <1>3 DEF Step

(* When scripts do not overlap, only a result that is not done, or a cleanup *)
(* that takes its record away, ends a complete result in the state file that *)
(* every script writes as a whole (apply_refresh, apply_dispatch,            *)
(* update_state, archive_records).                                           *)
THEOREM WritersKeepComplete == SequentialSpec => CompleteUntilReplaced
  <1> DEFINE Replaced(p) ==
             \E w \in Procs :
                /\ At(w, "save")
                /\ \/ Head(proc[w].agenda) = "cleanup" /\ p \in proc[w].todo
                   \/ /\ Head(proc[w].agenda) \in {"capture", "record"}
                      /\ proc[w].packet = p
                      /\ results[proc[w].result].status # "done"
  <1> DEFINE A == \A p \in Packets : Ready(file[p]) /\ ~Ready(file'[p]) => Replaced(p)
  <1>1. SerialWritersInv /\ [SequentialNext]_vars => [A]_vars
    <2> SUFFICES ASSUME SerialWritersInv, [SequentialNext]_vars, NEW p \in Packets,
                        Ready(file[p]), ~Ready(file'[p])
                 PROVE  Replaced(p)
      OBVIOUS
    <2> USE DEF Ready, WorkerDone
    <2>1. PICK w \in Procs : \/ DispatchLink(w) \/ RefreshSave(w) \/ DiscordSave(w)
                             \/ CaptureSave(w) \/ RecordSave(w) \/ CleanupSave(w)
      BY FileWriters
    <2>2. /\ proc[w].snap \in [Packets -> Record] /\ file \in [Packets -> Record]
          /\ AtWork(proc[w], file, archive, results)
      BY SerialFacts DEF Proc, Sound
    <2>3. CASE DispatchLink(w)
      <3>1. proc[w].snap = file /\ file[proc[w].packet] = NoRecord
        BY <2>2, <2>3 DEF DispatchLink, At, AtWork
      <3>2. p # proc[w].packet
        <4>1. NoRecord.session = 0
          BY DEF NoRecord
        <4> QED
          BY <3>1, <4>1
      <3>3. file'[p] = file[p]
        BY <2>2, <2>3, <3>1, <3>2 DEF DispatchLink
      <3> QED
        BY <3>3
    <2>4. CASE RefreshSave(w) \/ DiscordSave(w)
      <3>1. file' = proc[w].snap
        BY <2>4 DEF RefreshSave, DiscordSave
      <3>2. Agrees(file', file)
        BY <2>2, <2>4, <3>1 DEF RefreshSave, DiscordSave, At, AtWork, Agrees
      <3> QED
        BY <3>2 DEF Agrees
    <2>5. CASE CaptureSave(w) \/ RecordSave(w)
      <3>1. At(w, "save") /\ Head(proc[w].agenda) \in {"capture", "record"} /\ proc[w].snap = file
        BY <2>2, <2>5 DEF CaptureSave, RecordSave, At, AtWork
      <3>2. PICK e : /\ file' = [file EXCEPT ![proc[w].packet] =
                                   [@ EXCEPT !.session = proc[w].result,
                                             !.status = results[proc[w].result].status,
                                             !.evidence = e]]
                     /\ e \in {proc[w].result, file[proc[w].packet].evidence}
        BY <2>5, <3>1 DEF CaptureSave, RecordSave, CaptureEvidence
      <3>3. proc[w].packet = p
        BY <2>2, <3>2
      <3>4. proc[w].result # 0
        BY <3>1, SerialFacts DEF ProcOK, MemoryFits, At
      <3>5. results[proc[w].result].status # "done"
        BY <2>2, <3>2, <3>3, <3>4 DEF Record
      <3> QED
        BY <3>1, <3>3, <3>5
    <2>6. CASE CleanupSave(w)
      <3>1. proc[w].snap = file /\ At(w, "save") /\ Head(proc[w].agenda) = "cleanup"
        BY <2>2, <2>6 DEF CleanupSave, At, AtWork
      <3>2. p \in proc[w].todo
        BY <2>6, <3>1 DEF CleanupSave
      <3> QED
        BY <3>1, <3>2
    <2> QED
      BY <2>1, <2>3, <2>4, <2>5, <2>6
  <1> QED
    BY <1>1, SerialWritersInvariant, PTL DEF SequentialSpec, CompleteUntilReplaced
=============================================================================
