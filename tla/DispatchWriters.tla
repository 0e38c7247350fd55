-------------------------- MODULE DispatchWriters --------------------------
(***************************************************************************)
(* The scripts that share the dispatch state file after a dispatch:        *)
(*   github     pnh_dispatch_status_refresh.py         issue state, labels *)
(*   discord    pnh_discord_thread_status_refresh.py   thread metadata     *)
(*   capture    pnh_openclaw_worker_capture.py         a worker's result   *)
(*   record     pnh_worker_result_record.py            a result, by hand   *)
(*   cleanup    pnh_dispatch_state_cleanup.py          records to archive  *)
(*   labels     pnh_external_reconciliation_plan.py and                    *)
(*              pnh_github_label_reconciliation_apply.py                   *)
(*   complete   pnh_worker_completion_auto.py, which closes issues through *)
(*              pnh_github_worker_done_closure.py                          *)
(*   newest     the refresh that completion ends with                      *)
(* and dispatch, of which DispatchJob has the details and this module the  *)
(* load, the links and the save.                                           *)
(*                                                                         *)
(* Each loads the whole file, calls a service, and writes the whole file.  *)
(* A process works through an agenda of scripts: that of the single-packet *)
(* wrapper, or a script that an operator runs.  What a kill during a write *)
(* does to the file is in DispatchJob.                                     *)
(***************************************************************************)
EXTENDS Naturals, Sequences, FiniteSets, FiniteSetsExt

CONSTANTS
    Packets,
    Procs,          \* slots in which processes run
    NoPacket,
    Limit,          \* records a completion takes up (--limit, 10 in the code)
    MaxIssues,      \* bound: issues the ledger may hold
    MaxResults,     \* bound: results that workers and operators produce
    MaxFaults       \* bound: processes that end early and reads that fail

ASSUME WritersAssumption ==
    /\ NoPacket \notin Packets
    /\ Limit \in Nat \ {0}
    /\ MaxIssues \in Nat
    /\ MaxResults \in Nat
    /\ MaxFaults \in Nat

VARIABLES
    file,       \* packet -> its record in pnh_dispatch_state.json
    archive,    \* the archived records in pnh_dispatch_state_archive.json
    refreshed,  \* packet -> labels in the output file of the last refresh
    issues,     \* GitHub Issues in order of creation
    results,    \* worker results in order of their production
    proc,       \* slot -> the process in it
    lost,       \* (observation) issues whose record a killed cleanup dropped
    faults      \* (bound) early ends and failed reads

vars == <<file, archive, refreshed, issues, results, proc, lost, faults>>

-----------------------------------------------------------------------------
Labels == {"not-dispatched", "dispatched-to-worker", "worker-done"}
(* "failed" stands for every status that is not done.                        *)
Statuses == {"", "done", "failed"}

(* 0 stands for an absent issue, session or evidence reference; a session    *)
(* and an evidence reference are named by the result they come from.         *)
Record == [issue : 0..MaxIssues, thread : BOOLEAN,
           session : 0..MaxResults, status : Statuses, evidence : 0..MaxResults,
           closed : BOOLEAN, labels : SUBSET Labels]

NoRecord == [issue |-> 0, thread |-> FALSE, session |-> 0, status |-> "",
             evidence |-> 0, closed |-> FALSE, labels |-> {}]

Present == {p \in Packets : file[p] # NoRecord}

Issue == [packet : Packets, closed : BOOLEAN, labels : SUBSET Labels]
Result == [packet : Packets, status : Statuses, manual : BOOLEAN]
Edit == [issue : 1..MaxIssues, add : SUBSET Labels, remove : SUBSET Labels]

Scripts == {"dispatch", "github", "discord", "capture", "record", "cleanup",
            "labels", "complete", "newest"}

(* The parts of main of pnh_single_command_packet.py; its rehearsals, which  *)
(* write nothing, are left out.                                              *)
Pilot == <<"dispatch">>
RefreshState == <<"github", "discord", "github">>
WorkerCapture == <<"capture">>
LabelReconciliation == <<"labels", "github">>

(* pnh_worker_completion_auto.py refreshes the newest records at its end.    *)
CompleteAgenda == <<"complete", "newest">>

WrapperAgenda ==
    Pilot \o RefreshState \o WorkerCapture \o RefreshState \o LabelReconciliation
      \o CompleteAgenda

(* The runbook's order after a dispatch, which ends with a plan of the label *)
(* edits that nobody carries out, and the scripts run one by one.            *)
OperatorAgendas == {RefreshState, <<"labels">>, CompleteAgenda, <<"cleanup">>}
PacketAgendas == {<<"capture">>, <<"record">>}

Proc == [pc : {"rest", "next", "link", "read", "save", "out", "load", "archive",
               "edit", "close"},
         agenda : Seq(Scripts), packet : Packets \cup {NoPacket},
         snap : [Packets -> Record], todo : SUBSET Packets,
         read : SUBSET Packets, result : 0..MaxResults,
         edits : SUBSET Edit, old : SUBSET Record]

Idle == [pc |-> "rest", agenda |-> << >>, packet |-> NoPacket,
         snap |-> [p \in Packets |-> NoRecord], todo |-> {}, read |-> {},
         result |-> 0, edits |-> {}, old |-> {}]

Init ==
    /\ file = [p \in Packets |-> NoRecord]
    /\ archive = {}
    /\ refreshed = [p \in Packets |-> {}]
    /\ issues = << >>
    /\ results = << >>
    /\ proc = [w \in Procs |-> Idle]
    /\ lost = {}
    /\ faults = 0

At(w, pc) == proc[w].pc = pc
Runs(w, script) == At(w, "next") /\ Head(proc[w].agenda) = script

(* The script in w has ended with status 0: on to the next of the agenda.    *)
Ended(w) ==
    IF Len(proc[w].agenda) = 1 THEN Idle
    ELSE [Idle EXCEPT !.pc = "next", !.agenda = Tail(proc[w].agenda),
                      !.packet = proc[w].packet]

Become(w, r) == proc' = [proc EXCEPT ![w] = r]
End(w) == Become(w, Ended(w))

(* The script in w has read the whole state file.                            *)
Loaded(w, pc) == [proc[w] EXCEPT !.pc = pc, !.snap = file]

-----------------------------------------------------------------------------
Begin(w, agenda, p) ==
    /\ At(w, "rest")
    /\ Become(w, [Idle EXCEPT !.pc = "next", !.agenda = agenda, !.packet = p])
    /\ UNCHANGED <<file, archive, refreshed, issues, results, lost, faults>>

(* The wrapper takes a packet that is not in the state (the queue plan).     *)
StartWrapper(w, p) ==
    /\ p \notin Present
    /\ Len(issues) < MaxIssues
    /\ Len(results) < MaxResults
    /\ Begin(w, WrapperAgenda, p)

StartOperator(w) ==
    \/ \E agenda \in OperatorAgendas : Begin(w, agenda, NoPacket)
    \/ \E agenda \in PacketAgendas, p \in Packets :
         Len(results) < MaxResults /\ Begin(w, agenda, p)

(* dispatch: the export refuses a packet that is in the state by now.        *)
DispatchLoad(w) ==
    /\ Runs(w, "dispatch")
    /\ Become(w, IF proc[w].packet \in Present THEN Idle ELSE Loaded(w, "link"))
    /\ UNCHANGED <<file, archive, refreshed, issues, results, lost, faults>>

(* Issues that the duplicate query finds for a packet: the query filters by  *)
(* the label an issue is created with.                                       *)
Hits(p) ==
    {i \in DOMAIN issues : issues[i].packet = p /\ "not-dispatched" \in issues[i].labels}

NewIssue(p) == [packet |-> p, closed |-> FALSE, labels |-> {"not-dispatched"}]

LinkedIssue(p) ==
    IF Hits(p) = {} THEN {Len(issues) + 1} ELSE {i \in Hits(p) : \A k \in Hits(p) : k <= i}

(* The job links an issue and a thread and saves its snapshot; or it fails   *)
(* after its first checkpoint, without the thread, and the wrapper with it.  *)
DispatchLink(w) ==
    /\ At(w, "link")
    /\ \E i \in LinkedIssue(proc[w].packet), thread \in BOOLEAN :
         /\ i <= MaxIssues
         /\ issues' = IF i > Len(issues) THEN Append(issues, NewIssue(proc[w].packet))
                      ELSE issues
         /\ file' = [proc[w].snap EXCEPT
                       ![proc[w].packet] = [@ EXCEPT !.issue = i, !.thread = thread]]
         /\ \/ thread /\ End(w) /\ UNCHANGED faults
            \/ ~thread /\ faults < MaxFaults /\ faults' = faults + 1 /\ Become(w, Idle)
    /\ UNCHANGED <<archive, refreshed, results, lost>>

-----------------------------------------------------------------------------
(* github and newest: build_refresh and apply_refresh.  The refresh at the   *)
(* end of a completion inspects Limit records only; which ones depends on    *)
(* their times of update.                                                    *)
Inspected(w) ==
    IF Head(proc[w].agenda) = "newest"
    THEN {T \in SUBSET Present : Cardinality(T) = Min({Limit, Cardinality(Present)})}
    ELSE {Present}

RefreshLoad(w) ==
    /\ Runs(w, "github") \/ Runs(w, "newest")
    /\ \E T \in Inspected(w) :
         Become(w, [Loaded(w, "read") EXCEPT !.todo = {p \in T : file[p].issue # 0}])
    /\ UNCHANGED <<file, archive, refreshed, issues, results, lost, faults>>

(* Mutant: the record is made anew from what is read.                        *)
ObservedAnew(r) ==
    [NoRecord EXCEPT !.issue = r.issue, !.thread = r.thread,
                     !.closed = issues[r.issue].closed, !.labels = issues[r.issue].labels]

Observed(r) ==
    [r EXCEPT !.closed = issues[r.issue].closed, !.labels = issues[r.issue].labels]

ReadIssue(w, p) ==
    /\ At(w, "read")
    /\ p \in proc[w].todo
    /\ Become(w, [proc[w] EXCEPT !.todo = @ \ {p}, !.read = @ \cup {p},
                                 !.snap = [@ EXCEPT ![p] = Observed(proc[w].snap[p])]])
    /\ UNCHANGED <<file, archive, refreshed, issues, results, lost, faults>>

(* A read that fails is noted in the output and ends nothing.                *)
ReadFails(w, p) ==
    /\ At(w, "read")
    /\ p \in proc[w].todo
    /\ faults < MaxFaults
    /\ faults' = faults + 1
    /\ Become(w, [proc[w] EXCEPT !.todo = @ \ {p}])
    /\ UNCHANGED <<file, archive, refreshed, issues, results, lost>>

RefreshSave(w) ==
    /\ At(w, "read")
    /\ proc[w].todo = {}
    /\ file' = proc[w].snap
    /\ IF Head(proc[w].agenda) = "newest" THEN End(w)
       ELSE Become(w, [proc[w] EXCEPT !.pc = "out"])
    /\ UNCHANGED <<archive, refreshed, issues, results, lost, faults>>

RefreshOut(w) ==
    /\ At(w, "out")
    /\ refreshed' = [p \in Packets |->
                       IF p \in proc[w].read THEN proc[w].snap[p].labels ELSE {}]
    /\ End(w)
    /\ UNCHANGED <<file, archive, issues, results, lost, faults>>

(* discord changes nothing that another script reads, but it writes the      *)
(* snapshot from before its calls.                                           *)
DiscordLoad(w) ==
    /\ Runs(w, "discord")
    /\ Become(w, Loaded(w, "save"))
    /\ UNCHANGED <<file, archive, refreshed, issues, results, lost, faults>>

DiscordSave(w) ==
    /\ At(w, "save")
    /\ Head(proc[w].agenda) = "discord"
    /\ file' = proc[w].snap
    /\ End(w)
    /\ UNCHANGED <<archive, refreshed, issues, results, lost, faults>>

-----------------------------------------------------------------------------
(* capture: the worker runs, and only then update_state loads the file.      *)
CaptureRun(w) ==
    /\ Runs(w, "capture")
    /\ Len(results) < MaxResults
    /\ \E status \in {"done", "failed"} :
         results' = Append(results, [packet |-> proc[w].packet, status |-> status,
                                     manual |-> FALSE])
    /\ Become(w, [proc[w] EXCEPT !.pc = "load", !.result = Len(results) + 1])
    /\ UNCHANGED <<file, archive, refreshed, issues, lost, faults>>

CaptureLoad(w) ==
    /\ At(w, "load")
    /\ Become(w, Loaded(w, "save"))
    /\ UNCHANGED <<file, archive, refreshed, issues, results, lost, faults>>

CaptureEvidence(w) == proc[w].result

(* A failed worker is recorded and then ends the agenda with status 2.       *)
CaptureSave(w) ==
    LET p == proc[w].packet
        n == proc[w].result
    IN
    /\ At(w, "save")
    /\ Head(proc[w].agenda) = "capture"
    /\ file' = [proc[w].snap EXCEPT
                  ![p] = [@ EXCEPT !.session = n, !.status = results[n].status,
                                   !.evidence = CaptureEvidence(w)]]
    /\ IF results[n].status = "done" THEN End(w) ELSE Become(w, Idle)
    /\ UNCHANGED <<archive, refreshed, issues, results, lost, faults>>

(* record: an operator states a result.                                      *)
RecordLoad(w) ==
    /\ Runs(w, "record")
    /\ Len(results) < MaxResults
    /\ \E status \in Statuses \ {""} :
         results' = Append(results, [packet |-> proc[w].packet, status |-> status,
                                     manual |-> TRUE])
    /\ Become(w, [Loaded(w, "save") EXCEPT !.result = Len(results) + 1])
    /\ UNCHANGED <<file, archive, refreshed, issues, lost, faults>>

(* build_record: without --evidence-ref the earlier reference stays.         *)
RecordSave(w) ==
    LET p == proc[w].packet
        n == proc[w].result
    IN
    /\ At(w, "save")
    /\ Head(proc[w].agenda) = "record"
    /\ \E evidence \in {n, proc[w].snap[p].evidence} :
         file' = [proc[w].snap EXCEPT
                    ![p] = [@ EXCEPT !.session = n, !.status = results[n].status,
                                     !.evidence = evidence]]
    /\ End(w)
    /\ UNCHANGED <<archive, refreshed, issues, results, lost, faults>>

-----------------------------------------------------------------------------
(* summarize_dispatch_record: what a record lacks, and when it is done.      *)
Missing(r) ==
    {e \in {"github_issue", "discord_thread", "worker_session", "worker_evidence_ref"} :
        \/ e = "github_issue" /\ r.issue = 0
        \/ e = "discord_thread" /\ ~r.thread
        \/ e = "worker_session" /\ r.session = 0
        \/ e = "worker_evidence_ref" /\ r.session # 0 /\ r.evidence = 0}

WorkerDone(r) == r.session # 0 /\ r.status = "done"

(* select_records: its three modes, for all records or for a given packet.   *)
Matched ==
    {{p \in Present : WorkerDone(file[p]) /\ Missing(file[p]) # {}},
     {p \in Present : Missing(file[p]) \cap {"github_issue", "discord_thread"} # {}},
     {p \in Present : Missing(file[p]) # {}}}

Selections ==
    {T \cap wanted : T \in Matched, wanted \in {Packets} \cup {{p} : p \in Packets}}

(* cleanup, which touches no file when it selects nothing.  It reads the     *)
(* archive right after the state.                                            *)
CleanupLoad(w) ==
    /\ Runs(w, "cleanup")
    /\ \E T \in Selections :
         Become(w, IF T = {} THEN Ended(w)
                   ELSE [Loaded(w, "save") EXCEPT !.todo = T, !.old = archive])
    /\ UNCHANGED <<file, archive, refreshed, issues, results, lost, faults>>

(* archive_records saves the state first, and then the archive.              *)
CleanupSave(w) ==
    /\ At(w, "save")
    /\ Head(proc[w].agenda) = "cleanup"
    /\ file' = [p \in Packets |->
                  IF p \in proc[w].todo THEN NoRecord ELSE proc[w].snap[p]]
    /\ Become(w, [proc[w] EXCEPT !.pc = "archive"])
    /\ UNCHANGED <<archive, refreshed, issues, results, lost, faults>>

(* Mutant: the archive starts anew.                                          *)
ArchivedAnew(w) == {proc[w].snap[p] : p \in proc[w].todo}

Archived(w) == proc[w].old \cup {proc[w].snap[p] : p \in proc[w].todo}

CleanupArchive(w) ==
    /\ At(w, "archive")
    /\ archive' = Archived(w)
    /\ End(w)
    /\ UNCHANGED <<file, refreshed, issues, results, lost, faults>>

-----------------------------------------------------------------------------
(* labels: plan_record prefers the labels of the refresh output to those of  *)
(* the record.                                                               *)
KnownLabels(p) == IF refreshed[p] # {} THEN refreshed[p] ELSE file[p].labels

DesiredLabel(r) ==
    IF r.status = "done" THEN "worker-done" ELSE "dispatched-to-worker"

Planned(p) == file[p].issue # 0 /\ (file[p].status = "done" \/ file[p].thread)

PlannedEdit(p) ==
    LET desired == {DesiredLabel(file[p])}
    IN [issue |-> file[p].issue, add |-> desired \ KnownLabels(p),
        remove |-> KnownLabels(p) \ desired]

PlannedEdits ==
    {e \in {PlannedEdit(p) : p \in {q \in Packets : Planned(q)}} : e.add \cup e.remove # {}}

LabelPlan(w) ==
    /\ Runs(w, "labels")
    /\ Become(w, [proc[w] EXCEPT !.pc = "edit", !.edits = PlannedEdits])
    /\ UNCHANGED <<file, archive, refreshed, issues, results, lost, faults>>

(* apply_action: one gh issue edit adds and removes.                         *)
EditLabels(w, e) ==
    /\ At(w, "edit")
    /\ e \in proc[w].edits
    /\ issues' = [issues EXCEPT ![e.issue].labels = (@ \cup e.add) \ e.remove]
    /\ Become(w, [proc[w] EXCEPT !.edits = @ \ {e}])
    /\ UNCHANGED <<file, archive, refreshed, results, lost, faults>>

LabelsEnd(w) ==
    /\ At(w, "edit")
    /\ proc[w].edits = {}
    /\ End(w)
    /\ UNCHANGED <<file, archive, refreshed, issues, results, lost, faults>>

-----------------------------------------------------------------------------
(* Mutant: the evidence is not looked at.                                    *)
ReadyUnproved(r) == WorkerDone(r) /\ r.issue # 0 /\ r.thread

(* ready_for_completion, and the same conditions in planned_actions.         *)
Ready(r) == WorkerDone(r) /\ r.evidence # 0 /\ r.issue # 0 /\ r.thread

(* Mutant: the packet id of the wrapper is ignored.                          *)
CandidatesOfAny(w) ==
    LET ready == {p \in Packets : Ready(file[p])}
    IN {T \in SUBSET ready : Cardinality(T) = Min({Limit, Cardinality(ready)})}

(* select_candidates takes Limit ready records, planned_actions leaves out   *)
(* those whose issue the record says is closed.                              *)
Candidates(w) ==
    LET ready == {p \in Packets :
                    Ready(file[p]) /\ proc[w].packet \in {p, NoPacket}}
    IN {T \in SUBSET ready : Cardinality(T) = Min({Limit, Cardinality(ready)})}

CompleteLoad(w) ==
    /\ Runs(w, "complete")
    /\ \E T \in Candidates(w) :
         Become(w, [Loaded(w, "close") EXCEPT !.todo = {p \in T : ~file[p].closed}])
    /\ UNCHANGED <<file, archive, refreshed, issues, results, lost, faults>>

(* close_issue looks whether the issue is closed already.                    *)
CloseIssue(w, p) ==
    /\ At(w, "close")
    /\ p \in proc[w].todo
    /\ issues' = [issues EXCEPT ![proc[w].snap[p].issue].closed = TRUE]
    /\ Become(w, [proc[w] EXCEPT !.todo = @ \ {p}])
    /\ UNCHANGED <<file, archive, refreshed, results, lost, faults>>

CompleteEnd(w) ==
    /\ At(w, "close")
    /\ proc[w].todo = {}
    /\ End(w)
    /\ UNCHANGED <<file, archive, refreshed, issues, results, lost, faults>>

(* A process is killed, times out or fails: its agenda ends.  The records a  *)
(* cleanup has taken out of the state are then nowhere.                      *)
Fail(w) ==
    /\ ~At(w, "rest")
    /\ faults < MaxFaults
    /\ faults' = faults + 1
    /\ lost' = IF At(w, "archive")
               THEN lost \cup {proc[w].snap[p].issue : p \in proc[w].todo} ELSE lost
    /\ Become(w, Idle)
    /\ UNCHANGED <<file, archive, refreshed, issues, results>>

-----------------------------------------------------------------------------
Step(w) ==
    \/ DispatchLoad(w) \/ DispatchLink(w)
    \/ RefreshLoad(w) \/ RefreshSave(w) \/ RefreshOut(w)
    \/ \E p \in Packets : ReadIssue(w, p) \/ CloseIssue(w, p)
    \/ DiscordLoad(w) \/ DiscordSave(w)
    \/ CaptureRun(w) \/ CaptureLoad(w) \/ CaptureSave(w)
    \/ RecordLoad(w) \/ RecordSave(w)
    \/ CleanupLoad(w) \/ CleanupSave(w) \/ CleanupArchive(w)
    \/ LabelPlan(w) \/ LabelsEnd(w) \/ \E e \in proc[w].edits : EditLabels(w, e)
    \/ CompleteLoad(w) \/ CompleteEnd(w)

Start(w) == StartOperator(w) \/ \E p \in Packets : StartWrapper(w, p)
Disturb(w) == Fail(w) \/ \E p \in Packets : ReadFails(w, p)

Next == \E w \in Procs : Start(w) \/ Step(w) \/ Disturb(w)

OverlapSpec == Init /\ [][Next]_vars

(* What the runbook asks for: no two of the scripts at the same time.        *)
NoneRunning == \A w \in Procs : At(w, "rest")

SequentialNext ==
    \E w \in Procs : (NoneRunning /\ Start(w)) \/ Step(w) \/ Disturb(w)

SequentialSpec == Init /\ [][SequentialNext]_vars

-----------------------------------------------------------------------------
WritersTypeOK ==
    /\ file \in [Packets -> Record]
    /\ archive \subseteq Record
    /\ refreshed \in [Packets -> SUBSET Labels]
    /\ issues \in Seq(Issue)
    /\ results \in Seq(Result)
    /\ proc \in [Procs -> Proc]
    /\ \A w \in Procs : proc[w].result <= Len(results)
    /\ lost \subseteq 0..MaxIssues
    /\ faults \in 0..MaxFaults

(* An issue is closed only for a packet whose worker, or whose operator, has *)
(* once reported it done, however the scripts overlap and overwrite each     *)
(* other's snapshots (close_issue acts on a selection made earlier).         *)
ClosedMeansDone ==
    \A i \in DOMAIN issues :
        issues[i].closed =>
            \E n \in DOMAIN results :
                results[n].packet = issues[i].packet /\ results[n].status = "done"

(* Session and evidence of a record are those of a result of its own packet, *)
(* even when two captures run at the same time (update_state loads the file  *)
(* after the worker has run).                                                *)
EvidenceIsOwn ==
    \A p \in Packets :
        /\ file[p].session # 0 => results[file[p].session].packet = p
        /\ file[p].evidence # 0 => results[file[p].evidence].packet = p

(* When scripts do not overlap, an issue is closed only while the state file *)
(* holds for it a done result with evidence, and the evidence is that of the *)
(* result unless an operator has recorded the result without a reference     *)
(* (close_issue after ready_for_completion; build_record).                   *)
ClosedOnRecord ==
    [][\A i \in DOMAIN issues :
         ~issues[i].closed /\ issues'[i].closed =>
             LET r == file[issues[i].packet]
             IN /\ r.issue = i
                /\ r.thread
                /\ WorkerDone(r)
                /\ r.evidence # 0
                /\ r.evidence = r.session \/ results[r.session].manual]_vars

(* When scripts do not overlap, an issue is always known to the state, the   *)
(* archive, or a process that is about to archive it, except after a cleanup *)
(* that ended between its two saves (archive_records).  So a packet gets a   *)
(* second issue only after its record has been cleaned up.                   *)
KeptOrArchived ==
    \A i \in DOMAIN issues :
        \/ file[issues[i].packet].issue = i
        \/ \E r \in archive : r.issue = i
        \/ \E w \in Procs :
             At(w, "archive") /\ \E p \in proc[w].todo : proc[w].snap[p].issue = i
        \/ i \in lost

(* When scripts do not overlap, a wrapper that comes to its end leaves the   *)
(* issue of its packet closed and labelled as done, whatever reads failed on *)
(* the way, however many other records are ready and whatever the refreshes  *)
(* before it left in the file (main of pnh_single_command_packet.py).        *)
WrapperDelivers ==
    \A w \in Procs :
        At(w, "close") /\ proc[w].todo = {} /\ proc[w].packet # NoPacket =>
            LET i == file[proc[w].packet].issue
            IN i # 0 /\ issues[i].closed /\ "worker-done" \in issues[i].labels

(* When scripts do not overlap, a complete result stays complete in the file *)
(* that all scripts rewrite, until its record is archived or a result of the *)
(* same packet is recorded that is not done (apply_refresh, update_state).   *)
CompleteUntilReplaced ==
    [][\A p \in Packets :
         Ready(file[p]) /\ ~Ready(file'[p]) =>
             \E w \in Procs :
                /\ At(w, "save")
                /\ \/ Head(proc[w].agenda) = "cleanup" /\ p \in proc[w].todo
                   \/ /\ Head(proc[w].agenda) \in {"capture", "record"}
                      /\ proc[w].packet = p
                      /\ results[proc[w].result].status # "done"]_vars

=============================================================================
