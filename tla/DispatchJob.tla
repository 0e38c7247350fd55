---------------------------- MODULE DispatchJob ----------------------------
(***************************************************************************)
(* scripts/pnh_dispatch_job.py: one run turns a command packet into a      *)
(* GitHub Issue (the ledger) and a Discord thread (the routing), and       *)
(* records their ids in the dispatch state file so that a later run skips  *)
(* what an earlier one has done.                                           *)
(*                                                                         *)
(* A run loads the whole state file once, and every checkpoint writes that *)
(* whole snapshot back with the run's own record changed.  Each external   *)
(* call and each checkpoint is a step of its own, and a run may end        *)
(* between any two of them: a call fails, a timeout expires, or the        *)
(* process is killed.                                                      *)
(*                                                                         *)
(* The flags are the ones the unattended pilot passes: --apply with every  *)
(* approval, a Discord target, and --detect-existing-github.               *)
(***************************************************************************)
EXTENDS Naturals, Sequences, FiniteSets

CONSTANTS
    Packets,        \* capture ids of command packets
    Jobs,           \* slots in which a run of the script executes
    NoPacket,       \* the packet of a slot that runs nothing
    MessageCount,   \* routing messages posted to a new thread (5 in the code)
    DetectWindow,   \* page size of the duplicate query (30 in the code)
    MaxIssues,      \* bound: issues the ledger may hold
    MaxThreads,     \* bound: threads the channel may hold
    MaxFaults       \* bound: runs that end before their last step

ASSUME DispatchAssumption ==
    /\ NoPacket \notin Packets
    /\ MessageCount \in Nat
    /\ DetectWindow \in Nat \ {0}
    /\ MaxIssues \in Nat
    /\ MaxThreads \in Nat
    /\ MaxFaults \in Nat

VARIABLES
    stateFile,  \* packet -> its record in pnh_dispatch_state.json
    fileOk,     \* the state file parses (a killed write_text leaves it cut short)
    issues,     \* GitHub Issues in order of creation; the number is the index
    threads,    \* Discord threads in order of creation
    job,        \* slot -> the run in it: where it stands and its locals
    orphans,    \* (observation) threads whose run ended before recording them
    muted,      \* (observation) threads whose run ended before announcing them
    faults      \* (bound) runs that have ended early

vars == <<stateFile, fileOk, issues, threads, job, orphans, muted, faults>>

-----------------------------------------------------------------------------
(* Records.  0 stands for a missing githubIssueUrl or discordThreadId, and  *)
(* a packet missing from the file has the empty record (state.get(id, {})). *)

Record == [issue : Nat, thread : Nat]
EmptyRecord == [issue |-> 0, thread |-> 0]
States == [Packets -> Record]

(* `queued` says that the issue still carries the label it was created with, *)
(* dispatch:not-dispatched, one of the five the duplicate query filters by.  *)
Issue == [packet : Packets, queued : BOOLEAN]
(* `linked` says that the issue comment naming the thread has been posted.   *)
Thread == [packet : Packets, posts : 0..MessageCount, linked : BOOLEAN]

NewIssue(p) == [packet |-> p, queued |-> TRUE]
NewThread(p) == [packet |-> p, posts |-> 0, linked |-> FALSE]

Running == {"detect", "issue", "saveIssue", "thread", "saveThread",
            "post", "saveComment", "finish"}
Saving == {"saveIssue", "saveThread", "saveComment", "finish"}
Resting == {"idle", "done", "failed"}

Run == [pc : Running \cup Resting, packet : Packets \cup {NoPacket},
        snap : States, rec : Record, match : Nat]

NoRun == [pc |-> "idle", packet |-> NoPacket,
          snap |-> [p \in Packets |-> EmptyRecord],
          rec |-> EmptyRecord, match |-> 0]

Init ==
    /\ stateFile = [p \in Packets |-> EmptyRecord]
    /\ fileOk = TRUE
    /\ issues = << >>
    /\ threads = << >>
    /\ job = [j \in Jobs |-> NoRun]
    /\ orphans = {}
    /\ muted = {}
    /\ faults = 0

-----------------------------------------------------------------------------
(* Mutants of the next definition: the flag --detect-existing-github is lost *)
(* on the way; the title is not compared.                                    *)
HitsUndetected(p) == {}
HitsAnyTitle(p) == {i \in DOMAIN issues : issues[i].queued}

(* The duplicate query lists the newest DetectWindow issues that carry the   *)
(* creation labels; the first one with the packet's title is taken.          *)
Hits(p) ==
    {i \in DOMAIN issues :
        /\ issues[i].packet = p
        /\ issues[i].queued
        /\ Cardinality({k \in DOMAIN issues : k > i /\ issues[k].queued}) < DetectWindow}

(* load_state reads the whole file once.                                     *)
Load(j, p) ==
    /\ job[j].pc \in Resting
    /\ fileOk
    /\ job' = [job EXCEPT ![j] =
                 [pc |-> "detect", packet |-> p, snap |-> stateFile,
                  rec |-> stateFile[p], match |-> 0]]
    /\ UNCHANGED <<stateFile, fileOk, issues, threads, orphans, muted, faults>>

(* A file that does not parse ends the run with status 2 before it starts.   *)
RejectFile(j) ==
    /\ job[j].pc \in Resting
    /\ ~fileOk
    /\ job' = [job EXCEPT ![j].pc = "failed"]
    /\ UNCHANGED <<stateFile, fileOk, issues, threads, orphans, muted, faults>>

AfterIssue(r) == IF r.thread = 0 THEN "thread" ELSE "finish"
AfterDetect(r) == IF r.issue = 0 THEN "issue" ELSE AfterIssue(r)

(* The query runs even when the record already holds an issue; its answer    *)
(* matters only when it does not.                                            *)
Detect(j) ==
    /\ job[j].pc = "detect"
    /\ \/ /\ Hits(job[j].packet) = {}
          /\ job' = [job EXCEPT ![j].pc = AfterDetect(job[j].rec)]
       \/ \E i \in Hits(job[j].packet) :
            /\ \A k \in Hits(job[j].packet) : k <= i
            /\ job' = [job EXCEPT ![j].pc = AfterDetect(job[j].rec), ![j].match = i]
    /\ UNCHANGED <<stateFile, fileOk, issues, threads, orphans, muted, faults>>

ReuseIssue(j) ==
    /\ job[j].pc = "issue"
    /\ job[j].match # 0
    /\ job' = [job EXCEPT ![j].pc = "saveIssue", ![j].rec.issue = job[j].match]
    /\ UNCHANGED <<stateFile, fileOk, issues, threads, orphans, muted, faults>>

CreateIssue(j) ==
    /\ job[j].pc = "issue"
    /\ job[j].match = 0
    /\ Len(issues) < MaxIssues
    /\ issues' = Append(issues, NewIssue(job[j].packet))
    /\ job' = [job EXCEPT ![j].pc = "saveIssue", ![j].rec.issue = Len(issues) + 1]
    /\ UNCHANGED <<stateFile, fileOk, threads, orphans, muted, faults>>

CreateThread(j) ==
    /\ job[j].pc = "thread"
    /\ Len(threads) < MaxThreads
    /\ threads' = Append(threads, NewThread(job[j].packet))
    /\ job' = [job EXCEPT ![j].pc = "saveThread", ![j].rec.thread = Len(threads) + 1]
    /\ UNCHANGED <<stateFile, fileOk, issues, orphans, muted, faults>>

(* Mutant: the comment does not wait for the messages.                       *)
CommentIssueEarly(j) ==
    /\ job[j].pc = "post"
    /\ threads' = [threads EXCEPT ![job[j].rec.thread].linked = TRUE]
    /\ job' = [job EXCEPT ![j].pc = "saveComment"]
    /\ UNCHANGED <<stateFile, fileOk, issues, orphans, muted, faults>>

PostMessage(j) ==
    /\ job[j].pc = "post"
    /\ threads[job[j].rec.thread].posts < MessageCount
    /\ threads' = [threads EXCEPT ![job[j].rec.thread].posts = @ + 1]
    /\ UNCHANGED <<stateFile, fileOk, issues, job, orphans, muted, faults>>

CommentIssue(j) ==
    /\ job[j].pc = "post"
    /\ threads[job[j].rec.thread].posts = MessageCount
    /\ threads' = [threads EXCEPT ![job[j].rec.thread].linked = TRUE]
    /\ job' = [job EXCEPT ![j].pc = "saveComment"]
    /\ UNCHANGED <<stateFile, fileOk, issues, orphans, muted, faults>>

-----------------------------------------------------------------------------
(* checkpoint_dispatch_state and the last save: the run's record goes into   *)
(* the run's snapshot, and the snapshot replaces the file.                   *)

(* Mutant: only the run's own record is written.                             *)
SnapshotOwnRecord(j) == [NoRun.snap EXCEPT ![job[j].packet] = job[j].rec]

Snapshot(j) == [job[j].snap EXCEPT ![job[j].packet] = job[j].rec]

Checkpoint(j, from, to) ==
    /\ job[j].pc = from
    /\ stateFile' = Snapshot(j)
    /\ fileOk' = TRUE
    /\ job' = [job EXCEPT ![j].pc = to, ![j].snap = Snapshot(j)]
    /\ UNCHANGED <<issues, threads, orphans, muted, faults>>

CheckpointIssue(j) == Checkpoint(j, "saveIssue", AfterIssue(job[j].rec))
CheckpointThread(j) == Checkpoint(j, "saveThread", "post")
CheckpointComment(j) == Checkpoint(j, "saveComment", "finish")

(* Mutant: the last save writes the packet's record as it was before the run. *)
FinishAsBefore(j) ==
    /\ job[j].pc = "finish"
    /\ stateFile' = [job[j].snap EXCEPT ![job[j].packet] = EmptyRecord]
    /\ fileOk' = TRUE
    /\ job' = [job EXCEPT ![j] = [NoRun EXCEPT !.pc = "done"]]
    /\ UNCHANGED <<issues, threads, orphans, muted, faults>>

(* The last save of apply_dispatch; the run then exits with status 0.        *)
Finish(j) ==
    /\ job[j].pc = "finish"
    /\ stateFile' = Snapshot(j)
    /\ fileOk' = TRUE
    /\ job' = [job EXCEPT ![j] = [NoRun EXCEPT !.pc = "done"]]
    /\ UNCHANGED <<issues, threads, orphans, muted, faults>>

(* A call fails, a timeout expires or the process is killed: the run ends    *)
(* where it stands.  A run killed while it writes leaves the file cut short. *)
Fail(j) ==
    /\ job[j].pc \in Running
    /\ faults < MaxFaults
    /\ faults' = faults + 1
    /\ \/ fileOk' = fileOk
       \/ job[j].pc \in Saving /\ fileOk' = FALSE
    /\ orphans' = IF job[j].pc = "saveThread"
                  THEN orphans \cup {job[j].rec.thread} ELSE orphans
    /\ muted' = IF job[j].pc = "post"
                THEN muted \cup {job[j].rec.thread} ELSE muted
    /\ job' = [job EXCEPT ![j] = [NoRun EXCEPT !.pc = "failed"]]
    /\ UNCHANGED <<stateFile, issues, threads>>

(* pnh_github_label_reconciliation_apply.py, run for a record that holds an  *)
(* issue and a thread, replaces dispatch:not-dispatched on the issue.        *)
ReplaceDispatchLabel(p) ==
    /\ fileOk
    /\ stateFile[p].issue # 0
    /\ stateFile[p].thread # 0
    /\ issues[stateFile[p].issue].queued
    /\ issues' = [issues EXCEPT ![stateFile[p].issue].queued = FALSE]
    /\ UNCHANGED <<stateFile, fileOk, threads, job, orphans, muted, faults>>

-----------------------------------------------------------------------------
Step(j) ==
    \/ Detect(j)
    \/ ReuseIssue(j)
    \/ CreateIssue(j)
    \/ CheckpointIssue(j)
    \/ CreateThread(j)
    \/ CheckpointThread(j)
    \/ PostMessage(j)
    \/ CommentIssue(j)
    \/ CheckpointComment(j)
    \/ Finish(j)

NoneRunning == \A j \in Jobs : job[j].pc \in Resting

Next ==
    \/ \E j \in Jobs, p \in Packets : Load(j, p)
    \/ \E j \in Jobs : RejectFile(j) \/ Step(j) \/ Fail(j)
    \/ \E p \in Packets : ReplaceDispatchLabel(p)

(* Runs started while another one is in progress.                            *)
OverlapSpec == Init /\ [][Next]_vars

(* Runs one after the other: what "stateWritesMustBeSequential" in the queue *)
(* plan's lock policy asks for.                                              *)
SequentialNext ==
    \/ NoneRunning /\ \E j \in Jobs, p \in Packets : Load(j, p)
    \/ \E j \in Jobs : RejectFile(j) \/ Step(j) \/ Fail(j)
    \/ \E p \in Packets : ReplaceDispatchLabel(p)

SequentialSpec == Init /\ [][SequentialNext]_vars

Complete(p) == stateFile[p].issue # 0 /\ stateFile[p].thread # 0

-----------------------------------------------------------------------------
TypeOK ==
    /\ stateFile \in States
    /\ fileOk \in BOOLEAN
    /\ issues \in Seq(Issue)
    /\ threads \in Seq(Thread)
    /\ job \in [Jobs -> Run]
    /\ \A j \in Jobs : job[j].pc \in Running => job[j].packet \in Packets
    /\ orphans \subseteq DOMAIN threads
    /\ muted \subseteq DOMAIN threads
    /\ faults \in 0..MaxFaults

(* An id of the record exists and belongs to the record's packet.            *)
Genuine(p, r) ==
    /\ r.issue # 0 => r.issue \in DOMAIN issues /\ issues[r.issue].packet = p
    /\ r.thread # 0 => r.thread \in DOMAIN threads /\ threads[r.thread].packet = p

(* The state file never names an issue or a thread that was not created, or  *)
(* that was created for another packet, however runs overlap: every write of *)
(* the file is a whole snapshot taken earlier with one record replaced       *)
(* (apply_dispatch, checkpoint_dispatch_state).                              *)
RecordedLinksExist == \A p \in Packets : Genuine(p, stateFile[p])

(* The channel is not asked for duplicates: a second thread of a packet      *)
(* exists, but only if the run that created the earlier one ended before     *)
(* recording it (create_discord_thread and the checkpoint after it).         *)
OneRecordedThreadPerPacket ==
    \A s, t \in DOMAIN threads \ orphans : threads[s].packet = threads[t].packet => s = t

(* A recorded thread has had all its routing messages and is linked from its *)
(* issue, unless a run is announcing it at this moment or ended while it was *)
(* announcing it: no order of the calls loses an announcement silently.      *)
Announced(t) == threads[t].posts = MessageCount /\ threads[t].linked

RecordedThreadAnnounced ==
    \A p \in Packets :
        stateFile[p].thread # 0 =>
            \/ Announced(stateFile[p].thread)
            \/ stateFile[p].thread \in muted
            \/ \E j \in Jobs : job[j].pc = "post" /\ job[j].rec.thread = stateFile[p].thread

(* A run that ends with status 0 leaves a complete record of its packet.     *)
DoneMeansComplete ==
    [][\A j \in Jobs :
         job[j].pc \in Running /\ job'[j].pc = "done" =>
             /\ stateFile'[job[j].packet].issue # 0
             /\ stateFile'[job[j].packet].thread # 0]_vars

(* No write of the state file forgets an id it held: an issue or thread once *)
(* recorded stays the packet's record.                                       *)
NoLinkForgotten ==
    [][\A p \in Packets :
         /\ stateFile[p].issue # 0 => stateFile'[p].issue = stateFile[p].issue
         /\ stateFile[p].thread # 0 => stateFile'[p].thread = stateFile[p].thread]_vars

=============================================================================
