--------------------------- MODULE DispatchProofs ---------------------------
(***************************************************************************)
(* Proofs about the dispatch path: DispatchJob, DispatchLate,              *)
(* DispatchPilot and CaptureTrigger, for every value of their constants    *)
(* that the named assumptions allow.                                       *)
(*                                                                         *)
(* DispatchJob:    OverlapInv holds however runs overlap; SerialInv adds   *)
(*                 what holds when one run ends before the next starts.    *)
(* DispatchLate:   LateInv is SerialInv with the requests that outlive     *)
(*                 their run, and counts issues against runs cut short;    *)
(*                 AwaitedInv says what runs that wait for the answer do.  *)
(* DispatchPilot:  PilotInv.  While no operator interferes, the wrapper's  *)
(*                 lock lets one pilot run at a time, so that its          *)
(*                 dispatch runs are those of LateSpec.                    *)
(* CaptureTrigger: TypesInv, and TriggerStrong with what every thread of   *)
(*                 the server may still write.                             *)
(***************************************************************************)
EXTENDS CaptureTrigger, FiniteSetTheorems, SequenceTheorems, TLAPS

(* The ids a run works with are genuine, and it has them when it needs them. *)
HasIssue == {"saveIssue", "thread", "saveThread", "post", "saveComment", "finish"}
HasThread == {"saveThread", "post", "saveComment", "finish"}

RunGenuine(r) ==
    /\ \A p \in Packets : Genuine(p, r.snap[p])
    /\ Genuine(r.packet, r.rec)
    /\ r.match # 0 => r.match \in DOMAIN issues /\ issues[r.match].packet = r.packet
    /\ r.pc \in HasIssue => r.rec.issue # 0
    /\ r.pc \in HasThread => r.rec.thread # 0

RunsGenuine == \A j \in Jobs : job[j].pc \in Running => RunGenuine(job[j])

OverlapInv == TypeOK /\ RecordedLinksExist /\ RunsGenuine

-----------------------------------------------------------------------------
(* The initial state has no issue, thread or run.                            *)
LEMMA InitOverlapInv == Init => OverlapInv
  <1> SUFFICES ASSUME Init PROVE OverlapInv
    OBVIOUS
  <1> USE DispatchAssumption DEF Init, NoRun, Run, EmptyRecord, States, Record, Running, Resting
  <1>1. TypeOK
    BY DEF TypeOK
  <1>2. RecordedLinksExist
    BY DEF RecordedLinksExist, Genuine
  <1>3. RunsGenuine
    BY DEF RunsGenuine
  <1> QED
    BY <1>1, <1>2, <1>3 DEF OverlapInv

(* No step removes an issue or a thread or gives it to another packet.       *)
Growing ==
    /\ DOMAIN issues \subseteq DOMAIN issues'
    /\ DOMAIN threads \subseteq DOMAIN threads'
    /\ \A i \in DOMAIN issues : issues'[i].packet = issues[i].packet
    /\ \A t \in DOMAIN threads : threads'[t].packet = threads[t].packet

LEMMA StepGrows ==
  ASSUME TypeOK, [Next]_vars
  PROVE  Growing
  <1> USE DEF TypeOK, Growing, Issue, Thread, NewIssue, NewThread
  <1>1. ASSUME NEW j \in Jobs, CreateIssue(j) PROVE Growing
    BY <1>1 DEF CreateIssue
  <1>2. ASSUME NEW j \in Jobs, CreateThread(j) PROVE Growing
    BY <1>2 DEF CreateThread
  <1>3. ASSUME NEW j \in Jobs, PostMessage(j) PROVE Growing
    BY <1>3 DEF PostMessage
  <1>4. ASSUME NEW j \in Jobs, CommentIssue(j) PROVE Growing
    BY <1>4 DEF CommentIssue
  <1>5. ASSUME NEW p \in Packets, ReplaceDispatchLabel(p) PROVE Growing
    BY <1>5 DEF ReplaceDispatchLabel
  <1>6. CASE UNCHANGED <<issues, threads>>
    BY <1>6
  <1> QED
    BY <1>1, <1>2, <1>3, <1>4, <1>5, <1>6
       DEF Next, Step, vars, Load, RejectFile, Detect, ReuseIssue, CheckpointIssue,
           CheckpointThread, CheckpointComment, Checkpoint, Finish, Fail

(* What is genuine stays genuine.                                            *)
LEMMA GenuineStable ==
  ASSUME Growing, NEW p, NEW r, Genuine(p, r)
  PROVE  Genuine(p, r)'
  BY DEF Growing, Genuine

-----------------------------------------------------------------------------
(* The locals of a run, and the snapshot it writes back, have their types.   *)
LEMMA RunTypes ==
  ASSUME TypeOK, NEW j \in Jobs
  PROVE  /\ job[j] \in Run
         /\ job[j].pc \in Running \cup Resting
         /\ job[j].packet \in Packets \cup {NoPacket}
         /\ job[j].snap \in States
         /\ job[j].rec \in Record
         /\ job[j].match \in Nat
         /\ job[j].pc \in Running => job[j].packet \in Packets /\ Snapshot(j) \in States
  BY DEF TypeOK, Run, Snapshot, States

LEMMA NoRunType ==
  /\ NoRun \in Run
  /\ [NoRun EXCEPT !.pc = "done"] \in Run
  /\ [NoRun EXCEPT !.pc = "failed"] \in Run
  BY DEF NoRun, Run, Running, Resting, EmptyRecord, Record, States

(* A step of one run leaves every slot with a run of the right type.         *)
JobOK == /\ job \in [Jobs -> Run]
         /\ \A j \in Jobs : job[j].pc \in Running => job[j].packet \in Packets

LEMMA OneRunChanges ==
  ASSUME JobOK, NEW j \in Jobs, NEW r \in Run, job' = [job EXCEPT ![j] = r],
         r.pc \in Running => r.packet \in Packets
  PROVE  JobOK'
  BY DEF JobOK

LEMMA StepJobOK ==
  ASSUME OverlapInv, [Next]_vars
  PROVE  JobOK'
  <1>0. TypeOK /\ JobOK
    BY DEF OverlapInv, TypeOK, JobOK
  <1>a. ASSUME NEW j \in Jobs, NEW pc \in Running, job[j].pc \in Running,
               job' = [job EXCEPT ![j].pc = pc]
        PROVE  JobOK'
    <2> DEFINE r == [job[j] EXCEPT !.pc = pc]
    <2>1. r \in Run /\ r.packet = job[j].packet
      BY <1>0, RunTypes DEF Run
    <2>2. job' = [job EXCEPT ![j] = r]
      BY <1>a
    <2> QED
      BY <1>0, <1>a, <2>1, <2>2, OneRunChanges, RunTypes
  <1>1. ASSUME NEW j \in Jobs, NEW p \in Packets, Load(j, p) PROVE JobOK'
    <2> DEFINE r == [pc |-> "detect", packet |-> p, snap |-> stateFile,
                     rec |-> stateFile[p], match |-> 0]
    <2>1. r \in Run
      BY <1>0 DEF TypeOK, Run, States, Running
    <2> QED
      BY <1>0, <1>1, <2>1, OneRunChanges DEF Load
  <1>2. ASSUME NEW j \in Jobs, RejectFile(j) PROVE JobOK'
    <2> DEFINE r == [job[j] EXCEPT !.pc = "failed"]
    <2>1. r \in Run /\ r.pc = "failed"
      BY <1>0, RunTypes DEF Run, Resting
    <2>2. job' = [job EXCEPT ![j] = r]
      BY <1>2 DEF RejectFile
    <2> QED
      BY <1>0, <2>1, <2>2, OneRunChanges DEF Running
  <1>3. ASSUME NEW j \in Jobs, Detect(j) PROVE JobOK'
    <2>1. AfterDetect(job[j].rec) \in Running /\ job[j].pc \in Running
      BY <1>3 DEF AfterDetect, AfterIssue, Running, Detect
    <2>2. ASSUME NEW i \in Hits(job[j].packet),
                 job' = [job EXCEPT ![j].pc = AfterDetect(job[j].rec), ![j].match = i]
          PROVE  JobOK'
      <3> DEFINE r == [job[j] EXCEPT !.pc = AfterDetect(job[j].rec), !.match = i]
      <3>1. i \in Nat
        BY <1>0 DEF Hits, TypeOK
      <3>2. r \in Run /\ r.packet = job[j].packet
        BY <1>0, <2>1, <3>1, RunTypes DEF Run
      <3>3. job' = [job EXCEPT ![j] = r]
        BY <2>2
      <3> QED
        BY <1>0, <2>1, <3>2, <3>3, OneRunChanges, RunTypes
    <2> QED
      BY <1>3, <1>a, <2>1, <2>2 DEF Detect
  <1>4. ASSUME NEW j \in Jobs, ReuseIssue(j) PROVE JobOK'
    <2> DEFINE r == [job[j] EXCEPT !.pc = "saveIssue", !.rec.issue = job[j].match]
    <2>1. r \in Run /\ r.packet = job[j].packet
      BY <1>0, RunTypes DEF Run, Record, Running
    <2>2. job' = [job EXCEPT ![j] = r] /\ job[j].pc \in Running
      BY <1>4 DEF ReuseIssue, Running
    <2> QED
      BY <1>0, <2>1, <2>2, OneRunChanges, RunTypes
  <1>5. ASSUME NEW j \in Jobs, CreateIssue(j) PROVE JobOK'
    <2> DEFINE r == [job[j] EXCEPT !.pc = "saveIssue", !.rec.issue = Len(issues) + 1]
    <2>1. Len(issues) + 1 \in Nat
      BY <1>0 DEF TypeOK
    <2>2. r \in Run /\ r.packet = job[j].packet
      BY <1>0, <2>1, RunTypes DEF Run, Record, Running
    <2>3. job' = [job EXCEPT ![j] = r] /\ job[j].pc \in Running
      BY <1>5 DEF CreateIssue, Running
    <2> QED
      BY <1>0, <2>2, <2>3, OneRunChanges, RunTypes
  <1>6. ASSUME NEW j \in Jobs, CreateThread(j) PROVE JobOK'
    <2> DEFINE r == [job[j] EXCEPT !.pc = "saveThread", !.rec.thread = Len(threads) + 1]
    <2>1. Len(threads) + 1 \in Nat
      BY <1>0 DEF TypeOK
    <2>2. r \in Run /\ r.packet = job[j].packet
      BY <1>0, <2>1, RunTypes DEF Run, Record, Running
    <2>3. job' = [job EXCEPT ![j] = r] /\ job[j].pc \in Running
      BY <1>6 DEF CreateThread, Running
    <2> QED
      BY <1>0, <2>2, <2>3, OneRunChanges, RunTypes
  <1>7. ASSUME NEW j \in Jobs, CommentIssue(j) PROVE JobOK'
    BY <1>7, <1>a DEF CommentIssue, Running
  <1>8. ASSUME NEW j \in Jobs, NEW from \in Running, NEW to \in Running, Checkpoint(j, from, to)
        PROVE JobOK'
    <2> DEFINE r == [job[j] EXCEPT !.pc = to, !.snap = Snapshot(j)]
    <2>1. r \in Run /\ r.packet = job[j].packet
      BY <1>0, <1>8, RunTypes DEF Run, Checkpoint
    <2>2. job' = [job EXCEPT ![j] = r] /\ job[j].pc \in Running
      BY <1>8 DEF Checkpoint
    <2> QED
      BY <1>0, <2>1, <2>2, OneRunChanges, RunTypes
  <1>9. ASSUME NEW j \in Jobs, CheckpointIssue(j) \/ CheckpointThread(j) \/ CheckpointComment(j)
        PROVE JobOK'
    <2>1. AfterIssue(job[j].rec) \in Running /\ {"saveIssue", "saveThread", "saveComment", "post", "finish"} \subseteq Running
      BY DEF AfterIssue, Running
    <2> QED
      BY <1>8, <1>9, <2>1 DEF CheckpointIssue, CheckpointThread, CheckpointComment
  <1>10. ASSUME NEW j \in Jobs, Finish(j) PROVE JobOK'
    <2>1. [NoRun EXCEPT !.pc = "done"].pc \notin Running
      BY DEF NoRun, Running
    <2> QED
      BY <1>0, <1>10, <2>1, NoRunType, OneRunChanges DEF Finish
  <1>11. ASSUME NEW j \in Jobs, Fail(j) PROVE JobOK'
    <2>1. [NoRun EXCEPT !.pc = "failed"].pc \notin Running
      BY DEF NoRun, Running
    <2> QED
      BY <1>0, <1>11, <2>1, NoRunType, OneRunChanges DEF Fail
  <1>12. CASE UNCHANGED job
    BY <1>0, <1>12 DEF JobOK
  <1> QED
    BY <1>1, <1>2, <1>3, <1>4, <1>5, <1>6, <1>7, <1>9, <1>10, <1>11, <1>12
       DEF Next, Step, vars, PostMessage, ReplaceDispatchLabel

(* The variables that are not part of a run keep their types.                *)
LEMMA StepTypeOK ==
  ASSUME OverlapInv, [Next]_vars
  PROVE  TypeOK'
  <1> USE DispatchAssumption
  <1>0. TypeOK /\ RunsGenuine /\ JobOK'
    BY StepJobOK DEF OverlapInv
  <1>1. stateFile' \in States /\ fileOk' \in BOOLEAN
    <2>1. ASSUME NEW j \in Jobs, NEW from \in Running, NEW to, Checkpoint(j, from, to)
          PROVE  stateFile' \in States /\ fileOk' \in BOOLEAN
      BY <1>0, <2>1, RunTypes DEF Checkpoint
    <2>2. ASSUME NEW j \in Jobs, CheckpointIssue(j) \/ CheckpointThread(j) \/ CheckpointComment(j)
          PROVE  stateFile' \in States /\ fileOk' \in BOOLEAN
      BY <2>1, <2>2 DEF CheckpointIssue, CheckpointThread, CheckpointComment, Running
    <2>3. ASSUME NEW j \in Jobs, Finish(j) PROVE stateFile' \in States /\ fileOk' \in BOOLEAN
      BY <1>0, <2>3, RunTypes DEF Finish, Running
    <2>4. ASSUME NEW j \in Jobs, Fail(j) PROVE stateFile' \in States /\ fileOk' \in BOOLEAN
      BY <1>0, <2>4 DEF Fail, TypeOK
    <2>5. CASE UNCHANGED <<stateFile, fileOk>>
      BY <1>0, <2>5 DEF TypeOK
    <2> QED
      BY <2>2, <2>3, <2>4, <2>5
         DEF Next, Step, vars, Load, RejectFile, Detect, ReuseIssue, CreateIssue, CreateThread,
             PostMessage, CommentIssue, ReplaceDispatchLabel
  <1>2. issues' \in Seq(Issue)
    <2>1. ASSUME NEW j \in Jobs, CreateIssue(j) PROVE issues' \in Seq(Issue)
      <3>1. NewIssue(job[j].packet) \in Issue
        BY <1>0, <2>1, RunTypes DEF CreateIssue, Running, NewIssue, Issue
      <3> QED
        BY <1>0, <2>1, <3>1 DEF CreateIssue, TypeOK
    <2>2. ASSUME NEW p \in Packets, ReplaceDispatchLabel(p) PROVE issues' \in Seq(Issue)
      <3> DEFINE i == stateFile[p].issue
                 e == [issues[i] EXCEPT !.queued = FALSE]
      <3>1. i \in 1..Len(issues)
        BY <1>0, <2>2 DEF OverlapInv, RecordedLinksExist, Genuine, ReplaceDispatchLabel, TypeOK
      <3>2. issues[i] \in Issue
        BY <1>0, <3>1 DEF TypeOK
      <3>3. e \in Issue
        BY <3>2 DEF Issue
      <3>4. issues' = [issues EXCEPT ![i] = e]
        BY <2>2 DEF ReplaceDispatchLabel
      <3> QED
        BY <1>0, <3>1, <3>3, <3>4, ExceptSeq DEF TypeOK
    <2>3. CASE UNCHANGED issues
      BY <1>0, <2>3 DEF TypeOK
    <2> QED
      BY <2>1, <2>2, <2>3
         DEF Next, Step, vars, Load, RejectFile, Detect, ReuseIssue, CreateThread, PostMessage,
             CommentIssue, CheckpointIssue, CheckpointThread, CheckpointComment, Checkpoint,
             Finish, Fail
  <1>3. threads' \in Seq(Thread)
    <2>1. ASSUME NEW j \in Jobs, CreateThread(j) PROVE threads' \in Seq(Thread)
      <3>1. NewThread(job[j].packet) \in Thread
        BY <1>0, <2>1, RunTypes DEF CreateThread, Running, NewThread, Thread
      <3> QED
        BY <1>0, <2>1, <3>1 DEF CreateThread, TypeOK
    <2>2. ASSUME NEW j \in Jobs, PostMessage(j) PROVE threads' \in Seq(Thread)
      <3> DEFINE t == job[j].rec.thread
                 e == [threads[t] EXCEPT !.posts = @ + 1]
      <3>1. t \in 1..Len(threads)
        BY <1>0, <2>2 DEF RunsGenuine, RunGenuine, Genuine, HasThread, Running, PostMessage, TypeOK
      <3>2. threads[t] \in Thread /\ threads[t].posts < MessageCount
        BY <1>0, <2>2, <3>1 DEF TypeOK, PostMessage
      <3>3. e \in Thread
        BY <3>2 DEF Thread
      <3>4. threads' = [threads EXCEPT ![t] = e]
        BY <2>2 DEF PostMessage
      <3> QED
        BY <1>0, <3>1, <3>3, <3>4, ExceptSeq DEF TypeOK
    <2>3. ASSUME NEW j \in Jobs, CommentIssue(j) PROVE threads' \in Seq(Thread)
      <3> DEFINE t == job[j].rec.thread
                 e == [threads[t] EXCEPT !.linked = TRUE]
      <3>1. t \in 1..Len(threads)
        BY <1>0, <2>3 DEF RunsGenuine, RunGenuine, Genuine, HasThread, Running, CommentIssue, TypeOK
      <3>2. threads[t] \in Thread
        BY <1>0, <3>1 DEF TypeOK
      <3>3. e \in Thread
        BY <3>2 DEF Thread
      <3>4. threads' = [threads EXCEPT ![t] = e]
        BY <2>3 DEF CommentIssue
      <3> QED
        BY <1>0, <3>1, <3>3, <3>4, ExceptSeq DEF TypeOK
    <2>4. CASE UNCHANGED threads
      BY <1>0, <2>4 DEF TypeOK
    <2> QED
      BY <2>1, <2>2, <2>3, <2>4
         DEF Next, Step, vars, Load, RejectFile, Detect, ReuseIssue, CreateIssue,
             CheckpointIssue, CheckpointThread, CheckpointComment, Checkpoint,
             Finish, Fail, ReplaceDispatchLabel
  <1>4. orphans' \subseteq DOMAIN threads' /\ muted' \subseteq DOMAIN threads' /\ faults' \in 0..MaxFaults
    <2>0. DOMAIN threads \subseteq DOMAIN threads'
      BY <1>0, StepGrows DEF Growing
    <2>1. ASSUME NEW j \in Jobs, Fail(j)
          PROVE  orphans' \subseteq DOMAIN threads /\ muted' \subseteq DOMAIN threads /\ faults' \in 0..MaxFaults
      <3>1. job[j].pc \in {"saveThread", "post"} => job[j].rec.thread \in DOMAIN threads
        BY <1>0, <2>1 DEF RunsGenuine, RunGenuine, Genuine, HasThread, Running
      <3>2. faults' \in 0..MaxFaults
        BY <1>0, <2>1 DEF Fail, TypeOK
      <3> QED
        BY <1>0, <2>1, <3>1, <3>2 DEF Fail, TypeOK
    <2>2. CASE UNCHANGED <<orphans, muted, faults>>
      BY <1>0, <2>0, <2>2 DEF TypeOK
    <2> QED
      BY <2>0, <2>1, <2>2
         DEF Next, Step, vars, Load, RejectFile, Detect, ReuseIssue, CreateIssue, CreateThread,
             PostMessage, CommentIssue, CheckpointIssue, CheckpointThread, CheckpointComment,
             Checkpoint, Finish, ReplaceDispatchLabel
  <1> QED
    BY <1>0, <1>1, <1>2, <1>3, <1>4 DEF TypeOK, JobOK

(* A checkpoint moves genuine ids from a run to the file.                    *)
LEMMA SnapshotGenuine ==
  ASSUME OverlapInv, Growing, NEW j \in Jobs, job[j].pc \in Running, NEW p \in Packets
  PROVE  \A r : r = Snapshot(j)[p] => Genuine(p, r)'
  <1>1. TypeOK /\ RunGenuine(job[j])
    BY DEF OverlapInv, RunsGenuine
  <1>2. job[j].snap \in States
    BY <1>1, RunTypes
  <1>3. Genuine(p, Snapshot(j)[p])
    BY <1>1, <1>2 DEF Snapshot, RunGenuine, States
  <1> QED
    BY <1>3, GenuineStable

(* Every write of the state file holds genuine ids only.                     *)
LEMMA StepRecordedLinksExist ==
  ASSUME OverlapInv, [Next]_vars
  PROVE  RecordedLinksExist'
  <1>0. TypeOK /\ RecordedLinksExist /\ Growing
    BY StepGrows DEF OverlapInv
  <1>1. ASSUME NEW j \in Jobs, job[j].pc \in Running, stateFile' = Snapshot(j)
        PROVE  RecordedLinksExist'
    BY <1>0, <1>1, SnapshotGenuine DEF RecordedLinksExist
  <1>2. CASE UNCHANGED stateFile
    BY <1>0, <1>2, GenuineStable DEF RecordedLinksExist
  <1> QED
    BY <1>1, <1>2
       DEF Next, Step, vars, Load, RejectFile, Detect, ReuseIssue, CreateIssue, CreateThread,
           PostMessage, CommentIssue, CheckpointIssue, CheckpointThread, CheckpointComment,
           Checkpoint, Finish, Fail, ReplaceDispatchLabel, Running

(* It is enough to look at the slot whose run takes the step.                *)
LEMMA OtherRunsGenuine ==
  ASSUME RunsGenuine, Growing, NEW j \in Jobs,
         \A k \in Jobs \ {j} : job'[k] = job[k],
         job'[j].pc \in Running => RunGenuine(job[j])'
  PROVE  RunsGenuine'
  <1> SUFFICES ASSUME NEW k \in Jobs, job'[k].pc \in Running PROVE RunGenuine(job[k])'
    BY DEF RunsGenuine
  <1>1. CASE k # j
    <2>1. job'[k] = job[k] /\ RunGenuine(job[k])
      BY <1>1 DEF RunsGenuine
    <2>2. \A r : RunGenuine(r) => RunGenuine(r)'
      BY GenuineStable DEF RunGenuine, Growing
    <2> QED
      BY <2>1, <2>2
  <1> QED
    BY <1>1

(* A run only ever holds ids that it read from a genuine record, found by    *)
(* title in the ledger, or just received for what it created.                *)
LEMMA StepRunsGenuine ==
  ASSUME OverlapInv, [Next]_vars
  PROVE  RunsGenuine'
  <1>0. TypeOK /\ RecordedLinksExist /\ RunsGenuine /\ Growing
    BY StepGrows DEF OverlapInv
  <1> USE DEF HasIssue, HasThread
  <1>a. ASSUME NEW j \in Jobs, job[j].pc \in Running
        PROVE  \A p \in Packets : \A r : r = job[j].snap[p] => Genuine(p, r)'
    BY <1>0, <1>a, GenuineStable DEF RunsGenuine, RunGenuine
  <1>b. ASSUME NEW j \in Jobs, job[j].pc \in Running
        PROVE  \A p, r : p = job[j].packet /\ r = job[j].rec => Genuine(p, r)'
    BY <1>0, <1>b, GenuineStable DEF RunsGenuine, RunGenuine
  <1>1. ASSUME NEW j \in Jobs, NEW p \in Packets, Load(j, p) PROVE RunsGenuine'
    <2>1. RunGenuine(job[j])'
      BY <1>0, <1>1 DEF Load, TypeOK, RunGenuine, RecordedLinksExist, Genuine
    <2>2. \A k \in Jobs \ {j} : job'[k] = job[k]
      BY <1>0, <1>1 DEF Load, TypeOK
    <2> QED
      BY <1>0, <2>1, <2>2, OtherRunsGenuine
  <1>2. ASSUME NEW j \in Jobs,
               \/ RejectFile(j) /\ job' = [job EXCEPT ![j].pc = "failed"]
               \/ Finish(j) /\ job' = [job EXCEPT ![j] = [NoRun EXCEPT !.pc = "done"]]
               \/ Fail(j) /\ job' = [job EXCEPT ![j] = [NoRun EXCEPT !.pc = "failed"]]
        PROVE  RunsGenuine'
    <2>1. job'[j].pc \notin Running
      BY <1>0, <1>2 DEF TypeOK, NoRun, Running, Run
    <2>2. \A k \in Jobs \ {j} : job'[k] = job[k]
      BY <1>0, <1>2 DEF TypeOK
    <2> QED
      BY <1>0, <2>1, <2>2, OtherRunsGenuine
  <1>3. ASSUME NEW j \in Jobs, Detect(j) PROVE RunsGenuine'
    <2>1. job[j].pc = "detect" /\ RunGenuine(job[j]) /\ job[j] \in Run
      BY <1>0, <1>3, RunTypes DEF Detect, RunsGenuine, Running
    <2>2. /\ job'[j].snap = job[j].snap /\ job'[j].rec = job[j].rec
          /\ job'[j].packet = job[j].packet
          /\ job'[j].pc = AfterDetect(job[j].rec)
          /\ job'[j].match = job[j].match \/ job'[j].match \in Hits(job[j].packet)
      BY <1>0, <1>3, <2>1 DEF Detect, TypeOK, Run
    <2>3. job'[j].match # 0 => job'[j].match \in DOMAIN issues /\ issues[job'[j].match].packet = job[j].packet
      BY <2>1, <2>2 DEF Hits, RunGenuine
    <2>4. RunGenuine(job[j])'
      BY <1>0, <1>a, <1>b, <2>1, <2>2, <2>3 DEF Growing, RunGenuine, Genuine, AfterDetect, AfterIssue, Running
    <2>5. \A k \in Jobs \ {j} : job'[k] = job[k]
      BY <1>0, <1>3 DEF Detect, TypeOK
    <2> QED
      BY <1>0, <2>4, <2>5, OtherRunsGenuine
  <1>4. ASSUME NEW j \in Jobs, ReuseIssue(j) PROVE RunsGenuine'
    <2>1. RunGenuine(job[j]) /\ job[j] \in Run /\ job[j].match # 0 /\ job[j].pc \in Running
      BY <1>0, <1>4, RunTypes DEF ReuseIssue, RunsGenuine, Running
    <2>2. /\ job'[j].snap = job[j].snap /\ job'[j].rec.issue = job[j].match
          /\ job'[j].rec.thread = job[j].rec.thread
          /\ job'[j].packet = job[j].packet /\ job'[j].match = job[j].match
          /\ job'[j].pc = "saveIssue"
      BY <1>0, <1>4, <2>1 DEF ReuseIssue, TypeOK, Run, Record
    <2>3. RunGenuine(job[j])'
      BY <1>0, <1>a, <1>b, <2>1, <2>2 DEF Growing, RunGenuine, Genuine
    <2>4. \A k \in Jobs \ {j} : job'[k] = job[k]
      BY <1>0, <1>4 DEF ReuseIssue, TypeOK
    <2> QED
      BY <1>0, <2>3, <2>4, OtherRunsGenuine
  <1>5. ASSUME NEW j \in Jobs, CreateIssue(j) PROVE RunsGenuine'
    <2>1. RunGenuine(job[j]) /\ job[j] \in Run /\ job[j].match = 0 /\ job[j].pc \in Running
      BY <1>0, <1>5, RunTypes DEF CreateIssue, RunsGenuine, Running
    <2>2. /\ job'[j].snap = job[j].snap /\ job'[j].rec.issue = Len(issues) + 1
          /\ job'[j].rec.thread = job[j].rec.thread
          /\ job'[j].packet = job[j].packet /\ job'[j].match = job[j].match
          /\ job'[j].pc = "saveIssue"
      BY <1>0, <1>5, <2>1 DEF CreateIssue, TypeOK, Run, Record
    <2>3. Len(issues) + 1 \in DOMAIN issues' /\ issues'[Len(issues) + 1].packet = job[j].packet
          /\ Len(issues) + 1 # 0
      BY <1>0, <1>5 DEF CreateIssue, TypeOK, NewIssue
    <2>4. RunGenuine(job[j])'
      BY <1>0, <1>a, <1>b, <2>1, <2>2, <2>3 DEF Growing, RunGenuine, Genuine
    <2>5. \A k \in Jobs \ {j} : job'[k] = job[k]
      BY <1>0, <1>5 DEF CreateIssue, TypeOK
    <2> QED
      BY <1>0, <2>4, <2>5, OtherRunsGenuine
  <1>6. ASSUME NEW j \in Jobs, CreateThread(j) PROVE RunsGenuine'
    <2>1. RunGenuine(job[j]) /\ job[j] \in Run /\ job[j].pc = "thread" /\ job[j].pc \in Running
      BY <1>0, <1>6, RunTypes DEF CreateThread, RunsGenuine, Running
    <2>2. /\ job'[j].snap = job[j].snap /\ job'[j].rec.thread = Len(threads) + 1
          /\ job'[j].rec.issue = job[j].rec.issue
          /\ job'[j].packet = job[j].packet /\ job'[j].match = job[j].match
          /\ job'[j].pc = "saveThread"
      BY <1>0, <1>6, <2>1 DEF CreateThread, TypeOK, Run, Record
    <2>3. Len(threads) + 1 \in DOMAIN threads' /\ threads'[Len(threads) + 1].packet = job[j].packet
          /\ Len(threads) + 1 # 0
      BY <1>0, <1>6 DEF CreateThread, TypeOK, NewThread
    <2>4. RunGenuine(job[j])'
      BY <1>0, <1>a, <1>b, <2>1, <2>2, <2>3 DEF Growing, RunGenuine, Genuine
    <2>5. \A k \in Jobs \ {j} : job'[k] = job[k]
      BY <1>0, <1>6 DEF CreateThread, TypeOK
    <2> QED
      BY <1>0, <2>4, <2>5, OtherRunsGenuine
  <1>7. ASSUME NEW j \in Jobs, CommentIssue(j) PROVE RunsGenuine'
    <2>1. RunGenuine(job[j]) /\ job[j] \in Run /\ job[j].pc = "post" /\ job[j].pc \in Running
      BY <1>0, <1>7, RunTypes DEF CommentIssue, RunsGenuine, Running
    <2>2. /\ job'[j].snap = job[j].snap /\ job'[j].rec = job[j].rec
          /\ job'[j].packet = job[j].packet /\ job'[j].match = job[j].match
          /\ job'[j].pc = "saveComment"
      BY <1>0, <1>7, <2>1 DEF CommentIssue, TypeOK, Run
    <2>3. RunGenuine(job[j])'
      BY <1>0, <1>a, <1>b, <2>1, <2>2 DEF Growing, RunGenuine, Genuine
    <2>4. \A k \in Jobs \ {j} : job'[k] = job[k]
      BY <1>0, <1>7 DEF CommentIssue, TypeOK
    <2> QED
      BY <1>0, <2>3, <2>4, OtherRunsGenuine
  <1>8. ASSUME NEW j \in Jobs, CheckpointIssue(j) \/ CheckpointThread(j) \/ CheckpointComment(j)
        PROVE  RunsGenuine'
    <2>1. RunGenuine(job[j]) /\ job[j] \in Run /\ job[j].pc \in Running
      BY <1>0, <1>8, RunTypes
         DEF CheckpointIssue, CheckpointThread, CheckpointComment, Checkpoint, RunsGenuine, Running
    <2>2. /\ job'[j].snap = Snapshot(j) /\ job'[j].rec = job[j].rec
          /\ job'[j].packet = job[j].packet /\ job'[j].match = job[j].match
          /\ job[j].pc \in HasIssue
          /\ job'[j].pc \in HasThread => job[j].rec.thread # 0
      BY <1>0, <1>8, <2>1
         DEF CheckpointIssue, CheckpointThread, CheckpointComment, Checkpoint, AfterIssue,
             TypeOK, Run, RunGenuine
    <2>3. \A p \in Packets : Genuine(p, job[j].snap[p])'
      BY <1>0, <2>1, <2>2, SnapshotGenuine
    <2>4. RunGenuine(job[j])'
      BY <1>0, <1>b, <2>1, <2>2, <2>3 DEF Growing, RunGenuine, Genuine
    <2>5. \A k \in Jobs \ {j} : job'[k] = job[k]
      BY <1>0, <1>8 DEF CheckpointIssue, CheckpointThread, CheckpointComment, Checkpoint, TypeOK
    <2> QED
      BY <1>0, <2>4, <2>5, OtherRunsGenuine
  <1>9. CASE UNCHANGED job
    BY <1>0, <1>9, GenuineStable DEF RunsGenuine, RunGenuine, Growing
  <1> QED
    BY <1>1, <1>2, <1>3, <1>4, <1>5, <1>6, <1>7, <1>8, <1>9
       DEF Next, Step, vars, PostMessage, ReplaceDispatchLabel, RejectFile, Finish, Fail

-----------------------------------------------------------------------------
(* OverlapInv holds in every reachable state, whatever runs overlap.         *)
THEOREM OverlapInvariant == OverlapSpec => []OverlapInv
  <1>1. Init => OverlapInv
    BY InitOverlapInv
  <1>2. OverlapInv /\ [Next]_vars => OverlapInv'
    BY StepTypeOK, StepRecordedLinksExist, StepRunsGenuine DEF OverlapInv
  <1> QED
    BY <1>1, <1>2, PTL DEF OverlapSpec

(* Every variable has its type: the ids in the observations are threads that *)
(* exist, and no thread gets more than its routing messages.                 *)
THEOREM DispatchTypeOK == OverlapSpec => []TypeOK
  BY OverlapInvariant, PTL DEF OverlapInv

(* apply_dispatch never writes an id that does not exist or that belongs to  *)
(* another packet, however many runs share the state file.                   *)
THEOREM DispatchLinksExist == OverlapSpec => []RecordedLinksExist
  BY OverlapInvariant, PTL DEF OverlapInv

(* A run that ends with status 0 has just saved an issue and a thread.       *)
THEOREM DispatchDoneMeansComplete == OverlapSpec => DoneMeansComplete
  <1> DEFINE A == \A j \in Jobs :
                    job[j].pc \in Running /\ job'[j].pc = "done" =>
                      /\ stateFile'[job[j].packet].issue # 0
                      /\ stateFile'[job[j].packet].thread # 0
  <1>1. OverlapInv /\ [Next]_vars => [A]_vars
    <2> SUFFICES ASSUME OverlapInv, Next, NEW j \in Jobs,
                        job[j].pc \in Running, job'[j].pc = "done"
                 PROVE  /\ stateFile'[job[j].packet].issue # 0
                        /\ stateFile'[job[j].packet].thread # 0
      OBVIOUS
    <2>0. TypeOK /\ RunGenuine(job[j]) /\ job[j] \in Run /\ job[j].packet \in Packets
          /\ job[j].snap \in States
      BY RunTypes DEF OverlapInv, RunsGenuine
    <2>1. ASSUME NEW k \in Jobs, job' = [job EXCEPT ![k].pc = "failed"] PROVE FALSE
      BY <2>0, <2>1 DEF TypeOK, Run, Running
    <2>2. ASSUME NEW k \in Jobs, NEW pc \in Running, job[k] \in Run,
                 job'[k].pc = pc, \A l \in Jobs \ {k} : job'[l] = job[l]
          PROVE  FALSE
      BY <2>2 DEF Running
    <2>3. Finish(j)
      <3>1. ASSUME NEW k \in Jobs, Fail(k) PROVE FALSE
        <4>1. job' = [job EXCEPT ![k] = [NoRun EXCEPT !.pc = "failed"]]
          BY <3>1 DEF Fail
        <4> QED
          BY <2>0, <4>1 DEF TypeOK, NoRun, Running
      <3>2. ASSUME NEW k \in Jobs, NEW p \in Packets, Load(k, p) PROVE FALSE
        BY <2>0, <3>2, <2>2, RunTypes DEF Load, TypeOK, Running
      <3>3. ASSUME NEW k \in Jobs, Detect(k) PROVE FALSE
        <4>1. AfterDetect(job[k].rec) \in Running
          BY DEF AfterDetect, AfterIssue, Running
        <4> QED
          BY <2>0, <3>3, <4>1, <2>2, RunTypes DEF Detect, TypeOK, Run
      <3>4. ASSUME NEW k \in Jobs, ReuseIssue(k) \/ CreateIssue(k) PROVE FALSE
        BY <2>0, <3>4, <2>2, RunTypes DEF ReuseIssue, CreateIssue, TypeOK, Run, Running
      <3>5. ASSUME NEW k \in Jobs, CreateThread(k) \/ CommentIssue(k) PROVE FALSE
        BY <2>0, <3>5, <2>2, RunTypes DEF CreateThread, CommentIssue, TypeOK, Run, Running
      <3>6. ASSUME NEW k \in Jobs, CheckpointIssue(k) \/ CheckpointThread(k) \/ CheckpointComment(k)
            PROVE FALSE
        <4>1. AfterIssue(job[k].rec) \in Running
          BY DEF AfterIssue, Running
        <4> QED
          BY <2>0, <3>6, <4>1, <2>2, RunTypes
             DEF CheckpointIssue, CheckpointThread, CheckpointComment, Checkpoint, TypeOK, Run, Running
      <3>7. ASSUME NEW k \in Jobs, Finish(k) PROVE k = j
        BY <2>0, <3>7 DEF Finish, TypeOK, Running
      <3>8. ASSUME UNCHANGED job PROVE FALSE
        BY <3>8 DEF Running
      <3>9. ASSUME NEW k \in Jobs, RejectFile(k) PROVE FALSE
        BY <2>1, <3>9 DEF RejectFile
      <3> QED
        BY <3>1, <3>2, <3>3, <3>4, <3>5, <3>6, <3>7, <3>8, <3>9
           DEF Next, Step, PostMessage, ReplaceDispatchLabel
    <2>4. stateFile'[job[j].packet] = job[j].rec
      BY <2>0, <2>3 DEF Finish, Snapshot, States
    <2> QED
      BY <2>0, <2>3, <2>4 DEF Finish, RunGenuine, HasIssue, HasThread
  <1> QED
    BY <1>1, OverlapInvariant, PTL DEF OverlapSpec, DoneMeansComplete

-----------------------------------------------------------------------------
(* Runs one after the other.  While a run is in progress the file changes    *)
(* only by its own checkpoints, so its snapshot is the file, and its record  *)
(* differs from the file's only between an external write and the checkpoint *)
(* that follows it.                                                          *)
SerialRun(r) ==
    /\ r.snap = stateFile
    /\ IF r.pc = "saveIssue" THEN stateFile[r.packet].issue = 0
                             ELSE r.rec.issue = stateFile[r.packet].issue
    /\ IF r.pc = "saveThread" THEN stateFile[r.packet].thread = 0
                              ELSE r.rec.thread = stateFile[r.packet].thread
    /\ r.pc = "issue" => r.rec.issue = 0
    /\ r.pc = "thread" => r.rec.thread = 0

SerialRuns == \A j \in Jobs : job[j].pc \in Running => SerialRun(job[j])

OneRuns == \A j, k \in Jobs : job[j].pc \in Running /\ job[k].pc \in Running => j = k

(* An issue without the creation label is on record, so the duplicate query, *)
(* which asks for that label, misses no issue that is not.                   *)
UnqueuedRecorded ==
    \A i \in DOMAIN issues : ~issues[i].queued => stateFile[issues[i].packet].issue = i

(* A thread is on record, or its creator is about to record it, or orphaned. *)
ThreadsHeld ==
    \A t \in DOMAIN threads \ orphans :
        \/ stateFile[threads[t].packet].thread = t
        \/ \E j \in Jobs : /\ job[j].pc = "saveThread"
                           /\ job[j].packet = threads[t].packet
                           /\ job[j].rec.thread = t

SerialInv ==
    /\ OverlapInv
    /\ OneRuns
    /\ SerialRuns
    /\ UnqueuedRecorded
    /\ ThreadsHeld
    /\ RecordedThreadAnnounced
    /\ Len(issues) <= MaxIssues

LEMMA SequentialIsOverlap == SequentialSpec => OverlapSpec
  <1>1. [SequentialNext]_vars => [Next]_vars
    BY DEF SequentialNext, Next
  <1> QED
    BY <1>1, PTL DEF SequentialSpec, OverlapSpec

LEMMA InitSerialInv == Init => SerialInv
  <1> SUFFICES ASSUME Init PROVE SerialInv
    OBVIOUS
  <1>1. OverlapInv
    BY InitOverlapInv
  <1>2. \A j \in Jobs : job[j].pc \notin Running /\ job[j].pc # "saveThread"
    BY DEF Init, NoRun, Running
  <1> QED
    BY <1>1, <1>2, DispatchAssumption DEF Init, SerialInv, OneRuns, SerialRuns, UnqueuedRecorded,
       ThreadsHeld, RecordedThreadAnnounced, EmptyRecord

(* What a run that is in progress knows.                                     *)
LEMMA Known ==
  ASSUME SerialInv, NEW j \in Jobs, job[j].pc \in Running
  PROVE  /\ SerialRun(job[j]) /\ RunGenuine(job[j])
         /\ job[j] \in Run /\ job[j].packet \in Packets /\ job[j].rec \in Record
         /\ stateFile \in States
         /\ TypeOK /\ RecordedLinksExist
         /\ \A k \in Jobs \ {j} : job[k].pc \notin Running
         /\ Snapshot(j) = [stateFile EXCEPT ![job[j].packet] = job[j].rec]
  BY RunTypes DEF SerialInv, SerialRuns, SerialRun, OverlapInv, RunsGenuine, OneRuns, TypeOK, Snapshot

(* A step records an issue or a thread where there was none, or leaves the   *)
(* ids of the file as they are.                                              *)
IssueRecorded(j, p) ==
    /\ job[j].pc = "saveIssue"
    /\ p = job[j].packet
    /\ CheckpointIssue(j)
    /\ stateFile[p].issue = 0
    /\ stateFile'[p].issue = job[j].rec.issue

ThreadRecorded(j, p) ==
    /\ job[j].pc = "saveThread"
    /\ p = job[j].packet
    /\ CheckpointThread(j)
    /\ stateFile[p].thread = 0
    /\ stateFile'[p].thread = job[j].rec.thread

LEMMA FileStep ==
  ASSUME SerialInv, [SequentialNext]_vars, NEW p \in Packets
  PROVE  /\ stateFile'[p].issue = stateFile[p].issue \/ \E j \in Jobs : IssueRecorded(j, p)
         /\ stateFile'[p].thread = stateFile[p].thread \/ \E j \in Jobs : ThreadRecorded(j, p)
  <1>1. ASSUME NEW j \in Jobs, CheckpointIssue(j)
        PROVE  /\ stateFile'[p].issue = stateFile[p].issue \/ IssueRecorded(j, p)
               /\ stateFile'[p].thread = stateFile[p].thread
    <2>1. job[j].pc = "saveIssue" /\ stateFile' = Snapshot(j) /\ job[j].pc \in Running
      BY <1>1 DEF CheckpointIssue, Checkpoint, Running
    <2> QED
      BY <1>1, <2>1, Known DEF SerialRun, IssueRecorded, States
  <1>2. ASSUME NEW j \in Jobs, CheckpointThread(j)
        PROVE  /\ stateFile'[p].issue = stateFile[p].issue
               /\ stateFile'[p].thread = stateFile[p].thread \/ ThreadRecorded(j, p)
    <2>1. job[j].pc = "saveThread" /\ stateFile' = Snapshot(j) /\ job[j].pc \in Running
      BY <1>2 DEF CheckpointThread, Checkpoint, Running
    <2> QED
      BY <1>2, <2>1, Known DEF SerialRun, ThreadRecorded, States
  <1>3. ASSUME NEW j \in Jobs, CheckpointComment(j) \/ Finish(j)
        PROVE  /\ stateFile'[p].issue = stateFile[p].issue
               /\ stateFile'[p].thread = stateFile[p].thread
    <2>1. job[j].pc \in {"saveComment", "finish"} /\ stateFile' = Snapshot(j) /\ job[j].pc \in Running
      BY <1>3 DEF CheckpointComment, Checkpoint, Finish, Running
    <2> QED
      BY <2>1, Known DEF SerialRun, States
  <1>4. CASE UNCHANGED stateFile
    BY <1>4
  <1> QED
    BY <1>1, <1>2, <1>3, <1>4
       DEF SequentialNext, Step, vars, Load, RejectFile, Detect, ReuseIssue, CreateIssue,
           CreateThread, PostMessage, CommentIssue, Fail, ReplaceDispatchLabel

(* At most one run is in progress.                                           *)
LEMMA StepOneRuns ==
  ASSUME SerialInv, [SequentialNext]_vars
  PROVE  OneRuns'
  <1>0. TypeOK /\ OneRuns
    BY DEF SerialInv, OverlapInv
  <1>1. ASSUME NEW j \in Jobs, NEW p \in Packets, NoneRunning, Load(j, p) PROVE OneRuns'
    <2>1. \A k \in Jobs \ {j} : job'[k] = job[k] /\ job[k].pc \in Resting
      BY <1>0, <1>1 DEF Load, NoneRunning, TypeOK
    <2> QED
      BY <2>1 DEF OneRuns, Running, Resting
  <1>2. ASSUME NEW j \in Jobs, job[j].pc \in Running, \A k \in Jobs \ {j} : job'[k] = job[k]
        PROVE  OneRuns'
    BY <1>0, <1>2 DEF OneRuns
  <1>3. ASSUME NEW j \in Jobs, RejectFile(j) PROVE OneRuns'
    <2>1. job'[j].pc = "failed" /\ \A k \in Jobs \ {j} : job'[k] = job[k]
      BY <1>0, <1>3, RunTypes DEF RejectFile, TypeOK, Run
    <2> QED
      BY <1>0, <2>1 DEF OneRuns, Running
  <1>4. ASSUME NEW j \in Jobs, Step(j) \/ Fail(j)
        PROVE  (job[j].pc \in Running /\ \A k \in Jobs \ {j} : job'[k] = job[k])
    BY <1>0, <1>4
       DEF Step, Detect, ReuseIssue, CreateIssue, CreateThread, PostMessage, CommentIssue,
           CheckpointIssue, CheckpointThread, CheckpointComment, Checkpoint, Finish, Fail,
           TypeOK, Running
  <1>5. CASE UNCHANGED job
    BY <1>0, <1>5 DEF OneRuns
  <1> QED
    BY <1>1, <1>2, <1>3, <1>4, <1>5 DEF SequentialNext, vars, ReplaceDispatchLabel

(* When the query's page is as large as the ledger, it sees every issue of   *)
(* the packet that still carries the creation label.                         *)
LEMMA WindowCoversLedger ==
  ASSUME TypeOK, Len(issues) <= MaxIssues, MaxIssues <= DetectWindow,
         NEW i \in DOMAIN issues, issues[i].queued
  PROVE  i \in Hits(issues[i].packet)
  <1> USE DispatchAssumption
  <1> DEFINE K == {k \in DOMAIN issues : k > i /\ issues[k].queued}
             I == (i + 1)..Len(issues)
  <1>1. i \in Nat /\ i >= 1 /\ i <= Len(issues) /\ Len(issues) \in Nat
    BY DEF TypeOK
  <1>2. K \subseteq I
    BY <1>1 DEF TypeOK
  <1>3. IsFiniteSet(I) /\ Cardinality(I) = IF i + 1 > Len(issues) THEN 0 ELSE Len(issues) - (i + 1) + 1
    <2>1. i + 1 \in Int /\ Len(issues) \in Int
      BY <1>1
    <2>2. \A a, b \in Int : IsFiniteSet(a..b) /\ Cardinality(a..b) = IF a > b THEN 0 ELSE b - a + 1
      BY FS_Interval
    <2> QED
      BY <2>1, <2>2
  <1>4. IsFiniteSet(K) /\ Cardinality(K) <= Cardinality(I)
    BY <1>2, <1>3, FS_Subset
  <1>5. Cardinality(K) \in Nat
    BY <1>4, FS_CardinalityType
  <1>6. Cardinality(K) < DetectWindow
    BY <1>1, <1>3, <1>4, <1>5
  <1> QED
    BY <1>6 DEF Hits

(* An issue of a packet without a recorded issue is found by the query.      *)
LEMMA UnrecordedIssueFound ==
  ASSUME SerialInv, MaxIssues <= DetectWindow,
         NEW i \in DOMAIN issues, stateFile[issues[i].packet].issue = 0
  PROVE  i \in Hits(issues[i].packet)
  <1>1. i # 0 /\ issues[i].queued \in BOOLEAN
    <2>1. issues[i] \in Issue /\ i \in 1..Len(issues)
      BY DEF SerialInv, OverlapInv, TypeOK
    <2> QED
      BY <2>1 DEF Issue
  <1>2. issues[i].queued
    BY <1>1 DEF SerialInv, UnqueuedRecorded
  <1> QED
    BY <1>2, WindowCoversLedger DEF SerialInv, OverlapInv

(* The one run in progress keeps its snapshot equal to the file.             *)
LEMMA StepSerialRuns ==
  ASSUME SerialInv, [SequentialNext]_vars
  PROVE  SerialRuns'
  <1>0. TypeOK
    BY DEF SerialInv, OverlapInv
  <1>a. ASSUME NEW j \in Jobs, job[j].pc \in Running, \A k \in Jobs \ {j} : job'[k] = job[k],
               job'[j].pc \in Running => SerialRun(job[j])'
        PROVE  SerialRuns'
    BY <1>a, Known DEF SerialRuns
  <1>1. ASSUME NEW j \in Jobs, NEW p \in Packets, NoneRunning, Load(j, p) PROVE SerialRuns'
    <2>1. \A k \in Jobs \ {j} : job'[k].pc \notin Running
      BY <1>0, <1>1 DEF Load, NoneRunning, TypeOK, Running, Resting
    <2>2. SerialRun(job[j])'
      BY <1>0, <1>1 DEF Load, TypeOK, SerialRun
    <2> QED
      BY <2>1, <2>2 DEF SerialRuns
  <1>2. ASSUME NEW j \in Jobs, RejectFile(j) PROVE SerialRuns'
    <2>1. job'[j].pc = "failed" /\ \A k \in Jobs \ {j} : job'[k] = job[k]
      BY <1>0, <1>2, RunTypes DEF RejectFile, TypeOK, Run
    <2> QED
      BY <1>2, <2>1 DEF RejectFile, SerialInv, SerialRuns, SerialRun, Running
  <1>3. ASSUME NEW j \in Jobs, Detect(j) PROVE SerialRuns'
    <2>1. job[j].pc = "detect" /\ job[j].pc \in Running /\ UNCHANGED <<stateFile, issues>>
      BY <1>3 DEF Detect, Running
    <2>2. /\ job'[j].snap = job[j].snap /\ job'[j].rec = job[j].rec
          /\ job'[j].packet = job[j].packet
          /\ job'[j].pc = AfterDetect(job[j].rec)
          /\ \A k \in Jobs \ {j} : job'[k] = job[k]
      BY <1>0, <1>3, <2>1, Known DEF Detect, TypeOK, Run
    <2>3. SerialRun(job[j])'
      BY <2>1, <2>2, Known DEF AfterDetect, AfterIssue, SerialRun
    <2> QED
      BY <1>a, <2>1, <2>2, <2>3
  <1>4. ASSUME NEW j \in Jobs, ReuseIssue(j) \/ CreateIssue(j) PROVE SerialRuns'
    <2>1. job[j].pc = "issue" /\ job[j].pc \in Running /\ UNCHANGED stateFile
      BY <1>4 DEF ReuseIssue, CreateIssue, Running
    <2>2. /\ job'[j].snap = job[j].snap /\ job'[j].rec.thread = job[j].rec.thread
          /\ job'[j].packet = job[j].packet
          /\ job'[j].pc = "saveIssue"
          /\ \A k \in Jobs \ {j} : job'[k] = job[k]
      <3>1. CASE ReuseIssue(j)
        BY <1>0, <3>1, <2>1, Known DEF ReuseIssue, TypeOK, Run, Record
      <3>2. CASE CreateIssue(j)
        BY <1>0, <3>2, <2>1, Known DEF CreateIssue, TypeOK, Run, Record
      <3> QED
        BY <1>4, <3>1, <3>2
    <2>4. SerialRun(job[j])'
      BY <2>1, <2>2, Known DEF SerialRun
    <2> QED
      BY <1>a, <2>1, <2>2, <2>4
  <1>5. ASSUME NEW j \in Jobs, CreateThread(j) PROVE SerialRuns'
    <2>1. job[j].pc = "thread" /\ job[j].pc \in Running /\ UNCHANGED stateFile
      BY <1>5 DEF CreateThread, Running
    <2>2. /\ job'[j].snap = job[j].snap /\ job'[j].rec.issue = job[j].rec.issue
          /\ job'[j].packet = job[j].packet
          /\ job'[j].pc = "saveThread"
          /\ \A k \in Jobs \ {j} : job'[k] = job[k]
      BY <1>0, <1>5, <2>1, Known DEF CreateThread, TypeOK, Run, Record
    <2>4. SerialRun(job[j])'
      BY <2>1, <2>2, Known DEF SerialRun
    <2> QED
      BY <1>a, <2>1, <2>2, <2>4
  <1>6. ASSUME NEW j \in Jobs, CommentIssue(j) \/ PostMessage(j) PROVE SerialRuns'
    <2>1. job[j].pc = "post" /\ job[j].pc \in Running /\ UNCHANGED stateFile
      BY <1>6 DEF CommentIssue, PostMessage, Running
    <2>2. /\ job'[j].snap = job[j].snap /\ job'[j].rec = job[j].rec
          /\ job'[j].packet = job[j].packet
          /\ job'[j].pc \in {"post", "saveComment"}
          /\ \A k \in Jobs \ {j} : job'[k] = job[k]
      BY <1>0, <1>6, <2>1, Known DEF CommentIssue, PostMessage, TypeOK, Run
    <2>4. SerialRun(job[j])'
      BY <2>1, <2>2, Known DEF SerialRun
    <2> QED
      BY <1>a, <2>1, <2>2, <2>4
  <1>7. ASSUME NEW j \in Jobs, CheckpointIssue(j) \/ CheckpointThread(j) \/ CheckpointComment(j)
        PROVE  SerialRuns'
    <2>1. job[j].pc \in Running
      BY <1>7 DEF CheckpointIssue, CheckpointThread, CheckpointComment, Checkpoint, Running
    <2>2. /\ stateFile' = Snapshot(j) /\ job'[j].snap = stateFile' /\ job'[j].rec = job[j].rec
          /\ job'[j].packet = job[j].packet
          /\ job'[j].pc \in {"thread", "finish", "post"}
          /\ job'[j].pc = "thread" => job[j].rec.thread = 0
          /\ \A k \in Jobs \ {j} : job'[k] = job[k]
      BY <1>0, <1>7, <2>1, Known
         DEF CheckpointIssue, CheckpointThread, CheckpointComment, Checkpoint, AfterIssue, TypeOK, Run
    <2>3. stateFile'[job[j].packet] = job[j].rec
      BY <2>1, <2>2, Known DEF States
    <2>4. SerialRun(job[j])'
      BY <2>2, <2>3 DEF SerialRun
    <2> QED
      BY <1>a, <2>1, <2>2, <2>4
  <1>8. ASSUME NEW j \in Jobs, Finish(j) \/ Fail(j) PROVE SerialRuns'
    <2>1. job[j].pc \in Running /\ job'[j].pc \notin Running /\ \A k \in Jobs \ {j} : job'[k] = job[k]
      BY <1>0, <1>8 DEF Finish, Fail, TypeOK, NoRun, Running
    <2> QED
      BY <1>a, <2>1
  <1>9. ASSUME NEW p \in Packets, ReplaceDispatchLabel(p) PROVE SerialRuns'
    BY <1>9 DEF ReplaceDispatchLabel, SerialInv, SerialRuns, SerialRun
  <1>10. CASE UNCHANGED vars
    BY <1>10 DEF vars, SerialInv, SerialRuns, SerialRun
  <1> QED
    BY <1>1, <1>2, <1>3, <1>4, <1>5, <1>6, <1>7, <1>8, <1>9, <1>10 DEF SequentialNext, Step

(* The elements of the ledger and of the channel have their types.           *)
LEMMA ElementTypes ==
  ASSUME TypeOK
  PROVE  /\ \A i \in DOMAIN issues :
              issues[i].packet \in Packets /\ issues[i].queued \in BOOLEAN /\ i \in Nat \ {0}
         /\ \A t \in DOMAIN threads : threads[t].packet \in Packets /\ t \in Nat \ {0}
  <1>1. \A i \in DOMAIN issues : issues[i] \in Issue /\ i \in Nat \ {0}
    BY DEF TypeOK
  <1>2. \A t \in DOMAIN threads : threads[t] \in Thread /\ t \in Nat \ {0}
    BY DEF TypeOK
  <1> QED
    BY <1>1, <1>2 DEF Issue, Thread

(* What a step does to the ledger: one more issue, or one label less.        *)
LEMMA IssuesStep ==
  ASSUME SerialInv, [SequentialNext]_vars
  PROVE  \/ UNCHANGED issues
         \/ \E j \in Jobs : CreateIssue(j) /\ issues' = Append(issues, NewIssue(job[j].packet))
         \/ \E p \in Packets : ReplaceDispatchLabel(p)
  BY DEF SequentialNext, Step, vars, Load, RejectFile, Detect, ReuseIssue, CreateIssue, CreateThread,
         PostMessage, CommentIssue, CheckpointIssue, CheckpointThread, CheckpointComment,
         Checkpoint, Finish, Fail

(* The ledger keeps within its bound.                                        *)
LEMMA StepLedgerBound ==
  ASSUME SerialInv, [SequentialNext]_vars
  PROVE  (Len(issues) <= MaxIssues)'
  <1>0. issues \in Seq(Issue) /\ Len(issues) \in Nat /\ Len(issues) <= MaxIssues /\ MaxIssues \in Nat
    BY DispatchAssumption DEF SerialInv, OverlapInv, TypeOK
  <1>1. ASSUME NEW j \in Jobs, CreateIssue(j) PROVE (Len(issues) <= MaxIssues)'
    BY <1>0, <1>1 DEF CreateIssue
  <1>2. ASSUME NEW p \in Packets, ReplaceDispatchLabel(p) PROVE (Len(issues) <= MaxIssues)'
    BY <1>0, <1>2 DEF ReplaceDispatchLabel
  <1> QED
    BY <1>0, <1>1, <1>2, IssuesStep

(* Only the issue on record loses its label, and it stays on record.         *)
LEMMA StepUnqueuedRecorded ==
  ASSUME SerialInv, [SequentialNext]_vars
  PROVE  UnqueuedRecorded'
  <1>0. TypeOK /\ UnqueuedRecorded /\ RecordedLinksExist
    BY DEF SerialInv, OverlapInv
  <1>1. \A i \in DOMAIN issues : issues[i].packet \in Packets /\ issues[i].queued \in BOOLEAN /\ i \in Nat \ {0}
    BY <1>0, ElementTypes
  <1>2. \A p \in Packets : stateFile[p].issue # 0 => stateFile'[p].issue = stateFile[p].issue
    BY FileStep DEF IssueRecorded
  <1>3. CASE UNCHANGED issues
    BY <1>0, <1>1, <1>2, <1>3 DEF UnqueuedRecorded
  <1>4. ASSUME NEW j \in Jobs, CreateIssue(j) PROVE UnqueuedRecorded'
    <2>3. /\ DOMAIN issues' = DOMAIN issues \cup {Len(issues) + 1}
          /\ \A i \in DOMAIN issues : issues'[i] = issues[i]
          /\ issues'[Len(issues) + 1].queued = TRUE
      BY <1>0, <1>4 DEF CreateIssue, TypeOK, NewIssue
    <2> QED
      BY <1>0, <1>1, <1>2, <2>3 DEF UnqueuedRecorded
  <1>5. ASSUME NEW p \in Packets, ReplaceDispatchLabel(p) PROVE UnqueuedRecorded'
    <2> DEFINE n == stateFile[p].issue
    <2>1. n # 0 /\ n \in DOMAIN issues /\ issues[n].packet = p
      BY <1>0, <1>5 DEF ReplaceDispatchLabel, RecordedLinksExist, Genuine
    <2>2. /\ DOMAIN issues' = DOMAIN issues
          /\ \A i \in DOMAIN issues \ {n} : issues'[i] = issues[i]
          /\ UNCHANGED stateFile
      BY <1>0, <1>5 DEF ReplaceDispatchLabel, TypeOK
    <2>3. issues'[n].packet = p
      BY <1>0, <1>5, <2>1, StepGrows DEF Next, Growing
    <2> QED
      BY <1>0, <2>1, <2>2, <2>3 DEF UnqueuedRecorded
  <1> QED
    BY <1>3, <1>4, <1>5, IssuesStep

(* A run in progress takes the step itself or is left alone by it.           *)
LEMMA RunStep ==
  ASSUME SerialInv, [SequentialNext]_vars, NEW j \in Jobs, job[j].pc \in Running
  PROVE  Step(j) \/ Fail(j) \/ job'[j] = job[j]
  <1>0. TypeOK
    BY DEF SerialInv, OverlapInv
  <1>1. ASSUME NEW k \in Jobs, Step(k) \/ Fail(k) PROVE k = j
    <2>1. job[k].pc \in Running
      BY <1>1 DEF Step, Detect, ReuseIssue, CreateIssue, CreateThread, PostMessage, CommentIssue,
                  CheckpointIssue, CheckpointThread, CheckpointComment, Checkpoint, Finish, Fail, Running
    <2> QED
      BY <2>1, Known
  <1>2. ASSUME NEW k \in Jobs, RejectFile(k) PROVE job'[j] = job[j]
    <2>1. k # j
      BY <1>2 DEF RejectFile, Resting, Running
    <2> QED
      BY <1>0, <1>2, <2>1 DEF RejectFile, TypeOK
  <1>3. ~NoneRunning
    BY DEF NoneRunning, Resting, Running
  <1>4. ASSUME NEW p \in Packets, ReplaceDispatchLabel(p) PROVE job'[j] = job[j]
    BY <1>4 DEF ReplaceDispatchLabel
  <1>5. CASE UNCHANGED vars
    BY <1>5 DEF vars
  <1> QED
    BY <1>1, <1>2, <1>3, <1>4, <1>5 DEF SequentialNext

(* What a step does to the threads.                                          *)
LEMMA ThreadsStep ==
  ASSUME SerialInv, [SequentialNext]_vars
  PROVE  \/ UNCHANGED threads
         \/ \E j \in Jobs : CreateThread(j) \/ PostMessage(j) \/ CommentIssue(j)
  BY DEF SequentialNext, Step, vars, Load, RejectFile, Detect, ReuseIssue, CreateIssue,
         CheckpointIssue, CheckpointThread, CheckpointComment, Checkpoint, Finish, Fail,
         ReplaceDispatchLabel

(* A thread is recorded by its creator or orphaned with it.                  *)
LEMMA StepThreadsHeld ==
  ASSUME SerialInv, [SequentialNext]_vars
  PROVE  ThreadsHeld'
  <1>0. TypeOK /\ ThreadsHeld /\ Growing
    BY StepGrows DEF SerialInv, OverlapInv, SequentialNext, Next
  <1>1. \A t \in DOMAIN threads : threads[t].packet \in Packets /\ t \in Nat \ {0}
    BY <1>0, ElementTypes
  <1>2. \A p \in Packets : stateFile[p].thread # 0 => stateFile'[p].thread = stateFile[p].thread
    BY FileStep DEF ThreadRecorded
  <1>3. ASSUME NEW t \in DOMAIN threads', t \in DOMAIN threads, t \notin orphans',
               stateFile[threads[t].packet].thread = t
        PROVE  stateFile'[threads'[t].packet].thread = t
    BY <1>0, <1>1, <1>2, <1>3 DEF Growing
  <1>4. ASSUME NEW t \in DOMAIN threads, t \notin orphans', NEW j \in Jobs, job[j].pc = "saveThread",
               job[j].packet = threads[t].packet, job[j].rec.thread = t
        PROVE  \/ stateFile'[threads'[t].packet].thread = t
               \/ job'[j] = job[j]
    <2>1. CASE CheckpointThread(j)
      <3>1. stateFile'[job[j].packet] = job[j].rec
        BY <2>1, <1>4, Known DEF CheckpointThread, Checkpoint, Running, States
      <3> QED
        BY <1>0, <1>4, <3>1 DEF Growing
    <2>2. CASE Fail(j)
      BY <1>4, <2>2 DEF Fail
    <2>3. ASSUME Step(j) PROVE CheckpointThread(j)
      BY <1>4, <2>3 DEF Step, Detect, ReuseIssue, CreateIssue, CreateThread, PostMessage, CommentIssue,
                        CheckpointIssue, CheckpointComment, Checkpoint, Finish
    <2>4. job[j].pc \in Running
      BY <1>4 DEF Running
    <2> QED
      BY <2>1, <2>2, <2>3, <2>4, RunStep
  <1>5. ASSUME NEW j \in Jobs, CreateThread(j) PROVE ThreadsHeld'
    <2>1. /\ DOMAIN threads' = DOMAIN threads \cup {Len(threads) + 1}
          /\ threads'[Len(threads) + 1].packet = job[j].packet
          /\ UNCHANGED <<stateFile, orphans>>
      BY <1>0, <1>5 DEF CreateThread, TypeOK, NewThread
    <2>2. job[j].pc = "thread" /\ job[j].pc \in Running
      BY <1>5 DEF CreateThread, Running
    <2>3. /\ job'[j].pc = "saveThread" /\ job'[j].packet = job[j].packet
          /\ job'[j].rec.thread = Len(threads) + 1
      BY <1>0, <1>5, <2>2, Known DEF CreateThread, TypeOK, Run, Record
    <2>4. \A t \in DOMAIN threads \ orphans : stateFile[threads[t].packet].thread = t
      BY <1>0, <2>2, Known DEF ThreadsHeld, Running
    <2> QED
      BY <1>3, <2>1, <2>3, <2>4 DEF ThreadsHeld
  <1>6. CASE DOMAIN threads' = DOMAIN threads
    <2>1. orphans \subseteq orphans'
      BY DEF SequentialNext, Step, vars, Load, RejectFile, Detect, ReuseIssue, CreateIssue, CreateThread,
             PostMessage, CommentIssue, CheckpointIssue, CheckpointThread, CheckpointComment,
             Checkpoint, Finish, Fail, ReplaceDispatchLabel
    <2>2. ASSUME NEW t \in DOMAIN threads', t \notin orphans'
          PROVE  \/ stateFile'[threads'[t].packet].thread = t
                 \/ \E j \in Jobs : /\ job'[j].pc = "saveThread"
                                    /\ job'[j].packet = threads'[t].packet
                                    /\ job'[j].rec.thread = t
      BY <1>0, <1>3, <1>4, <1>6, <2>1, <2>2 DEF ThreadsHeld, Growing
    <2> QED
      BY <2>2 DEF ThreadsHeld
  <1>7. ASSUME NEW j \in Jobs, PostMessage(j) \/ CommentIssue(j) PROVE DOMAIN threads' = DOMAIN threads
    BY <1>0, <1>7 DEF PostMessage, CommentIssue, TypeOK
  <1> QED
    BY <1>5, <1>6, <1>7, ThreadsStep

(* An announcement is finished before its run goes on to the last save.      *)
LEMMA StepAnnounced ==
  ASSUME SerialInv, [SequentialNext]_vars
  PROVE  RecordedThreadAnnounced'
  <1>0. TypeOK /\ RecordedThreadAnnounced /\ RecordedLinksExist /\ Growing
    BY StepGrows DEF SerialInv, OverlapInv, SequentialNext, Next
  <1> DEFINE Posting(t) == \E j \in Jobs : job[j].pc = "post" /\ job[j].rec.thread = t
  <1> SUFFICES ASSUME NEW p \in Packets, NEW t, t = stateFile'[p].thread, t # 0
               PROVE  Announced(t)' \/ t \in muted' \/ Posting(t)'
    BY DEF RecordedThreadAnnounced
  <1>1. ASSUME NEW j \in Jobs, ThreadRecorded(j, p) PROVE Posting(t)'
    <2>1. job'[j].pc = "post" /\ job'[j].rec = job[j].rec
      BY <1>0, <1>1, Known DEF ThreadRecorded, CheckpointThread, Checkpoint, TypeOK, Run, Running
    <2>2. t = job'[j].rec.thread
      BY <1>1, <2>1 DEF ThreadRecorded
    <2> QED
      BY <2>1, <2>2
  <1>2. ASSUME t = stateFile[p].thread PROVE Announced(t)' \/ t \in muted' \/ Posting(t)'
    <2>1. t \in DOMAIN threads /\ t # 0
      BY <1>0, <1>2 DEF RecordedLinksExist, Genuine
    <2>2. Announced(t) \/ t \in muted \/ Posting(t)
      BY <1>0, <1>2, <2>1 DEF RecordedThreadAnnounced
    <2>3. muted \subseteq muted'
      BY DEF SequentialNext, Step, vars, Load, RejectFile, Detect, ReuseIssue, CreateIssue, CreateThread,
             PostMessage, CommentIssue, CheckpointIssue, CheckpointThread, CheckpointComment,
             Checkpoint, Finish, Fail, ReplaceDispatchLabel
    <2>4. CASE Announced(t) /\ ~Posting(t)
      <3>1. CASE UNCHANGED threads
        BY <2>4, <3>1 DEF Announced
      <3>2. ASSUME NEW j \in Jobs, CreateThread(j) PROVE Announced(t)'
        BY <1>0, <2>1, <2>4, <3>2 DEF CreateThread, TypeOK, Announced
      <3>3. ASSUME NEW j \in Jobs, PostMessage(j) \/ CommentIssue(j) PROVE Announced(t)'
        <4>1. job[j].rec.thread # t
          BY <2>4, <3>3 DEF PostMessage, CommentIssue
        <4>2. threads'[t] = threads[t]
          BY <1>0, <2>1, <3>3, <4>1 DEF PostMessage, CommentIssue, TypeOK
        <4> QED
          BY <2>4, <4>2 DEF Announced
      <3> QED
        BY <3>1, <3>2, <3>3, ThreadsStep
    <2>5. ASSUME NEW j \in Jobs, job[j].pc = "post", job[j].rec.thread = t
          PROVE  Announced(t)' \/ t \in muted' \/ Posting(t)'
      <3>0. job[j].pc \in Running
        BY <2>5 DEF Running
      <3>1. CASE CommentIssue(j)
        <4>1. threads[t].posts = MessageCount /\ threads' = [threads EXCEPT ![t].linked = TRUE]
          BY <2>5, <3>1 DEF CommentIssue
        <4>2. threads[t] \in Thread
          BY <1>0, <2>1 DEF TypeOK
        <4>3. threads'[t] = [threads[t] EXCEPT !.linked = TRUE]
          BY <1>0, <2>1, <4>1 DEF TypeOK
        <4>4. threads'[t].posts = MessageCount /\ threads'[t].linked
          BY <4>1, <4>2, <4>3 DEF Thread
        <4> QED
          BY <4>4 DEF Announced
      <3>2. CASE Fail(j)
        BY <2>5, <3>2 DEF Fail
      <3>3. CASE PostMessage(j)
        BY <2>5, <3>3 DEF PostMessage
      <3>4. ASSUME Step(j) PROVE CommentIssue(j) \/ PostMessage(j)
        BY <2>5, <3>4 DEF Step, Detect, ReuseIssue, CreateIssue, CreateThread,
                          CheckpointIssue, CheckpointThread, CheckpointComment, Checkpoint, Finish
      <3>5. job'[j] = job[j] => Posting(t)'
        BY <2>5
      <3> QED
        BY <3>0, <3>1, <3>2, <3>3, <3>4, <3>5, RunStep
    <2> QED
      BY <2>2, <2>3, <2>4, <2>5
  <1> QED
    BY <1>1, <1>2, FileStep

(* Each step of runs that do not overlap preserves SerialInv.                *)
LEMMA StepSerialInv ==
  ASSUME SerialInv, [SequentialNext]_vars
  PROVE  SerialInv'
  <1>1. [Next]_vars
    BY DEF SequentialNext, Next
  <1>2. OverlapInv'
    BY <1>1, StepTypeOK, StepRecordedLinksExist, StepRunsGenuine DEF SerialInv, OverlapInv
  <1> QED
    BY <1>2, StepOneRuns, StepSerialRuns, StepLedgerBound, StepUnqueuedRecorded, StepThreadsHeld,
       StepAnnounced DEF SerialInv

(* SerialInv holds in every reachable state of runs that do not overlap.     *)
THEOREM SerialInvariant == SequentialSpec => []SerialInv
  BY InitSerialInv, StepSerialInv, PTL DEF SequentialSpec

-----------------------------------------------------------------------------
(* Duplicate detection.  A run that is about to create an issue has asked    *)
(* for one and was shown every issue of its packet but those that landed     *)
(* since.                                                                    *)
AwaitedRuns ==
    \A j \in Jobs :
        job[j].pc = "issue" /\ job[j].match = 0 =>
            \A i \in DOMAIN issues \ late : issues[i].packet # job[j].packet

AwaitedInv == late \subseteq DOMAIN issues /\ AwaitedRuns /\ OneAwaitedIssue

(* The query of a run that goes on to create an issue has found none.        *)
LEMMA DetectedNone ==
  ASSUME SerialInv, MaxIssues <= DetectWindow, NEW j \in Jobs, Detect(j),
         job'[j].pc = "issue", job'[j].match = 0
  PROVE  \A i \in DOMAIN issues : issues[i].packet # job[j].packet
  <1> SUFFICES ASSUME NEW i \in DOMAIN issues, issues[i].packet = job[j].packet PROVE FALSE
    OBVIOUS
  <1>1. job[j].pc = "detect" /\ job[j].pc \in Running /\ TypeOK
    BY DEF Detect, Running, SerialInv, OverlapInv
  <1>2. /\ job'[j].pc = AfterDetect(job[j].rec)
        /\ Hits(job[j].packet) # {} => job'[j].match \in Hits(job[j].packet)
    BY <1>1, Known DEF Detect, TypeOK, Run
  <1>3. stateFile[job[j].packet].issue = 0
    BY <1>1, <1>2, Known DEF AfterDetect, AfterIssue, SerialRun
  <1>4. i \in Hits(job[j].packet)
    BY <1>3, UnrecordedIssueFound
  <1>5. job'[j].match \in DOMAIN issues
    BY <1>2, <1>4 DEF Hits
  <1> QED
    BY <1>1, <1>5 DEF TypeOK

(* How a run comes to the point of creating an issue, or stays there.        *)
LEMMA ToIssue ==
  ASSUME SerialInv, [SequentialNext]_vars, NEW j \in Jobs, job'[j].pc = "issue", job'[j].match = 0
  PROVE  \/ Detect(j) /\ UNCHANGED issues /\ job'[j].packet = job[j].packet
         \/ job'[j] = job[j]
  <1>0. TypeOK /\ job \in [Jobs -> Run] /\ job[j] \in Run
    BY RunTypes DEF SerialInv, OverlapInv, TypeOK
  <1>1. ASSUME NEW k \in Jobs, NEW p \in Packets, Load(k, p) PROVE job'[j] = job[j]
    <2>1. k # j
      BY <1>0, <1>1 DEF Load
    <2> QED
      BY <1>0, <1>1, <2>1 DEF Load
  <1>2. ASSUME NEW k \in Jobs, Detect(k)
        PROVE  \/ Detect(j) /\ UNCHANGED issues /\ job'[j].packet = job[j].packet
               \/ job'[j] = job[j]
    BY <1>0, <1>2 DEF Detect, Run
  <1>3. ASSUME NEW k \in Jobs, ReuseIssue(k) \/ CreateIssue(k) \/ CreateThread(k) \/ CommentIssue(k)
        PROVE  job'[j] = job[j]
    BY <1>0, <1>3 DEF ReuseIssue, CreateIssue, CreateThread, CommentIssue, Run
  <1>4. ASSUME NEW k \in Jobs, CheckpointIssue(k) \/ CheckpointThread(k) \/ CheckpointComment(k)
        PROVE  job'[j] = job[j]
    BY <1>0, <1>4
       DEF CheckpointIssue, CheckpointThread, CheckpointComment, Checkpoint, AfterIssue, Run
  <1>5. ASSUME NEW k \in Jobs, Finish(k) \/ Fail(k) PROVE job'[j] = job[j]
    BY <1>0, <1>5 DEF Finish, Fail, NoRun
  <1>6. ASSUME NEW k \in Jobs, RejectFile(k) PROVE job'[j] = job[j]
    BY <1>0, <1>6 DEF RejectFile, Run
  <1>7. CASE UNCHANGED job
    BY <1>7
  <1> QED
    BY <1>1, <1>2, <1>3, <1>4, <1>5, <1>6, <1>7
       DEF SequentialNext, Step, vars, PostMessage, ReplaceDispatchLabel

(* Only the one run in progress creates an issue, and only for its packet.   *)
LEMMA StepAwaitedRuns ==
  ASSUME SerialInv, AwaitedRuns, MaxIssues <= DetectWindow, [SequentialNext]_vars, UNCHANGED late
  PROVE  AwaitedRuns'
  <1>0. TypeOK
    BY DEF SerialInv, OverlapInv
  <1> SUFFICES ASSUME NEW j \in Jobs, job'[j].pc = "issue", job'[j].match = 0,
                      NEW i \in DOMAIN issues' \ late'
               PROVE  issues'[i].packet # job'[j].packet
    BY DEF AwaitedRuns
  <1>1. CASE Detect(j) /\ UNCHANGED issues /\ job'[j].packet = job[j].packet
    BY <1>1, DetectedNone
  <1>2. CASE job'[j] = job[j]
    <2>1. /\ job[j].pc \in Running
          /\ \A k \in DOMAIN issues \ late : issues[k].packet # job[j].packet
      BY <1>2 DEF AwaitedRuns, Running
    <2>2. ASSUME NEW k \in Jobs, CreateIssue(k) PROVE FALSE
      <3>1. job[k].pc \in Running /\ job'[k].pc = "saveIssue"
        BY <1>0, <2>2, RunTypes DEF CreateIssue, TypeOK, Run, Running
      <3> QED
        BY <1>2, <2>1, <3>1, Known
    <2>3. ASSUME NEW p \in Packets, ReplaceDispatchLabel(p)
          PROVE  DOMAIN issues' = DOMAIN issues /\ issues'[i].packet = issues[i].packet
      <3>1. DOMAIN issues' = DOMAIN issues
        BY <1>0, <2>3 DEF ReplaceDispatchLabel, TypeOK
      <3> QED
        BY <1>0, <2>3, <3>1, StepGrows DEF Next, Growing
    <2> QED
      BY <1>2, <2>1, <2>2, <2>3, IssuesStep
  <1> QED
    BY <1>1, <1>2, ToIssue

(* A run that waits for the answer creates an issue only when the packet has *)
(* none but late ones.                                                       *)
LEMMA StepAwaitedInv ==
  ASSUME SerialInv, AwaitedInv, MaxIssues <= DetectWindow, [SequentialNext]_vars, UNCHANGED late
  PROVE  AwaitedInv'
  <1>0. TypeOK /\ late \subseteq DOMAIN issues /\ AwaitedRuns /\ OneAwaitedIssue
    BY DEF SerialInv, OverlapInv, AwaitedInv
  <1>1. CASE UNCHANGED issues
    BY <1>0, <1>1, StepAwaitedRuns DEF OneAwaitedIssue, AwaitedInv
  <1>2. ASSUME NEW j \in Jobs, CreateIssue(j) PROVE AwaitedInv'
    <2>1. \A i \in DOMAIN issues \ late : issues[i].packet # job[j].packet
      BY <1>0, <1>2 DEF CreateIssue, AwaitedRuns
    <2>2. /\ DOMAIN issues' = DOMAIN issues \cup {Len(issues) + 1}
          /\ \A i \in DOMAIN issues : issues'[i] = issues[i]
          /\ issues'[Len(issues) + 1].packet = job[j].packet
      BY <1>0, <1>2 DEF CreateIssue, TypeOK, NewIssue
    <2>3. OneAwaitedIssue'
      BY <1>0, <2>1, <2>2 DEF OneAwaitedIssue
    <2> QED
      BY <1>0, <2>2, <2>3, StepAwaitedRuns DEF AwaitedInv
  <1>3. ASSUME NEW p \in Packets, ReplaceDispatchLabel(p) PROVE AwaitedInv'
    <2>1. Growing
      BY <1>0, <1>3, StepGrows DEF Next
    <2>2. DOMAIN issues' = DOMAIN issues
      BY <1>0, <1>3 DEF ReplaceDispatchLabel, TypeOK
    <2>3. OneAwaitedIssue'
      BY <1>0, <2>1, <2>2 DEF Growing, OneAwaitedIssue
    <2> QED
      BY <1>0, <2>2, <2>3, StepAwaitedRuns DEF AwaitedInv
  <1> QED
    BY <1>1, <1>2, <1>3, IssuesStep

(* A packet has at most one thread that is not orphaned.                     *)
LEMMA OneThread ==
  ASSUME SerialInv
  PROVE  OneRecordedThreadPerPacket
  <1> SUFFICES ASSUME NEW s \in DOMAIN threads \ orphans, NEW t \in DOMAIN threads \ orphans,
                      threads[s].packet = threads[t].packet
               PROVE  s = t
    BY DEF OneRecordedThreadPerPacket
  <1>1. threads[s].packet \in Packets /\ s # 0 /\ t # 0
    BY ElementTypes DEF SerialInv, OverlapInv
  <1>2. ASSUME NEW j \in Jobs, job[j].pc = "saveThread"
        PROVE  stateFile[job[j].packet].thread = 0 /\ \A k \in Jobs : job[k].pc = "saveThread" => k = j
    BY <1>2, Known DEF Running, SerialRun
  <1> QED
    BY <1>1, <1>2 DEF SerialInv, ThreadsHeld

(* A packet has a second thread only if the run that created the earlier one *)
(* ended between that call and the checkpoint that follows it.               *)
THEOREM DispatchOneRecordedThreadPerPacket == SequentialSpec => []OneRecordedThreadPerPacket
  BY OneThread, SerialInvariant, PTL

(* No announcement of a recorded thread is lost without its run failing.     *)
THEOREM DispatchRecordedThreadAnnounced == SequentialSpec => []RecordedThreadAnnounced
  BY SerialInvariant, PTL DEF SerialInv

(* What the state file has recorded it never forgets.                        *)
THEOREM DispatchNoLinkForgotten == SequentialSpec => NoLinkForgotten
  <1> DEFINE A == \A p \in Packets :
         /\ stateFile[p].issue # 0 => stateFile'[p].issue = stateFile[p].issue
         /\ stateFile[p].thread # 0 => stateFile'[p].thread = stateFile[p].thread
  <1>1. SerialInv /\ [SequentialNext]_vars => [A]_vars
    BY FileStep DEF IssueRecorded, ThreadRecorded
  <1> QED
    BY <1>1, SerialInvariant, PTL DEF SequentialSpec, NoLinkForgotten

-----------------------------------------------------------------------------
(* DispatchLate: a request that outlives its run changes nothing of what is  *)
(* known about the runs, because no run takes note of what it creates.       *)
LEMMA IssueLandsOverlap ==
  ASSUME OverlapInv, NEW q, q.packet \in Packets, IssueLands(q)
  PROVE  /\ OverlapInv' /\ UNCHANGED <<stateFile, job>>
         /\ DOMAIN issues' = DOMAIN issues \cup {Len(issues) + 1}
         /\ Len(issues) + 1 \notin DOMAIN issues
         /\ \A i \in DOMAIN issues : issues'[i] = issues[i]
         /\ issues'[Len(issues) + 1].packet = q.packet
         /\ issues'[Len(issues) + 1].queued
         /\ Len(issues') <= MaxIssues
  <1> USE DispatchAssumption
  <1>0. /\ TypeOK /\ RecordedLinksExist /\ RunsGenuine /\ Len(issues) \in Nat
        /\ UNCHANGED <<stateFile, fileOk, threads, job, orphans, muted, faults>>
    BY DEF IssueLands, OverlapInv, TypeOK
  <1>1. NewIssue(q.packet) \in Issue /\ NewIssue(q.packet).queued /\ NewIssue(q.packet).packet = q.packet
    BY DEF NewIssue, Issue
  <1>2. /\ issues' \in Seq(Issue)
        /\ DOMAIN issues' = DOMAIN issues \cup {Len(issues) + 1}
        /\ Len(issues) + 1 \notin DOMAIN issues
        /\ \A i \in DOMAIN issues : issues'[i] = issues[i]
        /\ issues'[Len(issues) + 1] = NewIssue(q.packet)
        /\ Len(issues') <= MaxIssues
    BY <1>0, <1>1 DEF IssueLands, TypeOK
  <1>3. Growing
    BY <1>0, <1>2 DEF Growing
  <1>4. TypeOK'
    BY <1>0, <1>2 DEF TypeOK
  <1>5. RecordedLinksExist'
    BY <1>0, <1>3, <1>4, GenuineStable DEF RecordedLinksExist
  <1>6. RunsGenuine'
    BY <1>0, <1>3, <1>4, GenuineStable DEF RunsGenuine, RunGenuine, Growing
  <1> QED
    BY <1>0, <1>1, <1>2, <1>4, <1>5, <1>6 DEF OverlapInv

LEMMA IssueLandsSerial ==
  ASSUME SerialInv, NEW q, q.packet \in Packets, IssueLands(q)
  PROVE  SerialInv'
  <1>1. OverlapInv' /\ (Len(issues) <= MaxIssues)'
    BY IssueLandsOverlap DEF SerialInv
  <1>2. OneRuns' /\ SerialRuns' /\ ThreadsHeld' /\ RecordedThreadAnnounced'
    BY DEF IssueLands, SerialInv, OneRuns, SerialRuns, SerialRun, ThreadsHeld, RecordedThreadAnnounced,
           Announced
  <1>3. UnqueuedRecorded'
    BY IssueLandsOverlap DEF SerialInv, UnqueuedRecorded
  <1> QED
    BY <1>1, <1>2, <1>3 DEF SerialInv

LEMMA ThreadLandsOverlap ==
  ASSUME OverlapInv, NEW q, q.packet \in Packets, ThreadLands(q)
  PROVE  /\ OverlapInv' /\ UNCHANGED <<stateFile, issues, job, muted, faults>>
         /\ orphans' = orphans \cup {Len(threads) + 1}
         /\ DOMAIN threads' = DOMAIN threads \cup {Len(threads) + 1}
         /\ Len(threads) + 1 \notin DOMAIN threads
         /\ \A t \in DOMAIN threads : threads'[t] = threads[t]
  <1> USE DispatchAssumption
  <1>0. /\ TypeOK /\ RecordedLinksExist /\ RunsGenuine /\ Len(threads) \in Nat
        /\ UNCHANGED <<stateFile, fileOk, issues, job, muted, faults>>
        /\ orphans' = orphans \cup {Len(threads) + 1}
    BY DEF ThreadLands, OverlapInv, TypeOK
  <1>1. NewThread(q.packet) \in Thread
    BY DEF NewThread, Thread
  <1>2. /\ threads' \in Seq(Thread)
        /\ DOMAIN threads' = DOMAIN threads \cup {Len(threads) + 1}
        /\ Len(threads) + 1 \notin DOMAIN threads
        /\ \A t \in DOMAIN threads : threads'[t] = threads[t]
    BY <1>0, <1>1 DEF ThreadLands, TypeOK
  <1>3. Growing
    BY <1>0, <1>2 DEF Growing
  <1>4. TypeOK'
    BY <1>0, <1>2 DEF TypeOK
  <1>5. RecordedLinksExist'
    BY <1>0, <1>3, <1>4, GenuineStable DEF RecordedLinksExist
  <1>6. RunsGenuine'
    BY <1>0, <1>3, <1>4, GenuineStable DEF RunsGenuine, RunGenuine, Growing
  <1> QED
    BY <1>0, <1>2, <1>4, <1>5, <1>6 DEF OverlapInv

LEMMA ThreadLandsSerial ==
  ASSUME SerialInv, NEW q, q.packet \in Packets, ThreadLands(q)
  PROVE  SerialInv'
  <1>0. OverlapInv' /\ UNCHANGED <<stateFile, issues, job, muted, faults>>
    BY ThreadLandsOverlap DEF SerialInv
  <1>1. OneRuns' /\ SerialRuns' /\ UnqueuedRecorded' /\ (Len(issues) <= MaxIssues)'
    BY <1>0 DEF SerialInv, OneRuns, SerialRuns, SerialRun, UnqueuedRecorded
  <1>2. ThreadsHeld'
    BY <1>0, ThreadLandsOverlap DEF SerialInv, ThreadsHeld
  <1>3. RecordedThreadAnnounced'
    BY <1>0, ThreadLandsOverlap
       DEF SerialInv, OverlapInv, RecordedThreadAnnounced, RecordedLinksExist, Genuine, Announced
  <1> QED
    BY <1>0, <1>1, <1>2, <1>3 DEF SerialInv

(* A run that leaves a request behind has ended like any other that fails.   *)
LEMMA AbandonFails ==
  ASSUME NEW j \in Jobs, NEW what \in {"issue", "thread"}, AbandonRequest(j, what)
  PROVE  Fail(j) /\ orphans' = orphans /\ issues' = issues
  BY DEF AbandonRequest, Fail, Running

(* The accounts of the requests.  Every request that nobody waits for, and   *)
(* every thread without a record, is one run that ended early; and so is     *)
(* every issue of a packet but one.                                          *)
IssuesOf(p) == {i \in DOMAIN issues : issues[i].packet = p}
Asked(p) == {q \in inFlight : q.what = "issue" /\ q.packet = p}

Creating(p) == \E j \in Jobs : job[j].pc = "issue" /\ job[j].match = 0 /\ job[j].packet = p

RequestsOK ==
    /\ IsFiniteSet(inFlight)
    /\ \A q \in inFlight : q.packet \in Packets

Unrecorded == Cardinality(inFlight) + Cardinality(orphans) <= faults

IssuesCounted ==
    \A p \in Packets :
        /\ Cardinality(IssuesOf(p)) + Cardinality(Asked(p)) <= 1 + faults
        /\ Creating(p) => Cardinality(IssuesOf(p)) + Cardinality(Asked(p)) <= faults

LateInv == SerialInv /\ RequestsOK /\ Unrecorded /\ IssuesCounted

-----------------------------------------------------------------------------
(* The sets that are counted are finite.                                     *)
LEMMA DomainFinite ==
  ASSUME NEW S, NEW s \in Seq(S)
  PROVE  IsFiniteSet(DOMAIN s)
  <1>1. DOMAIN s = 1..Len(s) /\ Len(s) \in Int /\ 1 \in Int
    OBVIOUS
  <1>2. \A a, b \in Int : IsFiniteSet(a..b)
    BY FS_Interval
  <1> QED
    BY <1>1, <1>2

LEMMA LateFinite ==
  ASSUME TypeOK, RequestsOK
  PROVE  /\ IsFiniteSet(orphans) /\ Cardinality(orphans) \in Nat
         /\ IsFiniteSet(inFlight) /\ Cardinality(inFlight) \in Nat
         /\ faults \in Nat
         /\ \A p : /\ IsFiniteSet(IssuesOf(p)) /\ Cardinality(IssuesOf(p)) \in Nat
                   /\ IsFiniteSet(Asked(p)) /\ Cardinality(Asked(p)) \in Nat
                   /\ Cardinality(Asked(p)) <= Cardinality(inFlight)
  <1>1. IsFiniteSet(DOMAIN issues) /\ IsFiniteSet(DOMAIN threads)
    BY DomainFinite DEF TypeOK
  <1>2. IsFiniteSet(orphans)
    BY <1>1, FS_Subset DEF TypeOK
  <1>3. ASSUME NEW p
        PROVE  /\ IsFiniteSet(IssuesOf(p)) /\ IsFiniteSet(Asked(p))
               /\ Cardinality(Asked(p)) <= Cardinality(inFlight)
    <2>1. IssuesOf(p) \subseteq DOMAIN issues /\ Asked(p) \subseteq inFlight
      BY DEF IssuesOf, Asked
    <2> QED
      BY <1>1, <2>1, FS_Subset DEF RequestsOK
  <1> QED
    BY <1>2, <1>3, FS_CardinalityType, DispatchAssumption DEF RequestsOK, TypeOK

(* A set that gains at most one element gains at most one in size, and one   *)
(* that loses an element of its own loses one.                               *)
LEMMA GainOne ==
  ASSUME NEW S, IsFiniteSet(S), NEW x, NEW T, T \subseteq S \cup {x}
  PROVE  IsFiniteSet(T) /\ Cardinality(T) <= Cardinality(S) + 1
  <1>1. IsFiniteSet(S \cup {x}) /\ Cardinality(S \cup {x}) \in {Cardinality(S), Cardinality(S) + 1}
    BY FS_AddElement
  <1>2. Cardinality(S) \in Nat
    BY FS_CardinalityType
  <1>3. IsFiniteSet(T) /\ Cardinality(T) <= Cardinality(S \cup {x})
    BY <1>1, FS_Subset
  <1> QED
    BY <1>1, <1>2, <1>3, FS_CardinalityType

LEMMA LoseOne ==
  ASSUME NEW S, IsFiniteSet(S), NEW x \in S
  PROVE  IsFiniteSet(S \ {x}) /\ Cardinality(S \ {x}) = Cardinality(S) - 1
  BY FS_RemoveElement

(* When the ledger gains an issue of the packet p, only p's issues grow.     *)
LEMMA IssuesOfGrow ==
  ASSUME NEW p,
         DOMAIN issues' = DOMAIN issues \cup {Len(issues) + 1},
         \A i \in DOMAIN issues : issues'[i] = issues[i],
         issues'[Len(issues) + 1].packet = p
  PROVE  /\ IssuesOf(p)' \subseteq IssuesOf(p) \cup {Len(issues) + 1}
         /\ \A r : r # p => IssuesOf(r)' \subseteq IssuesOf(r)
  BY DEF IssuesOf

-----------------------------------------------------------------------------
(* A run that ends early is counted; what it leaves is at most one thread.   *)
LEMMA SerialFaults ==
  ASSUME SerialInv, [SequentialNext]_vars
  PROVE  \/ faults' = faults /\ orphans' = orphans
         \/ faults' = faults + 1 /\ \E t : orphans' \subseteq orphans \cup {t}
  <1>1. ASSUME NEW j \in Jobs, Fail(j)
        PROVE  faults' = faults + 1 /\ \E t : orphans' \subseteq orphans \cup {t}
    BY <1>1 DEF Fail
  <1> QED
    BY <1>1 DEF SequentialNext, Step, vars, Load, RejectFile, Detect, ReuseIssue, CreateIssue,
                CreateThread, PostMessage, CommentIssue, CheckpointIssue, CheckpointThread,
                CheckpointComment, Checkpoint, Finish, ReplaceDispatchLabel

LEMMA SerialUnrecorded ==
  ASSUME LateInv, [SequentialNext]_vars, UNCHANGED inFlight
  PROVE  Unrecorded'
  <1>0. SerialInv /\ TypeOK /\ RequestsOK /\ Unrecorded
    BY DEF LateInv, SerialInv, OverlapInv
  <1>1. /\ Cardinality(orphans) \in Nat /\ Cardinality(inFlight) \in Nat /\ faults \in Nat
        /\ IsFiniteSet(orphans)
    BY <1>0, LateFinite
  <1>2. CASE faults' = faults /\ orphans' = orphans
    BY <1>0, <1>2 DEF Unrecorded
  <1>3. ASSUME faults' = faults + 1, NEW t, orphans' \subseteq orphans \cup {t}
        PROVE  Unrecorded'
    <2>1. Cardinality(orphans') <= Cardinality(orphans) + 1 /\ IsFiniteSet(orphans')
      BY <1>1, <1>3, GainOne
    <2>2. Cardinality(orphans') \in Nat
      BY <2>1, FS_CardinalityType
    <2> QED
      BY <1>0, <1>1, <1>3, <2>1, <2>2 DEF Unrecorded
  <1> QED
    BY <1>0, <1>2, <1>3, SerialFaults

(* The ledger changes for the packet of a run that is creating its issue, or *)
(* for none.                                                                 *)
LEMMA SerialIssuesOf ==
  ASSUME SerialInv, [SequentialNext]_vars, NEW p \in Packets
  PROVE  \/ IssuesOf(p)' = IssuesOf(p)
         \/ /\ Creating(p) /\ ~Creating(p)'
            /\ IssuesOf(p)' \subseteq IssuesOf(p) \cup {Len(issues) + 1}
  <1>0. TypeOK
    BY DEF SerialInv, OverlapInv
  <1>1. CASE UNCHANGED issues
    BY <1>1 DEF IssuesOf
  <1>2. ASSUME NEW j \in Jobs, CreateIssue(j), job[j].packet = p
        PROVE  /\ Creating(p) /\ ~Creating(p)'
               /\ IssuesOf(p)' \subseteq IssuesOf(p) \cup {Len(issues) + 1}
    <2>1. job[j].pc = "issue" /\ job[j].match = 0 /\ job[j].pc \in Running
      BY <1>2 DEF CreateIssue, Running
    <2>2. /\ DOMAIN issues' = DOMAIN issues \cup {Len(issues) + 1}
          /\ \A i \in DOMAIN issues : issues'[i] = issues[i]
          /\ issues'[Len(issues) + 1].packet = p
      BY <1>0, <1>2 DEF CreateIssue, TypeOK, NewIssue
    <2>3. job'[j].pc = "saveIssue" /\ \A k \in Jobs \ {j} : job'[k] = job[k]
      BY <1>0, <1>2, <2>1, Known DEF CreateIssue, TypeOK, Run
    <2>4. \A k \in Jobs \ {j} : job[k].pc # "issue"
      BY <2>1, Known DEF Running
    <2>5. Creating(p)
      BY <1>2, <2>1 DEF Creating
    <2>6. ~Creating(p)'
      BY <2>3, <2>4 DEF Creating
    <2> QED
      BY <2>2, <2>5, <2>6, IssuesOfGrow
  <1>3. ASSUME NEW j \in Jobs, CreateIssue(j), job[j].packet # p
        PROVE  IssuesOf(p)' = IssuesOf(p)
    <2>1. /\ DOMAIN issues' = DOMAIN issues \cup {Len(issues) + 1}
          /\ \A i \in DOMAIN issues : issues'[i] = issues[i]
          /\ issues'[Len(issues) + 1].packet # p
      BY <1>0, <1>3 DEF CreateIssue, TypeOK, NewIssue
    <2> QED
      BY <2>1 DEF IssuesOf
  <1>4. ASSUME NEW r \in Packets, ReplaceDispatchLabel(r) PROVE IssuesOf(p)' = IssuesOf(p)
    <2>1. DOMAIN issues' = DOMAIN issues
      BY <1>0, <1>4 DEF ReplaceDispatchLabel, TypeOK
    <2>2. Growing
      BY <1>0, <1>4, StepGrows DEF Next
    <2> QED
      BY <2>1, <2>2 DEF IssuesOf, Growing
  <1> QED
    BY <1>1, <1>2, <1>3, <1>4, IssuesStep

(* A run comes to the point of creating an issue only if the packet has none.*)
LEMMA SerialCreating ==
  ASSUME SerialInv, MaxIssues <= DetectWindow, [SequentialNext]_vars,
         NEW p \in Packets, Creating(p)'
  PROVE  IssuesOf(p)' = {} \/ Creating(p)
  <1>1. PICK j \in Jobs : job'[j].pc = "issue" /\ job'[j].match = 0 /\ job'[j].packet = p
    BY DEF Creating
  <1>2. CASE Detect(j) /\ UNCHANGED issues /\ job'[j].packet = job[j].packet
    <2>1. \A i \in DOMAIN issues : issues[i].packet # p
      BY <1>1, <1>2, DetectedNone
    <2> QED
      BY <1>2, <2>1 DEF IssuesOf
  <1>3. CASE job'[j] = job[j]
    BY <1>1, <1>3 DEF Creating
  <1> QED
    BY <1>1, <1>2, <1>3, ToIssue

LEMMA SerialIssuesCounted ==
  ASSUME LateInv, MaxIssues <= DetectWindow, [SequentialNext]_vars, UNCHANGED inFlight
  PROVE  IssuesCounted'
  <1>0. SerialInv /\ TypeOK /\ RequestsOK /\ Unrecorded /\ IssuesCounted
    BY DEF LateInv, SerialInv, OverlapInv
  <1>1. faults \in Nat /\ faults' \in Nat /\ faults <= faults'
    BY <1>0, SerialFaults, LateFinite
  <1> SUFFICES ASSUME NEW p \in Packets
               PROVE  /\ (Cardinality(IssuesOf(p)) + Cardinality(Asked(p)) <= 1 + faults)'
                      /\ Creating(p)' => (Cardinality(IssuesOf(p)) + Cardinality(Asked(p)) <= faults)'
    BY DEF IssuesCounted
  <1>2. /\ Cardinality(IssuesOf(p)) \in Nat /\ IsFiniteSet(IssuesOf(p))
        /\ Cardinality(Asked(p)) \in Nat /\ Cardinality(Asked(p)) <= Cardinality(inFlight)
        /\ Cardinality(inFlight) \in Nat /\ Cardinality(orphans) \in Nat
    BY <1>0, LateFinite
  <1>3. Asked(p)' = Asked(p)
    BY DEF Asked
  <1>4. CASE IssuesOf(p)' = IssuesOf(p)
    <2>1. CASE Creating(p)' /\ ~Creating(p)
      <3>1. IssuesOf(p) = {}
        BY <1>0, <1>4, <2>1, SerialCreating
      <3>2. Cardinality(IssuesOf(p)) = 0
        BY <3>1, FS_EmptySet
      <3> QED
        BY <1>0, <1>1, <1>2, <1>3, <1>4, <3>2 DEF Unrecorded
    <2>2. CASE Creating(p)' => Creating(p)
      BY <1>0, <1>1, <1>2, <1>3, <1>4, <2>2 DEF IssuesCounted
    <2> QED
      BY <2>1, <2>2
  <1>5. CASE /\ Creating(p) /\ ~Creating(p)'
             /\ IssuesOf(p)' \subseteq IssuesOf(p) \cup {Len(issues) + 1}
    <2>1. IsFiniteSet(IssuesOf(p)') /\ Cardinality(IssuesOf(p)') <= Cardinality(IssuesOf(p)) + 1
      BY <1>2, <1>5, GainOne
    <2>2. Cardinality(IssuesOf(p)') \in Nat
      BY <2>1, FS_CardinalityType
    <2> QED
      BY <1>0, <1>1, <1>2, <1>3, <1>5, <2>1, <2>2 DEF IssuesCounted
  <1> QED
    BY <1>0, <1>4, <1>5, SerialIssuesOf

-----------------------------------------------------------------------------
(* The run that gives up waiting pays for its request with a fault.          *)
LEMMA AbandonCounted ==
  ASSUME LateInv, NEW j \in Jobs, NEW what \in {"issue", "thread"}, AbandonRequest(j, what)
  PROVE  LateInv'
  <1>0. SerialInv /\ TypeOK /\ RequestsOK /\ Unrecorded /\ IssuesCounted
    BY DEF LateInv, SerialInv, OverlapInv
  <1> DEFINE q == [what |-> what, packet |-> job[j].packet, fault |-> faults + 1]
  <1>1. /\ job[j].pc \in Running /\ job[j].packet \in Packets
        /\ faults' = faults + 1 /\ inFlight' = inFlight \cup {q}
        /\ UNCHANGED <<issues, orphans>>
        /\ Fail(j)
    BY <1>0, RunTypes, AbandonFails DEF AbandonRequest, Running
  <1>2. SerialInv'
    BY <1>0, <1>1, StepSerialInv DEF SequentialNext
  <1>3. /\ IsFiniteSet(inFlight') /\ Cardinality(inFlight') <= Cardinality(inFlight) + 1
        /\ Cardinality(inFlight') \in Nat
    <2>1. IsFiniteSet(inFlight') /\ Cardinality(inFlight') <= Cardinality(inFlight) + 1
      BY <1>0, <1>1, GainOne DEF RequestsOK
    <2> QED
      BY <2>1, FS_CardinalityType
  <1>4. RequestsOK'
    BY <1>0, <1>1, <1>3 DEF RequestsOK
  <1>5. Unrecorded'
    BY <1>0, <1>1, <1>3, LateFinite DEF Unrecorded
  <1>6. ASSUME NEW p \in Packets
        PROVE  /\ (Cardinality(IssuesOf(p)) + Cardinality(Asked(p)) <= 1 + faults)'
               /\ Creating(p)' => (Cardinality(IssuesOf(p)) + Cardinality(Asked(p)) <= faults)'
    <2>1. IssuesOf(p)' = IssuesOf(p) /\ Asked(p)' \subseteq Asked(p) \cup {q}
      BY <1>1 DEF IssuesOf, Asked
    <2>2. /\ Cardinality(IssuesOf(p)) \in Nat /\ Cardinality(Asked(p)) \in Nat /\ faults \in Nat
          /\ IsFiniteSet(Asked(p))
      BY <1>0, LateFinite
    <2>3. IsFiniteSet(Asked(p)') /\ Cardinality(Asked(p)') <= Cardinality(Asked(p)) + 1
      BY <2>1, <2>2, GainOne
    <2>4. Cardinality(Asked(p)') \in Nat
      BY <2>3, FS_CardinalityType
    <2>5. Creating(p)' => Creating(p)
      BY <1>0 DEF AbandonRequest, Creating, TypeOK, NoRun
    <2> QED
      BY <1>0, <1>1, <2>1, <2>2, <2>3, <2>4, <2>5 DEF IssuesCounted
  <1> QED
    BY <1>2, <1>4, <1>5, <1>6 DEF LateInv, IssuesCounted

(* What lands was paid for when its run gave up.                             *)
LEMMA IssueLandsCounted ==
  ASSUME LateInv, NEW q \in inFlight, IssueLands(q)
  PROVE  LateInv'
  <1>0. SerialInv /\ TypeOK /\ RequestsOK /\ Unrecorded /\ IssuesCounted /\ q.packet \in Packets
    BY DEF LateInv, SerialInv, OverlapInv, RequestsOK
  <1>1. inFlight' = inFlight \ {q} /\ UNCHANGED <<orphans, faults, job>> /\ q.what = "issue"
    BY DEF IssueLands
  <1>2. /\ IsFiniteSet(inFlight') /\ Cardinality(inFlight') = Cardinality(inFlight) - 1
    BY <1>0, <1>1, LoseOne DEF RequestsOK
  <1>3. RequestsOK' /\ Unrecorded'
    BY <1>0, <1>1, <1>2, LateFinite DEF RequestsOK, Unrecorded
  <1>4. ASSUME NEW p \in Packets
        PROVE  /\ (Cardinality(IssuesOf(p)) + Cardinality(Asked(p)) <= 1 + faults)'
               /\ Creating(p)' => (Cardinality(IssuesOf(p)) + Cardinality(Asked(p)) <= faults)'
    <2>1. /\ Cardinality(IssuesOf(p)) \in Nat /\ Cardinality(Asked(p)) \in Nat /\ faults \in Nat
          /\ IsFiniteSet(Asked(p)) /\ IsFiniteSet(IssuesOf(p))
      BY <1>0, LateFinite
    <2>2. Creating(p)' <=> Creating(p)
      BY <1>1 DEF Creating
    <2>3. CASE p = q.packet
      <3>1. q \in Asked(p) /\ Asked(p)' = Asked(p) \ {q}
        BY <1>1, <2>3 DEF Asked
      <3>2. Cardinality(Asked(p)') = Cardinality(Asked(p)) - 1
        BY <2>1, <3>1, LoseOne
      <3>3. IssuesOf(p)' \subseteq IssuesOf(p) \cup {Len(issues) + 1}
        BY <1>0, <2>3, IssueLandsOverlap, IssuesOfGrow DEF SerialInv
      <3>4. IsFiniteSet(IssuesOf(p)') /\ Cardinality(IssuesOf(p)') <= Cardinality(IssuesOf(p)) + 1
        BY <2>1, <3>3, GainOne
      <3>5. Cardinality(IssuesOf(p)') \in Nat
        BY <3>4, FS_CardinalityType
      <3> QED
        BY <1>0, <1>1, <2>1, <2>2, <3>2, <3>4, <3>5 DEF IssuesCounted
    <2>4. CASE p # q.packet
      <3>1. Asked(p)' = Asked(p)
        BY <1>1, <2>4 DEF Asked
      <3>2. IssuesOf(p)' \subseteq IssuesOf(p)
        BY <1>0, <2>4, IssueLandsOverlap, IssuesOfGrow DEF SerialInv
      <3>3. IsFiniteSet(IssuesOf(p)') /\ Cardinality(IssuesOf(p)') <= Cardinality(IssuesOf(p))
        BY <2>1, <3>2, FS_Subset
      <3>4. Cardinality(IssuesOf(p)') \in Nat
        BY <3>3, FS_CardinalityType
      <3> QED
        BY <1>0, <1>1, <2>1, <2>2, <3>1, <3>3, <3>4 DEF IssuesCounted
    <2> QED
      BY <2>3, <2>4
  <1>5. SerialInv'
    BY <1>0, IssueLandsSerial
  <1> QED
    BY <1>3, <1>4, <1>5 DEF LateInv, IssuesCounted

LEMMA ThreadLandsCounted ==
  ASSUME LateInv, NEW q \in inFlight, ThreadLands(q)
  PROVE  LateInv'
  <1>0. SerialInv /\ TypeOK /\ RequestsOK /\ Unrecorded /\ IssuesCounted /\ q.packet \in Packets
    BY DEF LateInv, SerialInv, OverlapInv, RequestsOK
  <1>1. /\ inFlight' = inFlight \ {q} /\ UNCHANGED <<issues, faults, job>> /\ q.what = "thread"
        /\ orphans' \subseteq orphans \cup {Len(threads) + 1}
    BY DEF ThreadLands
  <1>2. /\ IsFiniteSet(inFlight') /\ Cardinality(inFlight') = Cardinality(inFlight) - 1
    BY <1>0, <1>1, LoseOne DEF RequestsOK
  <1>3. /\ Cardinality(orphans') <= Cardinality(orphans) + 1 /\ Cardinality(orphans') \in Nat
    <2>1. IsFiniteSet(orphans') /\ Cardinality(orphans') <= Cardinality(orphans) + 1
      BY <1>0, <1>1, LateFinite, GainOne
    <2> QED
      BY <2>1, FS_CardinalityType
  <1>4. RequestsOK' /\ Unrecorded'
    BY <1>0, <1>1, <1>2, <1>3, LateFinite DEF RequestsOK, Unrecorded
  <1>5. \A p : /\ Asked(p)' = Asked(p) /\ IssuesOf(p)' = IssuesOf(p)
               /\ Creating(p)' <=> Creating(p)
    BY <1>1 DEF Asked, IssuesOf, Creating
  <1>6. IssuesCounted'
    BY <1>0, <1>1, <1>5 DEF IssuesCounted
  <1>7. SerialInv'
    BY <1>0, ThreadLandsSerial
  <1> QED
    BY <1>4, <1>6, <1>7 DEF LateInv

LEMMA StepLateInv ==
  ASSUME LateInv, MaxIssues <= DetectWindow, [LateNext]_lateVars
  PROVE  LateInv'
  <1>1. CASE [SequentialNext]_vars /\ UNCHANGED inFlight
    <2>1. SerialInv'
      BY <1>1, StepSerialInv DEF LateInv
    <2>2. RequestsOK'
      BY <1>1 DEF LateInv, RequestsOK
    <2> QED
      BY <1>1, <2>1, <2>2, SerialUnrecorded, SerialIssuesCounted DEF LateInv
  <1> QED
    BY <1>1, AbandonCounted, IssueLandsCounted, ThreadLandsCounted DEF LateNext, lateVars

(* LateInv holds in every reachable state, in whatever order requests land.  *)
THEOREM LateInvariant ==
  ASSUME MaxIssues <= DetectWindow
  PROVE  LateSpec => []LateInv
  <1>1. LateInit => LateInv
    <2> SUFFICES ASSUME LateInit PROVE LateInv
      OBVIOUS
    <2>1. /\ inFlight = {} /\ orphans = {} /\ faults = 0 /\ issues = << >>
          /\ \A j \in Jobs : job[j].pc = "idle"
      BY DEF LateInit, Init, NoRun
    <2>2. \A p : Asked(p) = {} /\ IssuesOf(p) = {} /\ ~Creating(p)
      BY <2>1 DEF Asked, IssuesOf, Creating
    <2>3. /\ IsFiniteSet(inFlight)
          /\ Cardinality(inFlight) = 0 /\ Cardinality(orphans) = 0
          /\ \A p : Cardinality(Asked(p)) = 0 /\ Cardinality(IssuesOf(p)) = 0
      BY <2>1, <2>2, FS_EmptySet
    <2>4. RequestsOK
      BY <2>1, <2>3 DEF RequestsOK
    <2>5. Unrecorded
      BY <2>1, <2>3 DEF Unrecorded
    <2>6. IssuesCounted
      BY <2>1, <2>2, <2>3 DEF IssuesCounted
    <2>7. SerialInv
      BY InitSerialInv DEF LateInit
    <2> QED
      BY <2>4, <2>5, <2>6, <2>7 DEF LateInv
  <1>2. LateInv /\ [LateNext]_lateVars => LateInv'
    BY StepLateInv
  <1> QED
    BY <1>1, <1>2, PTL DEF LateSpec

(* The duplicate query and the checkpoints keep the duplicates of a packet   *)
(* within one per run that ended early, whatever lands when.                 *)
THEOREM LateDuplicatesBounded ==
  ASSUME MaxIssues <= DetectWindow
  PROVE  LateSpec => []DuplicatesBoundedByFaults
  <1>1. LateInv => DuplicatesBoundedByFaults
    <2> SUFFICES ASSUME LateInv, NEW p \in Packets
                 PROVE  /\ Cardinality({i \in DOMAIN issues : issues[i].packet = p}) <= 1 + faults
                        /\ Cardinality({t \in DOMAIN threads : threads[t].packet = p}) <= 1 + faults
      BY DEF DuplicatesBoundedByFaults
    <2>0. SerialInv /\ TypeOK /\ RequestsOK /\ Unrecorded /\ IssuesCounted
      BY DEF LateInv, SerialInv, OverlapInv
    <2>1. /\ Cardinality(orphans) \in Nat /\ IsFiniteSet(orphans)
          /\ Cardinality(inFlight) \in Nat /\ faults \in Nat
          /\ Cardinality(IssuesOf(p)) \in Nat /\ Cardinality(Asked(p)) \in Nat
      BY <2>0, LateFinite
    <2>2. Cardinality(IssuesOf(p)) <= 1 + faults
      BY <2>0, <2>1 DEF IssuesCounted
    <2> DEFINE T == {t \in DOMAIN threads : threads[t].packet = p}
    <2>3. \E t : T \subseteq orphans \cup {t}
      BY <2>0, OneThread DEF OneRecordedThreadPerPacket
    <2>4. Cardinality(T) <= Cardinality(orphans) + 1 /\ IsFiniteSet(T)
      BY <2>1, <2>3, GainOne
    <2>5. Cardinality(T) \in Nat
      BY <2>4, FS_CardinalityType
    <2>6. Cardinality(T) <= 1 + faults
      BY <2>0, <2>1, <2>4, <2>5 DEF Unrecorded
    <2> QED
      BY <2>2, <2>6 DEF IssuesOf
  <1> QED
    BY <1>1, LateInvariant, PTL

(* The requests on the way are those of runs.                                *)
LEMMA AbandonRequests ==
  ASSUME TypeOK, RequestsOK, NEW j \in Jobs, NEW what \in {"issue", "thread"}, AbandonRequest(j, what)
  PROVE  RequestsOK'
  <1> DEFINE q == [what |-> what, packet |-> job[j].packet, fault |-> faults + 1]
  <1>1. job[j].packet \in Packets /\ inFlight' = inFlight \cup {q}
    BY RunTypes DEF AbandonRequest, Running
  <1>2. IsFiniteSet(inFlight')
    BY <1>1, GainOne DEF RequestsOK
  <1> QED
    BY <1>1, <1>2 DEF RequestsOK

LEMMA LandsRequests ==
  ASSUME RequestsOK, NEW q \in inFlight, IssueLands(q) \/ ThreadLands(q)
  PROVE  RequestsOK' /\ q.packet \in Packets
  <1>1. inFlight' = inFlight \ {q} /\ q.packet \in Packets
    BY DEF IssueLands, ThreadLands, RequestsOK
  <1> QED
    BY <1>1, LoseOne DEF RequestsOK

(* The rest needs no accounts, and nothing of the page of the query.         *)
LEMMA StepLateSerial ==
  ASSUME SerialInv, RequestsOK, [LateNext]_lateVars
  PROVE  SerialInv' /\ RequestsOK'
  <1>1. CASE [SequentialNext]_vars /\ UNCHANGED inFlight
    BY <1>1, StepSerialInv DEF RequestsOK
  <1>2. ASSUME NEW j \in Jobs, NEW what \in {"issue", "thread"}, AbandonRequest(j, what)
        PROVE  SerialInv' /\ RequestsOK'
    <2>1. SerialInv'
      BY <1>2, AbandonFails, StepSerialInv DEF SequentialNext
    <2> QED
      BY <1>2, <2>1, AbandonRequests DEF SerialInv, OverlapInv
  <1>3. ASSUME NEW q \in inFlight, IssueLands(q) \/ ThreadLands(q)
        PROVE  SerialInv' /\ RequestsOK'
    BY <1>3, LandsRequests, IssueLandsSerial, ThreadLandsSerial
  <1> QED
    BY <1>1, <1>2, <1>3 DEF LateNext, lateVars

THEOREM LateSerialInvariant == LateSpec => [](SerialInv /\ RequestsOK)
  <1>1. LateInit => SerialInv /\ RequestsOK
    BY InitSerialInv, FS_EmptySet DEF LateInit, RequestsOK
  <1>2. SerialInv /\ RequestsOK /\ [LateNext]_lateVars => (SerialInv /\ RequestsOK)'
    BY StepLateSerial
  <1> QED
    BY <1>1, <1>2, PTL DEF LateSpec

(* What lands late is no awaited issue, and nobody who waits is disturbed.   *)
LEMMA LandsAwaitedInv ==
  ASSUME SerialInv, AwaitedInv, NEW q, q.packet \in Packets, IssueLands(q) \/ ThreadLands(q)
  PROVE  AwaitedInv'
  <1>1. CASE IssueLands(q)
    <2>1. /\ UNCHANGED job /\ late' = late \cup {Len(issues) + 1}
          /\ DOMAIN issues' = DOMAIN issues \cup {Len(issues) + 1}
          /\ \A i \in DOMAIN issues : issues'[i] = issues[i]
      BY <1>1, IssueLandsOverlap DEF IssueLands, SerialInv
    <2>2. late' \subseteq DOMAIN issues' /\ DOMAIN issues' \ late' \subseteq DOMAIN issues \ late
      BY <2>1 DEF AwaitedInv
    <2> QED
      BY <2>1, <2>2 DEF AwaitedInv, AwaitedRuns, OneAwaitedIssue
  <1>2. CASE ThreadLands(q)
    <2>1. UNCHANGED <<job, issues, late>>
      BY <1>2 DEF ThreadLands
    <2> QED
      BY <2>1 DEF AwaitedInv, AwaitedRuns, OneAwaitedIssue
  <1> QED
    BY <1>1, <1>2

(* A packet has one issue, apart from those that land after their run has    *)
(* ended: however runs fail and whatever lands when, the duplicate query and *)
(* the checkpoints let no run that waits make a second one.                  *)
THEOREM LateOneAwaitedIssue ==
  ASSUME MaxIssues <= DetectWindow
  PROVE  LateSpec => []OneAwaitedIssue
  <1>1. LateInit => AwaitedInv
    BY DEF LateInit, Init, NoRun, AwaitedInv, AwaitedRuns, OneAwaitedIssue
  <1>2. SerialInv /\ RequestsOK /\ AwaitedInv /\ [LateNext]_lateVars => AwaitedInv'
    <2> SUFFICES ASSUME SerialInv, RequestsOK, AwaitedInv, [LateNext]_lateVars PROVE AwaitedInv'
      OBVIOUS
    <2>1. CASE [SequentialNext]_vars /\ UNCHANGED late
      BY <2>1, StepAwaitedInv
    <2>2. ASSUME NEW j \in Jobs, NEW what \in {"issue", "thread"}, AbandonRequest(j, what)
          PROVE  AwaitedInv'
      <3>1. [SequentialNext]_vars /\ UNCHANGED late
        BY <2>2, AbandonFails DEF SequentialNext, AbandonRequest
      <3> QED
        BY <3>1, StepAwaitedInv
    <2>3. ASSUME NEW q \in inFlight, IssueLands(q) \/ ThreadLands(q) PROVE AwaitedInv'
      BY <2>3, LandsAwaitedInv DEF RequestsOK
    <2> QED
      BY <2>1, <2>2, <2>3 DEF LateNext, lateVars
  <1>3. AwaitedInv => OneAwaitedIssue
    BY DEF AwaitedInv
  <1> QED
    BY <1>1, <1>2, <1>3, LateSerialInvariant, PTL DEF LateSpec

(* Requests that land late make no announcement disappear ...                *)
THEOREM LateThreadAnnounced == LateSpec => []RecordedThreadAnnounced
  BY LateSerialInvariant, PTL DEF SerialInv

(* ... and no record.                                                        *)
LEMMA RecordsKept ==
  ASSUME SerialInv, [LateNext]_lateVars, NEW p \in Packets
  PROVE  /\ stateFile[p].issue # 0 => stateFile'[p].issue = stateFile[p].issue
         /\ stateFile[p].thread # 0 => stateFile'[p].thread = stateFile[p].thread
  <1>1. CASE [SequentialNext]_vars
    BY <1>1, FileStep DEF IssueRecorded, ThreadRecorded
  <1>2. CASE UNCHANGED stateFile
    BY <1>2
  <1> QED
    BY <1>1, <1>2 DEF LateNext, lateVars, AbandonRequest, IssueLands, ThreadLands

THEOREM LateNoLinkForgotten == LateSpec => NoLinkForgotten
  <1> DEFINE A == \A p \in Packets :
         /\ stateFile[p].issue # 0 => stateFile'[p].issue = stateFile[p].issue
         /\ stateFile[p].thread # 0 => stateFile'[p].thread = stateFile[p].thread
  <1>1. SerialInv /\ [LateNext]_lateVars => [A]_vars
    BY RecordsKept
  <1> QED
    BY <1>1, LateSerialInvariant, PTL DEF LateSpec, NoLinkForgotten

-----------------------------------------------------------------------------
(* DispatchPilot: the runs started by the single-packet wrapper while nobody *)
(* runs the planner and the pilot by hand.  The wrapper's lock makes them    *)
(* take turns, so that what one has planned stays true until it has written. *)
USE DEF lateVars, captures, hour     \* tuples of variables

Attempts == 0..2
RunRecord == [pc : Phases, packet : Packets \cup {NoPacket}, attempt : Attempts, failed : BOOLEAN]

UnderPlan == {"pilot", "locked", "dispatch", "wait", "release", "report", "worker"}

(* A run that has dispatched its packet, and one that may still do so.       *)
HasDispatched(r) ==
    /\ run[r].packet # NoPacket
    /\ \/ At(r, "wait") /\ job[r].pc = "done"
       \/ At(r, "worker")
       \/ run[r].pc \in {"release", "report", "end"} /\ ~run[r].failed

MayDispatch(r) ==
    /\ run[r].packet # NoPacket
    /\ \/ run[r].pc \in {"pilot", "locked", "dispatch", "wait"}
       \/ run[r].pc \in {"release", "report"} /\ run[r].failed

RunnerOK(r) ==
    /\ At(r, "idle") => run[r] = NewRun
    /\ At(r, "plan") => run[r].packet = NoPacket /\ ~run[r].failed
    /\ run[r].pc \in UnderPlan => run[r].packet \in Packets
    /\ run[r].packet \in command \cup {NoPacket}
    /\ job[r].pc \in Running => At(r, "wait") /\ job[r].packet = run[r].packet
    /\ HasDispatched(r) => Complete(run[r].packet)
    /\ MayDispatch(r) => recent < MaxPerHour

TakesTurns(r) == ~At(r, "idle") => r \in Wrappers /\ packetLock = r

(* The history keeps the limit, and what it misses is as many runs as have    *)
(* ended early.                                                              *)
WithinLimit == recent <= MaxPerHour
EndedEarly == crashes \in Nat /\ unrecorded <= faults + crashes

PilotInv ==
    /\ PilotTypeOK
    /\ SerialInv
    /\ RequestsOK
    /\ \A r \in Runners : RunnerOK(r) /\ TakesTurns(r)
    /\ WithinLimit
    /\ EndedEarly

(* A wrapper that its caller kills in the worker phase leaves its lock.      *)
Killed(r) ==
    /\ At(r, "worker")
    /\ run' = [run EXCEPT ![r] = NewRun]
    /\ UNCHANGED <<lateVars, captures, packetLock, pilotLock, hour, crashes>>

RunnerActs(r) == RunnerStep(r) \/ JobFails(r) \/ Crash(r) \/ Killed(r)

Idling == DeleteLeftoverLock \/ CooldownPasses \/ HourPasses

Storing == \E p \in Packets : Capture(p) \/ Alias(p)
Outside == RequestLands \/ \E p \in Packets : Relabel(p)

WrapperNext ==
    \/ \E r \in Wrappers : StartWrapper(r)
    \/ \E r \in Runners : RunnerActs(r)
    \/ Idling \/ Storing \/ Outside \/ UNCHANGED allVars

-----------------------------------------------------------------------------
(* What a runner's step makes of its own entry, and of nobody else's.        *)
LEMMA RunnerEntry ==
  ASSUME PilotTypeOK, NEW r \in Runners, RunnerActs(r) \/ StartWrapper(r) \/ StartOperator(r)
  PROVE  \E v \in RunRecord : run' = [run EXCEPT ![r] = v]
  <1>0. run[r] \in RunRecord
    BY DEF PilotTypeOK, RunRecord, Attempts
  <1>t. 0 \in Attempts /\ 1 \in Attempts /\ 2 \in Attempts
    BY DEF Attempts
  <1>a. ASSUME NEW pc \in Phases, run' = [run EXCEPT ![r].pc = pc]
        PROVE  \E v \in RunRecord : run' = [run EXCEPT ![r] = v]
    <2>1. [run[r] EXCEPT !.pc = pc] \in RunRecord
      BY <1>0 DEF RunRecord
    <2> QED
      BY <1>a, <2>1
  <1>b. ASSUME NEW pc \in Phases, NEW f \in BOOLEAN,
               run' = [run EXCEPT ![r].pc = pc, ![r].failed = f]
        PROVE  \E v \in RunRecord : run' = [run EXCEPT ![r] = v]
    <2>1. [run[r] EXCEPT !.pc = pc, !.failed = f] \in RunRecord
      BY <1>0 DEF RunRecord
    <2> QED
      BY <1>b, <2>1
  <1>1. CASE PlanPacket(r)
    <2>1. PICK p \in Queue : run' = [run EXCEPT ![r].pc = "pilot", ![r].packet = p, ![r].attempt = 1]
      BY <1>1 DEF PlanPacket
    <2>2. p \in Packets
      BY <2>1 DEF Queue, Eligible, PilotTypeOK
    <2>3. [run[r] EXCEPT !.pc = "pilot", !.packet = p, !.attempt = 1] \in RunRecord
      BY <1>0, <1>t, <2>2 DEF RunRecord, Phases
    <2> QED
      BY <2>1, <2>3
  <1>2. CASE PlanNothing(r)
    <2> DEFINE pc == IF r \in Operators /\ fileOk THEN "pilot" ELSE "end"
               f == ~fileOk
    <2>1. [run[r] EXCEPT !.pc = pc, !.attempt = 1, !.failed = f] \in RunRecord
      BY <1>0, <1>t DEF RunRecord, Phases
    <2>2. run' = [run EXCEPT ![r] = [run[r] EXCEPT !.pc = pc, !.attempt = 1, !.failed = f]]
      BY <1>2 DEF PlanNothing
    <2> QED
      BY <2>1, <2>2
  <1>3. CASE AcquirePilotLock(r) \/ ExportCandidate(r) \/ StartJob(r) \/ GiveUp(r) \/ GoOn(r)
             \/ StartWrapper(r) \/ StartOperator(r)
    BY <1>3, <1>a
       DEF AcquirePilotLock, ExportCandidate, StartJob, GiveUp, GoOn, StartWrapper, StartOperator, Phases
  <1>4. CASE PilotWithoutLock(r) \/ RefuseExport(r)
    BY <1>4, <1>b DEF PilotWithoutLock, RefuseExport, Phases
  <1>5. CASE JobEnds(r) \/ WorkerPhase(r)
    BY <1>5, <1>b DEF JobEnds, WorkerPhase, Phases
  <1>6. CASE Retry(r)
    <2>1. [run[r] EXCEPT !.pc = "pilot", !.attempt = 2, !.failed = FALSE] \in RunRecord
      BY <1>0, <1>t DEF RunRecord, Phases
    <2> QED
      BY <1>6, <2>1 DEF Retry
  <1>7. CASE ReleasePilotLock(r)
    BY <1>7, <1>a DEF ReleasePilotLock, Phases
  <1>8. CASE EndRun(r) \/ Crash(r) \/ Killed(r)
    <2>1. NewRun \in RunRecord
      BY <1>t DEF NewRun, RunRecord, Phases
    <2> QED
      BY <1>8, <2>1 DEF EndRun, Crash, Killed
  <1>9. CASE JobStep(r) \/ JobFails(r)
    <2>1. run' = [run EXCEPT ![r] = run[r]]
      BY <1>9 DEF JobStep, JobFails, pilotVars, PilotTypeOK
    <2> QED
      BY <1>0, <2>1
  <1> QED
    BY <1>1, <1>2, <1>3, <1>4, <1>5, <1>6, <1>7, <1>8, <1>9 DEF RunnerActs, RunnerStep

LEMMA EntryKeepsRuns ==
  ASSUME PilotTypeOK, NEW r \in Runners, RunnerActs(r) \/ StartWrapper(r) \/ StartOperator(r)
  PROVE  /\ run' \in [Runners -> RunRecord]
         /\ \A k \in Runners \ {r} : run'[k] = run[k]
  BY RunnerEntry DEF PilotTypeOK, RunRecord, Attempts

(* The locks and the counters keep their types.                              *)
LEMMA RestTypes ==
  ASSUME PilotTypeOK, NEW r \in Runners, RunnerActs(r) \/ StartWrapper(r) \/ StartOperator(r)
  PROVE  /\ stored' = stored /\ command' = command
         /\ packetLock' \in Runners \cup {NoRunner} /\ pilotLock' \in Runners \cup {NoRunner}
         /\ recent' \in Nat /\ unrecorded' \in Nat /\ wrote' \subseteq Runners
         /\ cooling' \in BOOLEAN
  <1> USE DEF PilotTypeOK, pilotVars
  <1>1. CASE PlanPacket(r) \/ PlanNothing(r) \/ PilotWithoutLock(r) \/ ExportCandidate(r)
             \/ RefuseExport(r) \/ StartJob(r) \/ JobStep(r) \/ Retry(r) \/ GiveUp(r) \/ GoOn(r)
             \/ WorkerPhase(r)
    BY <1>1 DEF PlanPacket, PlanNothing, PilotWithoutLock, ExportCandidate, RefuseExport, StartJob,
                JobStep, Retry, GiveUp, GoOn, WorkerPhase
  <1>2. CASE AcquirePilotLock(r) \/ ReleasePilotLock(r) \/ EndRun(r) \/ StartWrapper(r)
             \/ StartOperator(r) \/ Killed(r)
    BY <1>2 DEF AcquirePilotLock, ReleasePilotLock, EndRun, StartWrapper, StartOperator, Killed
  <1>4. CASE JobFails(r) \/ Crash(r)
    <2>1. UNCHANGED <<stored, command, packetLock, pilotLock, recent, cooling>> /\ LeaveUnrecorded(r)
      BY <1>4 DEF JobFails, Crash, JobDies
    <2> QED
      BY <2>1 DEF LeaveUnrecorded
  <1>3. CASE JobEnds(r)
    BY <1>3 DEF JobEnds
  <1> QED
    BY <1>1, <1>2, <1>3, <1>4 DEF RunnerActs, RunnerStep

LEMMA RunnerTypeOK ==
  ASSUME PilotTypeOK, NEW r \in Runners, RunnerActs(r) \/ StartWrapper(r) \/ StartOperator(r)
  PROVE  PilotTypeOK'
  BY EntryKeepsRuns, RestTypes DEF PilotTypeOK, RunRecord, Attempts

LEMMA IdlingTypeOK ==
  ASSUME PilotTypeOK, Idling \/ Storing \/ UNCHANGED allVars
  PROVE  /\ PilotTypeOK' /\ UNCHANGED <<lateVars, run, crashes>>
         /\ stored \subseteq stored' /\ command \subseteq command'
         /\ recent' <= recent /\ unrecorded' <= unrecorded
  <1>0. recent \in Nat /\ unrecorded \in Nat
    BY DEF PilotTypeOK
  <1>1. CASE DeleteLeftoverLock
    BY <1>0, <1>1 DEF PilotTypeOK, DeleteLeftoverLock
  <1>2. CASE CooldownPasses
    <2>1. /\ cooling' \in BOOLEAN
          /\ UNCHANGED <<lateVars, captures, packetLock, pilotLock, run, recent, unrecorded, wrote, crashes>>
      BY <1>2 DEF CooldownPasses
    <2> QED
      BY <1>0, <2>1 DEF PilotTypeOK
  <1>3. CASE HourPasses
    <2>1. recent' \in Nat /\ recent' <= recent /\ unrecorded' \in Nat /\ unrecorded' <= unrecorded
      BY <1>0, <1>3 DEF HourPasses
    <2> QED
      BY <1>3, <2>1 DEF PilotTypeOK, HourPasses
  <1>4. ASSUME NEW p \in Packets, Capture(p) \/ Alias(p)
        PROVE  /\ PilotTypeOK' /\ UNCHANGED <<lateVars, run, crashes>>
               /\ stored \subseteq stored' /\ command \subseteq command'
               /\ recent' <= recent /\ unrecorded' <= unrecorded
    <2>1. /\ UNCHANGED <<lateVars, packetLock, pilotLock, run, hour, crashes>>
          /\ stored' \in {stored, stored \cup {p}} /\ command' \in {command, command \cup {p}}
          /\ p \in stored'
      BY <1>4 DEF Capture, Alias, Recent
    <2> QED
      BY <1>0, <2>1 DEF PilotTypeOK
  <1>5. CASE UNCHANGED allVars
    BY <1>0, <1>5 DEF PilotTypeOK, allVars, pilotVars
  <1> QED
    BY <1>1, <1>2, <1>3, <1>4, <1>5 DEF Idling, Storing

-----------------------------------------------------------------------------
(* A step of a dispatch job concerns its own slot; the job goes on with its  *)
(* packet, or it is done and the packet's record is complete.                *)
LEMMA StepResult ==
  ASSUME SerialInv, NEW r \in Jobs, Step(r)
  PROVE  /\ job[r].pc \in Running
         /\ \A k \in Jobs \ {r} : job'[k] = job[k]
         /\ \/ job'[r].pc \in Running /\ job'[r].packet = job[r].packet
            \/ job'[r].pc = "done" /\ \A p : p = job[r].packet => Complete(p)'
  <1> USE DEF Running
  <1>0. job \in [Jobs -> Run] /\ stateFile \in States /\ job[r] \in Run
    BY RunTypes DEF SerialInv, OverlapInv, TypeOK
  <1>1. CASE Detect(r)
    BY <1>0, <1>1 DEF Detect, AfterDetect, AfterIssue, Run
  <1>2. CASE ReuseIssue(r) \/ CreateIssue(r) \/ CreateThread(r) \/ PostMessage(r) \/ CommentIssue(r)
    BY <1>0, <1>2 DEF ReuseIssue, CreateIssue, CreateThread, PostMessage, CommentIssue, Run
  <1>3. CASE CheckpointIssue(r) \/ CheckpointThread(r) \/ CheckpointComment(r)
    BY <1>0, <1>3 DEF CheckpointIssue, CheckpointThread, CheckpointComment, Checkpoint, AfterIssue, Run
  <1>4. CASE Finish(r)
    <2>1. /\ job[r].pc = "finish" /\ job'[r].pc = "done"
          /\ \A k \in Jobs \ {r} : job'[k] = job[k]
          /\ stateFile' = Snapshot(r)
      BY <1>0, <1>4 DEF Finish, NoRun
    <2>2. /\ RunGenuine(job[r]) /\ job[r].packet \in Packets
          /\ Snapshot(r) = [stateFile EXCEPT ![job[r].packet] = job[r].rec]
      BY <2>1, Known
    <2>3. stateFile'[job[r].packet] = job[r].rec
      BY <1>0, <2>1, <2>2 DEF States
    <2>4. job[r].rec.issue # 0 /\ job[r].rec.thread # 0
      BY <2>1, <2>2 DEF RunGenuine, HasIssue, HasThread
    <2> QED
      BY <2>1, <2>3, <2>4 DEF Complete
  <1> QED
    BY <1>1, <1>2, <1>3, <1>4 DEF Step

LEMMA FailResult ==
  ASSUME SerialInv, NEW r \in Jobs, Fail(r)
  PROVE  job'[r].pc = "failed" /\ \A k \in Jobs \ {r} : job'[k] = job[k]
  BY DEF SerialInv, OverlapInv, TypeOK, Fail, NoRun

(* A job that dies fails, and costs a fault.                                 *)
LEMMA DiesResult ==
  ASSUME NEW r \in Runners, JobDies(r)
  PROVE  /\ Fail(r) /\ [LateNext]_lateVars
         /\ faults' = faults + 1 /\ LeaveUnrecorded(r)
  <1>1. CASE Fail(r) /\ UNCHANGED <<inFlight, late>>
    BY <1>1 DEF JobDies, Fail, LateNext, SequentialNext, Runners
  <1>2. ASSUME NEW what \in {"issue", "thread"}, AbandonRequest(r, what)
        PROVE  /\ Fail(r) /\ [LateNext]_lateVars
               /\ faults' = faults + 1 /\ LeaveUnrecorded(r)
    BY <1>2, AbandonFails DEF JobDies, AbandonRequest, LateNext, Runners
  <1> QED
    BY <1>1, <1>2 DEF JobDies

(* Once complete, the record of a packet stays so.                           *)
LEMMA CompleteStays ==
  ASSUME SerialInv, [LateNext]_lateVars, NEW p \in Packets, Complete(p)
  PROVE  Complete(p)'
  BY RecordsKept DEF Complete

(* While a runner is under way no other is, and no other's job runs.         *)
LEMMA Alone ==
  ASSUME PilotInv, NEW r \in Runners, ~At(r, "idle")
  PROVE  /\ r \in Wrappers /\ packetLock = r
         /\ \A k \in Runners \ {r} : /\ At(k, "idle") /\ run[k] = NewRun
                                     /\ job[k].pc \notin Running
  <1>1. r \in Wrappers /\ packetLock = r
    BY DEF PilotInv, TakesTurns
  <1>2. ASSUME NEW k \in Runners \ {r} PROVE At(k, "idle")
    BY <1>1 DEF PilotInv, TakesTurns
  <1>3. ASSUME NEW k \in Runners \ {r} PROVE run[k] = NewRun /\ job[k].pc \notin Running
    BY <1>2 DEF PilotInv, RunnerOK, At
  <1> QED
    BY <1>1, <1>2, <1>3

LEMMA NobodyRuns ==
  ASSUME PilotInv, NEW r \in Runners, ~At(r, "wait"), ~At(r, "idle")
  PROVE  NoneRunning
  <1>1. TypeOK /\ \A k \in Jobs : job[k].pc \notin Running
    BY Alone DEF PilotInv, RunnerOK, SerialInv, OverlapInv, Runners
  <1> QED
    BY <1>1, RunTypes DEF NoneRunning

(* The wrappers' jobs are runs one after the other.                          *)
LEMMA RunnerLate ==
  ASSUME PilotInv, NEW r \in Runners, RunnerActs(r)
  PROVE  [LateNext]_lateVars
  <1>1. CASE StartJob(r)
    <2>1. /\ At(r, "dispatch") /\ (Load(r, run[r].packet) \/ RejectFile(r))
          /\ UNCHANGED <<inFlight, late>>
      BY <1>1 DEF StartJob
    <2>2. NoneRunning /\ run[r].packet \in Packets
      BY <2>1, NobodyRuns DEF At, PilotInv, RunnerOK, UnderPlan
    <2> QED
      BY <2>1, <2>2 DEF LateNext, SequentialNext, Runners
  <1>2. CASE JobStep(r)
    BY <1>2 DEF JobStep, LateNext, SequentialNext, Runners
  <1>3. CASE JobDies(r)
    BY <1>3, DiesResult
  <1>4. CASE UNCHANGED lateVars
    BY <1>4
  <1>5. CASE \/ Killed(r) \/ PlanPacket(r) \/ PlanNothing(r) \/ AcquirePilotLock(r)
             \/ PilotWithoutLock(r) \/ ExportCandidate(r) \/ RefuseExport(r) \/ JobEnds(r)
             \/ ReleasePilotLock(r) \/ Retry(r) \/ GiveUp(r) \/ GoOn(r) \/ WorkerPhase(r) \/ EndRun(r)
    BY <1>5 DEF Killed, PlanPacket, PlanNothing, AcquirePilotLock, PilotWithoutLock, ExportCandidate,
                RefuseExport, JobEnds, ReleasePilotLock, Retry, GiveUp, GoOn, WorkerPhase, EndRun
  <1> QED
    BY <1>1, <1>2, <1>3, <1>4, <1>5 DEF RunnerActs, RunnerStep, JobFails, Crash

(* Every run that leaves something unrecorded has cost a fault or a crash.   *)
LEMMA RunnerEndedEarly ==
  ASSUME PilotInv, NEW r \in Runners, RunnerActs(r)
  PROVE  EndedEarly'
  <1>0. /\ crashes \in Nat /\ unrecorded <= faults + crashes
        /\ unrecorded \in Nat /\ faults \in Nat
    BY DispatchAssumption DEF PilotInv, EndedEarly, PilotTypeOK, SerialInv, OverlapInv, TypeOK
  <1>1. CASE JobFails(r) \/ Crash(r)
    <2>1. /\ LeaveUnrecorded(r)
          /\ \/ faults' = faults + 1 /\ crashes' = crashes
             \/ faults' = faults /\ crashes' = crashes + 1
      BY <1>1, DiesResult DEF JobFails, Crash, vars
    <2>2. unrecorded' \in {unrecorded, unrecorded + 1}
      BY <2>1 DEF LeaveUnrecorded
    <2> QED
      BY <1>0, <2>1, <2>2 DEF EndedEarly
  <1>2. CASE JobStep(r) \/ StartJob(r)
    <2>1. UNCHANGED <<faults, crashes, unrecorded>>
      BY <1>2 DEF JobStep, StartJob, Load, RejectFile, Step, Detect, ReuseIssue, CreateIssue, CreateThread,
                  PostMessage, CommentIssue, CheckpointIssue, CheckpointThread, CheckpointComment,
                  Checkpoint, Finish
    <2> QED
      BY <1>0, <2>1 DEF EndedEarly
  <1>3. CASE UNCHANGED <<lateVars, crashes, unrecorded>>
    BY <1>0, <1>3 DEF EndedEarly, vars
  <1>4. CASE \/ Killed(r) \/ PlanPacket(r) \/ PlanNothing(r) \/ AcquirePilotLock(r)
             \/ PilotWithoutLock(r) \/ ExportCandidate(r) \/ RefuseExport(r) \/ JobEnds(r)
             \/ ReleasePilotLock(r) \/ Retry(r) \/ GiveUp(r) \/ GoOn(r) \/ WorkerPhase(r) \/ EndRun(r)
    BY <1>3, <1>4
       DEF Killed, PlanPacket, PlanNothing, AcquirePilotLock, PilotWithoutLock, ExportCandidate,
           RefuseExport, JobEnds, ReleasePilotLock, Retry, GiveUp, GoOn, WorkerPhase, EndRun
  <1> QED
    BY <1>1, <1>2, <1>4 DEF RunnerActs, RunnerStep

(* An idle runner has planned nothing.                                       *)
LEMMA IdleOK ==
  ASSUME NEW k \in Runners, run'[k] = NewRun, job'[k].pc \notin Running
  PROVE  RunnerOK(k)' /\ TakesTurns(k)' /\ At(k, "idle")'
  BY DEF NewRun, RunnerOK, TakesTurns, At, UnderPlan, HasDispatched, MayDispatch

(* It is enough to look at the runner that acts.                             *)
LEMMA ActorKeeps ==
  ASSUME PilotInv, NEW r \in Runners, ~At(r, "idle"), RunnerActs(r),
         \A k \in Runners \ {r} : job'[k] = job[k],
         RunnerOK(r)', TakesTurns(r)', WithinLimit'
  PROVE  PilotInv'
  <1>1. PilotTypeOK'
    BY RunnerTypeOK DEF PilotInv
  <1>2. SerialInv' /\ RequestsOK'
    BY RunnerLate, StepLateSerial DEF PilotInv
  <1>3. ASSUME NEW k \in Runners \ {r} PROVE RunnerOK(k)' /\ TakesTurns(k)'
    <2>1. run[k] = NewRun /\ job[k].pc \notin Running
      BY Alone
    <2>2. run'[k] = run[k] /\ job'[k] = job[k]
      BY EntryKeepsRuns DEF PilotInv
    <2> QED
      BY <2>1, <2>2, IdleOK
  <1> QED
    BY <1>1, <1>2, <1>3, RunnerEndedEarly DEF PilotInv

(* The actor, action by action.  First those that change its entry only.     *)
LEMMA EntryOK ==
  ASSUME PilotInv, NEW r \in Runners, ~At(r, "wait"), ~At(r, "idle"),
         UNCHANGED <<vars, command, packetLock, recent>>,
         run'[r].pc \notin {"idle", "plan", "wait"},
         run'[r].pc \in UnderPlan => run'[r].packet \in Packets,
         run'[r].packet \in command \cup {NoPacket},
         HasDispatched(r)' => Complete(run'[r].packet),
         MayDispatch(r)' => recent < MaxPerHour
  PROVE  /\ \A k \in Runners \ {r} : job'[k] = job[k]
         /\ RunnerOK(r)' /\ TakesTurns(r)' /\ WithinLimit'
  <1>1. UNCHANGED <<job, stateFile>>
    BY DEF vars
  <1>2. job[r].pc \notin Running /\ r \in Wrappers /\ packetLock = r
    BY Alone DEF PilotInv, RunnerOK
  <1>3. RunnerOK(r)'
    BY <1>1, <1>2 DEF RunnerOK, At, Complete
  <1>4. TakesTurns(r)' /\ WithinLimit'
    BY <1>2 DEF TakesTurns, PilotInv, WithinLimit
  <1> QED
    BY <1>1, <1>3, <1>4

LEMMA PlanningOK ==
  ASSUME PilotInv, NEW r \in Runners, PlanPacket(r) \/ PlanNothing(r)
  PROVE  /\ \A k \in Runners \ {r} : job'[k] = job[k]
         /\ RunnerOK(r)' /\ TakesTurns(r)' /\ WithinLimit'
  <1>0. /\ run \in [Runners -> RunRecord] /\ recent \in Nat /\ MaxPerHour \in Nat
        /\ command \subseteq Packets /\ run[r] \in RunRecord
    BY PilotAssumption DEF PilotInv, PilotTypeOK, RunRecord, Attempts
  <1>1. run[r].pc = "plan" /\ run[r].packet = NoPacket /\ ~run[r].failed
    BY DEF PilotInv, RunnerOK, PlanPacket, PlanNothing, At
  <1>2. ~At(r, "wait") /\ ~At(r, "idle")
    BY <1>1 DEF At
  <1>3. CASE PlanPacket(r)
    <2>1. PICK p \in Queue : run' = [run EXCEPT ![r].pc = "pilot", ![r].packet = p, ![r].attempt = 1]
      BY <1>3 DEF PlanPacket
    <2>2. p \in command /\ p \in Packets /\ ~(recent >= MaxPerHour)
      BY <1>0, <2>1 DEF Queue, Eligible
    <2>3. run'[r].pc = "pilot" /\ run'[r].packet = p
      BY <1>0, <2>1 DEF RunRecord
    <2>4. UNCHANGED <<vars, command, packetLock, recent>> /\ ~HasDispatched(r)'
      BY <1>3, <2>3 DEF PlanPacket, HasDispatched, At
    <2>5. recent < MaxPerHour
      BY <1>0, <2>2
    <2> QED
      BY <1>2, <2>2, <2>3, <2>4, <2>5, EntryOK
  <1>4. CASE PlanNothing(r)
    <2>1. r \notin Operators
      BY <1>2, Alone DEF Wrappers
    <2>2. run'[r].pc = "end" /\ run'[r].packet = NoPacket
      BY <1>0, <1>1, <1>4, <2>1 DEF PlanNothing, RunRecord
    <2>3. UNCHANGED <<vars, command, packetLock, recent>> /\ ~HasDispatched(r)' /\ ~MayDispatch(r)'
      BY <1>4, <2>2 DEF PlanNothing, HasDispatched, MayDispatch
    <2> QED
      BY <1>2, <2>2, <2>3, EntryOK DEF UnderPlan
  <1> QED
    BY <1>3, <1>4

LEMMA PilotActsOK ==
  ASSUME PilotInv, NEW r \in Runners,
         \/ AcquirePilotLock(r) \/ PilotWithoutLock(r) \/ ExportCandidate(r) \/ RefuseExport(r)
         \/ ReleasePilotLock(r)
  PROVE  /\ \A k \in Runners \ {r} : job'[k] = job[k]
         /\ RunnerOK(r)' /\ TakesTurns(r)' /\ WithinLimit'
  <1>0. run \in [Runners -> RunRecord] /\ run[r] \in RunRecord
    BY DEF PilotInv, PilotTypeOK, RunRecord, Attempts
  <1>1. /\ run[r].pc \in {"pilot", "locked", "release"} /\ ~At(r, "wait") /\ ~At(r, "idle")
        /\ UNCHANGED <<vars, command, packetLock, recent>>
    BY DEF AcquirePilotLock, PilotWithoutLock, ExportCandidate, RefuseExport, ReleasePilotLock, At
  <1>2. /\ run[r].packet \in Packets /\ run[r].packet \in command \cup {NoPacket}
        /\ HasDispatched(r) => Complete(run[r].packet)
        /\ MayDispatch(r) => recent < MaxPerHour
    BY <1>1 DEF PilotInv, RunnerOK, UnderPlan
  <1>3. run[r].packet # NoPacket /\ r \notin Operators
    BY <1>1, <1>2, Alone, DispatchAssumption DEF Wrappers
  <1>4. CASE AcquirePilotLock(r) \/ ExportCandidate(r)
    <2>1. /\ run'[r].pc \in {"locked", "dispatch"} /\ run'[r].packet = run[r].packet
          /\ run[r].pc \in {"pilot", "locked"}
      BY <1>0, <1>4 DEF AcquirePilotLock, ExportCandidate, RunRecord, At
    <2>2. ~HasDispatched(r)' /\ MayDispatch(r)
      BY <1>3, <2>1 DEF HasDispatched, MayDispatch, At
    <2> QED
      BY <1>1, <1>2, <2>1, <2>2, EntryOK
  <1>5. CASE PilotWithoutLock(r) \/ RefuseExport(r)
    <2>1. /\ run'[r].pc = "release" /\ run'[r].packet = run[r].packet /\ run'[r].failed
          /\ run[r].pc \in {"pilot", "locked"}
      BY <1>0, <1>3, <1>5 DEF PilotWithoutLock, RefuseExport, RunRecord, At
    <2>2. ~HasDispatched(r)' /\ MayDispatch(r)
      BY <1>3, <2>1 DEF HasDispatched, MayDispatch, At
    <2> QED
      BY <1>1, <1>2, <2>1, <2>2, EntryOK
  <1>6. CASE ReleasePilotLock(r)
    <2>1. /\ run'[r].pc = "report" /\ run'[r].packet = run[r].packet /\ run'[r].failed = run[r].failed
          /\ run[r].pc = "release"
      BY <1>0, <1>3, <1>6 DEF ReleasePilotLock, RunRecord, At
    <2>2. HasDispatched(r)' => HasDispatched(r)
      BY <2>1 DEF HasDispatched, At
    <2>3. MayDispatch(r)' => MayDispatch(r)
      BY <2>1 DEF MayDispatch, At
    <2> QED
      BY <1>1, <1>2, <2>1, <2>2, <2>3, EntryOK
  <1> QED
    BY <1>4, <1>5, <1>6

LEMMA WrapperActsOK ==
  ASSUME PilotInv, NEW r \in Runners, Retry(r) \/ GiveUp(r) \/ GoOn(r) \/ WorkerPhase(r)
  PROVE  /\ \A k \in Runners \ {r} : job'[k] = job[k]
         /\ RunnerOK(r)' /\ TakesTurns(r)' /\ WithinLimit'
  <1>0. run \in [Runners -> RunRecord] /\ run[r] \in RunRecord
    BY DEF PilotInv, PilotTypeOK, RunRecord, Attempts
  <1>1. /\ run[r].pc \in {"report", "worker"} /\ ~At(r, "wait") /\ ~At(r, "idle")
        /\ UNCHANGED <<vars, command, packetLock, recent>>
    BY DEF Retry, GiveUp, GoOn, WorkerPhase, At
  <1>2. /\ run[r].packet \in Packets /\ run[r].packet \in command \cup {NoPacket}
        /\ HasDispatched(r) => Complete(run[r].packet)
        /\ MayDispatch(r) => recent < MaxPerHour
    BY <1>1 DEF PilotInv, RunnerOK, UnderPlan
  <1>3. run[r].packet # NoPacket
    BY <1>2, DispatchAssumption
  <1>4. CASE Retry(r)
    <2>1. /\ run'[r].pc = "pilot" /\ run'[r].packet = run[r].packet
          /\ run[r].pc = "report" /\ run[r].failed
      BY <1>0, <1>4 DEF Retry, RunRecord, At
    <2>2. ~HasDispatched(r)' /\ MayDispatch(r)
      BY <1>3, <2>1 DEF HasDispatched, MayDispatch, At
    <2> QED
      BY <1>1, <1>2, <2>1, <2>2, EntryOK
  <1>5. CASE GiveUp(r)
    <2>1. /\ run'[r].pc = "end" /\ run'[r].packet = run[r].packet /\ run'[r].failed
      BY <1>0, <1>5 DEF GiveUp, RunRecord, At
    <2>2. ~HasDispatched(r)' /\ ~MayDispatch(r)'
      BY <2>1 DEF HasDispatched, MayDispatch, At
    <2> QED
      BY <1>1, <1>2, <2>1, <2>2, EntryOK
  <1>6. CASE GoOn(r) \/ WorkerPhase(r)
    <2>1. CASE GoOn(r)
      <3>1. /\ run'[r].pc = "worker" /\ run'[r].packet = run[r].packet
            /\ run[r].pc = "report" /\ ~run[r].failed
        BY <1>0, <2>1 DEF GoOn, RunRecord, At
      <3>2. HasDispatched(r) /\ ~MayDispatch(r)'
        BY <1>3, <3>1 DEF HasDispatched, MayDispatch, At
      <3> QED
        BY <1>1, <1>2, <3>1, <3>2, EntryOK
    <2>2. CASE WorkerPhase(r)
      <3>1. PICK f \in BOOLEAN : run' = [run EXCEPT ![r].pc = "end", ![r].failed = f]
        BY <2>2 DEF WorkerPhase
      <3>2. run'[r].pc = "end" /\ run'[r].packet = run[r].packet /\ run[r].pc = "worker"
        BY <1>0, <2>2, <3>1 DEF WorkerPhase, RunRecord, At
      <3>3. HasDispatched(r) /\ ~MayDispatch(r)'
        BY <1>3, <3>2 DEF HasDispatched, MayDispatch, At
      <3> QED
        BY <1>1, <1>2, <3>2, <3>3, EntryOK
    <2> QED
      BY <1>6, <2>1, <2>2
  <1> QED
    BY <1>4, <1>5, <1>6

(* Then those that start the dispatch job, wait for it or see it end.        *)
LEMMA JobActsOK ==
  ASSUME PilotInv, NEW r \in Runners, StartJob(r) \/ JobStep(r) \/ JobFails(r)
  PROVE  /\ \A k \in Runners \ {r} : job'[k] = job[k]
         /\ RunnerOK(r)' /\ TakesTurns(r)' /\ WithinLimit'
  <1>0. /\ run \in [Runners -> RunRecord] /\ run[r] \in RunRecord
        /\ SerialInv /\ job \in [Runners -> Run] /\ job[r] \in Run
    BY RunTypes DEF PilotInv, PilotTypeOK, RunRecord, Attempts, SerialInv, OverlapInv, TypeOK, Runners
  <1>1. /\ run[r].pc \in {"dispatch", "wait"} /\ ~At(r, "idle")
        /\ UNCHANGED <<command, packetLock, recent>>
    BY DEF StartJob, JobStep, JobFails, At
  <1>2. /\ run[r].packet \in Packets /\ run[r].packet \in command \cup {NoPacket}
        /\ job[r].pc \in Running => job[r].packet = run[r].packet
        /\ MayDispatch(r) => recent < MaxPerHour
    BY <1>1 DEF PilotInv, RunnerOK, UnderPlan
  <1>3. recent < MaxPerHour /\ r \in Wrappers /\ packetLock = r
    BY <1>1, <1>2, Alone, DispatchAssumption DEF MayDispatch
  <1>4. TakesTurns(r)' /\ WithinLimit'
    BY <1>1, <1>3 DEF TakesTurns, PilotInv, WithinLimit
  <1>a. ASSUME run'[r].pc = "wait", run'[r].packet = run[r].packet,
               job'[r].pc \in Running => job'[r].packet = run[r].packet,
               job'[r].pc = "done" => \A p : p = run[r].packet => Complete(p)'
        PROVE  RunnerOK(r)'
    BY <1>1, <1>2, <1>3, <1>a DEF RunnerOK, HasDispatched, At
  <1>5. CASE StartJob(r)
    <2>1. run'[r].pc = "wait" /\ run'[r].packet = run[r].packet
      BY <1>0, <1>5 DEF StartJob, RunRecord
    <2>2. CASE Load(r, run[r].packet)
      <3>1. /\ job'[r].pc = "detect" /\ job'[r].packet = run[r].packet
            /\ \A k \in Runners \ {r} : job'[k] = job[k]
        BY <1>0, <2>2 DEF Load
      <3> QED
        BY <1>4, <1>a, <2>1, <3>1
    <2>3. CASE RejectFile(r)
      <3>1. job'[r].pc = "failed" /\ \A k \in Runners \ {r} : job'[k] = job[k]
        BY <1>0, <2>3 DEF RejectFile, Run
      <3> QED
        BY <1>4, <1>a, <2>1, <3>1 DEF Running
    <2> QED
      BY <1>5, <2>2, <2>3 DEF StartJob
  <1>6. CASE JobStep(r)
    <2>1. Step(r) /\ run' = run /\ run[r].pc = "wait"
      BY <1>6 DEF JobStep, At
    <2>2. /\ job[r].pc \in Running
          /\ \A k \in Runners \ {r} : job'[k] = job[k]
          /\ \/ job'[r].pc \in Running /\ job'[r].packet = job[r].packet
             \/ job'[r].pc = "done" /\ \A p : p = job[r].packet => Complete(p)'
      BY <1>0, <2>1, StepResult DEF Runners
    <2>3. job'[r].pc \in Running => job'[r].pc # "done"
      BY DEF Running
    <2> QED
      BY <1>2, <1>4, <1>a, <2>1, <2>2, <2>3 DEF Running
  <1>7. CASE JobFails(r)
    <2>1. Fail(r) /\ run' = run /\ run[r].pc = "wait"
      BY <1>7, DiesResult DEF JobFails, At
    <2>2. job'[r].pc = "failed" /\ \A k \in Runners \ {r} : job'[k] = job[k]
      BY <1>0, <2>1, FailResult DEF Runners
    <2> QED
      BY <1>4, <1>a, <2>1, <2>2 DEF Running
  <1> QED
    BY <1>5, <1>6, <1>7

LEMMA JobEndsOK ==
  ASSUME PilotInv, NEW r \in Runners, JobEnds(r)
  PROVE  /\ \A k \in Runners \ {r} : job'[k] = job[k]
         /\ RunnerOK(r)' /\ TakesTurns(r)' /\ WithinLimit'
  <1>0. /\ run \in [Runners -> RunRecord] /\ run[r] \in RunRecord
        /\ recent \in Nat /\ MaxPerHour \in Nat
    BY PilotAssumption DEF PilotInv, PilotTypeOK, RunRecord, Attempts
  <1>1. /\ run[r].pc = "wait" /\ At(r, "wait") /\ ~At(r, "idle")
        /\ UNCHANGED <<stateFile, job, command, packetLock>>
        /\ job[r].pc \in {"done", "failed"}
    BY DEF JobEnds, At, vars
  <1>2. /\ run[r].packet \in Packets /\ run[r].packet \in command \cup {NoPacket}
        /\ HasDispatched(r) => Complete(run[r].packet)
        /\ MayDispatch(r) => recent < MaxPerHour
    BY <1>1 DEF PilotInv, RunnerOK, UnderPlan
  <1>3. /\ run[r].packet # NoPacket /\ recent < MaxPerHour /\ r \in Wrappers /\ packetLock = r
        /\ job[r].pc = "done" => Complete(run[r].packet)
    BY <1>1, <1>2, Alone, DispatchAssumption DEF MayDispatch, HasDispatched
  <1>4. /\ run'[r].pc = "release" /\ run'[r].packet = run[r].packet
        /\ run'[r].failed <=> job[r].pc = "failed"
    BY <1>0 DEF JobEnds, RunRecord
  <1>5. WithinLimit' /\ (job[r].pc = "failed" => recent' = recent)
    BY <1>0, <1>3 DEF JobEnds, WithinLimit
  <1>6. TakesTurns(r)'
    BY <1>1, <1>3 DEF TakesTurns
  <1>7. HasDispatched(r)' => Complete(run[r].packet)
    BY <1>1, <1>3, <1>4 DEF HasDispatched, At
  <1>8. MayDispatch(r)' => recent' < MaxPerHour
    BY <1>3, <1>4, <1>5 DEF MayDispatch
  <1>9. job'[r].pc \notin Running
    BY <1>1 DEF Running
  <1>10. HasDispatched(r)' => Complete(run[r].packet)'
    BY <1>1, <1>4, <1>7 DEF Complete
  <1> QED
    BY <1>1, <1>2, <1>4, <1>5, <1>6, <1>8, <1>9, <1>10 DEF RunnerOK, At

(* At last those that end a run, in whatever way.                            *)
LEMMA EndsOK ==
  ASSUME PilotInv, NEW r \in Runners, ~At(r, "idle"), EndRun(r) \/ Crash(r) \/ Killed(r)
  PROVE  /\ \A k \in Runners \ {r} : job'[k] = job[k]
         /\ RunnerOK(r)' /\ TakesTurns(r)' /\ WithinLimit'
  <1>0. /\ run \in [Runners -> RunRecord] /\ SerialInv
        /\ job[r].pc \in Running \cup Resting
        /\ job[r].pc \in Running => At(r, "wait")
    BY RunTypes DEF PilotInv, PilotTypeOK, RunRecord, Attempts, SerialInv, OverlapInv, Runners, RunnerOK
  <1>1. run'[r] = NewRun /\ UNCHANGED recent
    BY <1>0 DEF EndRun, Crash, Killed
  <1>2. job'[r].pc \notin Running /\ \A k \in Runners \ {r} : job'[k] = job[k]
    <2>1. CASE EndRun(r) \/ Killed(r)
      <3>1. UNCHANGED job /\ ~At(r, "wait")
        BY <2>1 DEF EndRun, Killed, vars, At
      <3> QED
        BY <1>0, <3>1
    <2>2. CASE JobDies(r)
      BY <1>0, <2>2, DiesResult, FailResult DEF Runners, Running
    <2>3. CASE job[r].pc \in Resting /\ UNCHANGED vars
      BY <2>3 DEF vars, Resting, Running
    <2> QED
      BY <2>1, <2>2, <2>3 DEF Crash
  <1>3. RunnerOK(r)' /\ TakesTurns(r)'
    BY <1>1, <1>2, IdleOK
  <1> QED
    BY <1>1, <1>2, <1>3 DEF PilotInv, WithinLimit

LEMMA RunnerKeeps ==
  ASSUME PilotInv, NEW r \in Runners, RunnerActs(r)
  PROVE  PilotInv' /\ [LateNext]_lateVars /\ ~At(r, "idle")
  <1>1. ~At(r, "idle")
    BY DEF RunnerActs, RunnerStep, PlanPacket, PlanNothing, AcquirePilotLock, PilotWithoutLock,
           ExportCandidate, RefuseExport, StartJob, JobStep, JobEnds, ReleasePilotLock, Retry, GiveUp,
           GoOn, WorkerPhase, EndRun, JobFails, Crash, Killed, At
  <1>2. /\ \A k \in Runners \ {r} : job'[k] = job[k]
        /\ RunnerOK(r)' /\ TakesTurns(r)' /\ WithinLimit'
    BY <1>1, PlanningOK, PilotActsOK, WrapperActsOK, JobActsOK, JobEndsOK, EndsOK
       DEF RunnerActs, RunnerStep
  <1> QED
    BY <1>1, <1>2, ActorKeeps, RunnerLate

(* A wrapper that finds no lock file is alone; one that finds one does       *)
(* nothing.                                                                  *)
LEMMA StartKeeps ==
  ASSUME PilotInv, NEW r \in Wrappers, StartWrapper(r)
  PROVE  PilotInv'
  <1>0. /\ r \in Runners /\ run \in [Runners -> RunRecord] /\ run[r] = NewRun
        /\ job[r].pc \notin Running
    BY DEF Wrappers, PilotInv, PilotTypeOK, RunRecord, Attempts, RunnerOK, StartWrapper, At
  <1>1. UNCHANGED <<lateVars, command, recent, unrecorded, crashes>> /\ packetLock' = r /\ packetLock = NoRunner
    BY DEF StartWrapper
  <1>2. UNCHANGED <<job, stateFile>>
    BY <1>1 DEF vars
  <1>3. /\ run'[r].pc = "plan" /\ run'[r].packet = NoPacket /\ ~run'[r].failed
        /\ \A k \in Runners \ {r} : run'[k] = run[k]
    BY <1>0 DEF StartWrapper, NewRun
  <1>4. ASSUME NEW k \in Runners \ {r} PROVE RunnerOK(k)' /\ TakesTurns(k)'
    <2>1. At(k, "idle")
      BY <1>1, PilotAssumption DEF PilotInv, TakesTurns, Runners
    <2>2. run[k] = NewRun /\ job[k].pc \notin Running
      BY <2>1 DEF PilotInv, RunnerOK, At
    <2> QED
      BY <1>2, <1>3, <2>2, IdleOK
  <1>5. RunnerOK(r)' /\ TakesTurns(r)'
    BY <1>0, <1>1, <1>2, <1>3 DEF RunnerOK, TakesTurns, At, UnderPlan, HasDispatched, MayDispatch
  <1>6. PilotTypeOK'
    BY <1>0, RunnerTypeOK DEF PilotInv
  <1>7. SerialInv' /\ RequestsOK' /\ WithinLimit' /\ EndedEarly'
    BY <1>1, StepLateSerial DEF PilotInv, WithinLimit, EndedEarly, vars
  <1> QED
    BY <1>4, <1>5, <1>6, <1>7 DEF PilotInv

(* Nobody has to be stopped for a capture or for the clock.                  *)
LEMMA IdlingKeeps ==
  ASSUME PilotInv, Idling \/ Storing \/ UNCHANGED allVars
  PROVE  PilotInv' /\ UNCHANGED <<lateVars, run>>
  <1>1. /\ PilotTypeOK' /\ UNCHANGED <<lateVars, run, crashes>> /\ command \subseteq command'
        /\ recent' <= recent /\ unrecorded' <= unrecorded
    BY IdlingTypeOK DEF PilotInv
  <1>2. UNCHANGED <<job, stateFile, faults>>
    BY <1>1 DEF vars
  <1>3. /\ recent \in Nat /\ recent' \in Nat /\ MaxPerHour \in Nat
        /\ unrecorded \in Nat /\ unrecorded' \in Nat /\ faults \in Nat
    BY <1>1, PilotAssumption, DispatchAssumption
       DEF PilotInv, PilotTypeOK, SerialInv, OverlapInv, TypeOK
  <1>4. ASSUME NEW r \in Runners PROVE RunnerOK(r)'
    <2>1. RunnerOK(r)
      BY DEF PilotInv
    <2> QED
      BY <1>1, <1>2, <1>3, <2>1 DEF RunnerOK, HasDispatched, MayDispatch, At, Complete
  <1>5. ASSUME NEW r \in Runners PROVE TakesTurns(r)'
    <2>1. TakesTurns(r)
      BY DEF PilotInv
    <2>2. CASE UNCHANGED packetLock
      BY <1>1, <2>1, <2>2 DEF TakesTurns, At
    <2>3. CASE DeleteLeftoverLock
      BY <1>1, <2>1, <2>3 DEF TakesTurns, DeleteLeftoverLock, At
    <2> QED
      BY <2>2, <2>3 DEF Idling, Storing, CooldownPasses, HourPasses, Capture, Alias, allVars, pilotVars
  <1>6. WithinLimit' /\ EndedEarly'
    BY <1>1, <1>2, <1>3 DEF PilotInv, WithinLimit, EndedEarly
  <1>7. SerialInv' /\ RequestsOK'
    BY <1>1, StepLateSerial DEF PilotInv
  <1> QED
    BY <1>1, <1>4, <1>5, <1>6, <1>7 DEF PilotInv

(* What happens at the ledger and in the channel touches neither the runs    *)
(* nor the dispatch state.                                                   *)
LEMMA OutsideKeeps ==
  ASSUME PilotInv, Outside
  PROVE  PilotInv' /\ [LateNext]_lateVars
  <1>1. [LateNext]_lateVars /\ UNCHANGED <<job, stateFile, faults, pilotVars>>
    <2>1. CASE RequestLands
      BY <2>1 DEF RequestLands, IssueLands, ThreadLands, LateNext
    <2>2. ASSUME NEW p \in Packets, Relabel(p)
          PROVE  [LateNext]_lateVars /\ UNCHANGED <<job, stateFile, faults, pilotVars>>
      BY <2>2 DEF Relabel, ReplaceDispatchLabel, LateNext, SequentialNext
    <2> QED
      BY <2>1, <2>2 DEF Outside
  <1>2. UNCHANGED <<stored, command, packetLock, pilotLock, run, recent, unrecorded, wrote, cooling, crashes>>
    BY <1>1 DEF pilotVars
  <1>3. SerialInv' /\ RequestsOK'
    BY <1>1, StepLateSerial DEF PilotInv
  <1>4. PilotTypeOK' /\ WithinLimit' /\ EndedEarly'
    BY <1>1, <1>2 DEF PilotInv, PilotTypeOK, WithinLimit, EndedEarly
  <1>5. ASSUME NEW r \in Runners PROVE RunnerOK(r)' /\ TakesTurns(r)'
    <2>1. RunnerOK(r) /\ TakesTurns(r)
      BY DEF PilotInv
    <2> QED
      BY <1>1, <1>2, <2>1 DEF RunnerOK, TakesTurns, HasDispatched, MayDispatch, At, Complete
  <1> QED
    BY <1>1, <1>3, <1>4, <1>5 DEF PilotInv

LEMMA InitPilotInv == PilotInit => PilotInv
  <1> SUFFICES ASSUME PilotInit PROVE PilotInv
    OBVIOUS
  <1>1. SerialInv /\ RequestsOK
    BY InitSerialInv, FS_EmptySet DEF PilotInit, LateInit, RequestsOK
  <1>2. PilotTypeOK
    <2>1. 0 \in Attempts
      BY DEF Attempts
    <2>2. NewRun \in RunRecord
      BY <2>1 DEF NewRun, RunRecord, Phases
    <2>3. run \in [Runners -> RunRecord]
      BY <2>2 DEF PilotInit
    <2> QED
      BY <2>3 DEF PilotInit, PilotTypeOK, RunRecord, Attempts
  <1>3. ASSUME NEW r \in Runners PROVE RunnerOK(r) /\ TakesTurns(r)
    BY DEF PilotInit, LateInit, Init, NoRun, NewRun, RunnerOK, TakesTurns, At, UnderPlan, HasDispatched,
           MayDispatch, Runners, Running
  <1>4. WithinLimit /\ EndedEarly
    BY PilotAssumption DEF PilotInit, LateInit, Init, WithinLimit, EndedEarly
  <1> QED
    BY <1>1, <1>2, <1>3, <1>4 DEF PilotInv

LEMMA StepPilotInv ==
  ASSUME PilotInv, [WrapperNext]_allVars
  PROVE  PilotInv' /\ [LateNext]_lateVars
  <1>1. ASSUME NEW r \in Wrappers, StartWrapper(r) PROVE PilotInv' /\ [LateNext]_lateVars
    BY <1>1, StartKeeps DEF StartWrapper
  <1>2. CASE Idling \/ Storing \/ UNCHANGED allVars
    BY <1>2, IdlingKeeps
  <1> QED
    BY <1>1, <1>2, RunnerKeeps, OutsideKeeps DEF WrapperNext

LEMMA OnlyWrappers ==
  ASSUME Operators = {}, [PilotNext]_allVars
  PROVE  [WrapperNext]_allVars
  BY DEF PilotNext, WrapperNext, RunnerActs, Idling, Storing, Outside, StartWrapperBusy

(* PilotInv holds in every reachable state when only wrappers run, whatever  *)
(* they are killed in and whatever lock files that leaves.                   *)
THEOREM PilotInvariant ==
  ASSUME Operators = {}
  PROVE  PilotSpec => []PilotInv
  <1>1. PilotInv /\ [PilotNext]_allVars => PilotInv'
    BY OnlyWrappers, StepPilotInv
  <1> QED
    BY <1>1, InitPilotInv, PTL DEF PilotSpec

(* The lock of the wrapper makes its dispatch jobs runs one after the other: *)
(* the unattended path implements the specification of runs that do not      *)
(* overlap but may leave requests behind.                                    *)
THEOREM PilotIsLate ==
  ASSUME Operators = {}
  PROVE  PilotSpec => LateSpec
  <1>1. PilotInit => LateInit
    BY DEF PilotInit
  <1>2. PilotInv /\ [PilotNext]_allVars => [LateNext]_lateVars
    BY OnlyWrappers, StepPilotInv
  <1> QED
    BY <1>1, <1>2, PilotInvariant, PTL DEF PilotSpec, LateSpec

(* The wrapper makes more external writes in an hour than the limit only by  *)
(* runs that ended early: what it has planned within the limit is still      *)
(* within it when its job is done, because nobody else has written in the    *)
(* meantime, and what is missing from the history has cost a fault.          *)
THEOREM PilotWritesBounded ==
  ASSUME Operators = {}
  PROVE  PilotSpec => []WritesBoundedByFaults
  <1>1. PilotInv => WritesBoundedByFaults
    <2> SUFFICES ASSUME PilotInv PROVE WritesBoundedByFaults
      OBVIOUS
    <2>1. /\ recent \in Nat /\ unrecorded \in Nat /\ faults \in Nat /\ crashes \in Nat
          /\ MaxPerHour \in Nat /\ recent <= MaxPerHour /\ unrecorded <= faults + crashes
      BY PilotAssumption, DispatchAssumption
         DEF PilotInv, PilotTypeOK, SerialInv, OverlapInv, TypeOK, WithinLimit, EndedEarly
    <2> QED
      BY <2>1 DEF WritesBoundedByFaults
  <1> QED
    BY <1>1, PilotInvariant, PTL

(* The unattended path, with its kills and retries, gives a command a second *)
(* issue only by a request that lands after its job is gone.                 *)
THEOREM PilotOneAwaitedIssue ==
  ASSUME Operators = {}, MaxIssues <= DetectWindow
  PROVE  PilotSpec => []OneAwaitedIssue
  BY PilotIsLate, LateOneAwaitedIssue, PTL

-----------------------------------------------------------------------------
(* CaptureTrigger.  First what holds with an operator at work as well: the   *)
(* types, and that a job is only started for a packet that was planned.      *)
Planned == \A r \in Runners : run[r].pc \in {"locked", "dispatch"} => run[r].packet # NoPacket

CallersStored == \A r \in Wrappers : caller[r] \in stored \cup {NoPacket, Browser}

TypesInv ==
    /\ TriggerTypeOK
    /\ OverlapInv
    /\ RequestsOK
    /\ Planned
    /\ CallersStored
    /\ IsFiniteSet(stored)

(* The parts of a step of the trigger that are steps of DispatchPilot.       *)
LEMMA TriggerParts ==
  ASSUME [TriggerNext]_allTriggerVars
  PROVE  \/ \E r \in Runners : RunnerActs(r)
         \/ \E r \in Wrappers : StartWrapper(r)
         \/ Idling \/ Storing \/ Outside \/ UNCHANGED allVars
         \/ \E r \in Operators : StartOperator(r) /\ operated'
  <1>1. ASSUME NEW p \in Packets, PostCapture(p) \/ ImportCapture(p) \/ AliasQuietly(p) PROVE Storing
    BY <1>1 DEF PostCapture, ImportCapture, AliasQuietly, Storing
  <1>2. ASSUME NEW p \in Packets, NEW r \in Wrappers, TriggerRun(p, r) PROVE StartWrapper(r)
    BY <1>2 DEF TriggerRun
  <1>3. ASSUME NEW p \in Packets, TriggerBusy(p) PROVE UNCHANGED allVars
    BY <1>3 DEF TriggerBusy, StartWrapperBusy
  <1>4. ASSUME ServerEnds PROVE UNCHANGED allVars
    BY <1>4 DEF ServerEnds
  <1>5. ASSUME NEW r \in Wrappers, RunFromBrowser(r) PROVE StartWrapper(r)
    BY <1>5 DEF RunFromBrowser
  <1>6. ASSUME NEW r \in Wrappers, ServerTimesOut(r) PROVE UNCHANGED allVars
    BY <1>6 DEF ServerTimesOut
  <1>7. ASSUME NEW r \in Wrappers, RunnerTimesOut(r) \/ EndTriggered(r) \/ CrashTriggered(r)
        PROVE  RunnerActs(r) /\ r \in Runners
    BY <1>7 DEF RunnerTimesOut, EndTriggered, CrashTriggered, RunnerActs, RunnerStep, Killed, Wrappers
  <1>8. ASSUME NEW r \in Operators, RunByOperator(r) PROVE StartOperator(r) /\ operated'
    BY <1>8 DEF RunByOperator
  <1>9. ASSUME NEW r \in Runners, Proceed(r) PROVE RunnerActs(r)
    BY <1>9 DEF Proceed, RunnerActs, RunnerStep
  <1>10. ASSUME NEW r \in Operators, EndRun(r) \/ Crash(r) PROVE RunnerActs(r) /\ r \in Runners
    BY <1>10, PilotAssumption DEF RunnerActs, RunnerStep, Runners
  <1>11. ASSUME NEW p \in Packets, ApplyLabels(p) PROVE Outside
    BY <1>11 DEF ApplyLabels, Outside
  <1> QED
    BY <1>1, <1>2, <1>3, <1>4, <1>5, <1>6, <1>7, <1>8, <1>9, <1>10, <1>11
       DEF TriggerNext, Idling, Outside, allTriggerVars

(* Every job is a run of DispatchJob, overlapping or not, and every request  *)
(* on the way has come from one.                                             *)
LEMMA TriggerOverlap ==
  ASSUME TypesInv, [TriggerNext]_allTriggerVars
  PROVE  OverlapInv' /\ RequestsOK'
  <1>0. OverlapInv /\ TypeOK /\ RequestsOK
    BY DEF TypesInv, OverlapInv
  <1>a. ASSUME [Next]_vars PROVE OverlapInv'
    BY <1>0, <1>a, StepTypeOK, StepRecordedLinksExist, StepRunsGenuine DEF OverlapInv
  <1>b. ASSUME [Next]_vars, UNCHANGED inFlight PROVE OverlapInv' /\ RequestsOK'
    BY <1>0, <1>a, <1>b DEF RequestsOK
  <1>1. ASSUME NEW r \in Runners, RunnerActs(r) PROVE OverlapInv' /\ RequestsOK'
    <2>1. CASE StartJob(r)
      <3>1. run[r].packet \in Packets
        <4>1. run[r] \in RunRecord
          BY DEF TypesInv, TriggerTypeOK, PilotTypeOK, RunRecord, Attempts
        <4> QED
          BY <2>1, <4>1 DEF TypesInv, Planned, StartJob, At, RunRecord
      <3> QED
        BY <1>b, <2>1, <3>1 DEF StartJob, Next, Runners
    <2>2. CASE JobStep(r)
      BY <1>b, <2>2 DEF JobStep, Next, Runners
    <2>3. CASE JobDies(r)
      <3>1. Fail(r) /\ r \in Jobs
        BY <2>3, DiesResult DEF Runners
      <3>2. OverlapInv'
        BY <1>a, <3>1 DEF Next
      <3>3. RequestsOK'
        BY <1>0, <1>b, <2>3, <3>1, AbandonRequests DEF JobDies, Next
      <3> QED
        BY <3>2, <3>3
    <2>4. CASE UNCHANGED lateVars
      BY <1>b, <2>4
    <2>5. CASE \/ Killed(r) \/ PlanPacket(r) \/ PlanNothing(r) \/ AcquirePilotLock(r)
               \/ PilotWithoutLock(r) \/ ExportCandidate(r) \/ RefuseExport(r) \/ JobEnds(r)
               \/ ReleasePilotLock(r) \/ Retry(r) \/ GiveUp(r) \/ GoOn(r) \/ WorkerPhase(r) \/ EndRun(r)
      BY <2>4, <2>5
         DEF Killed, PlanPacket, PlanNothing, AcquirePilotLock, PilotWithoutLock, ExportCandidate,
             RefuseExport, JobEnds, ReleasePilotLock, Retry, GiveUp, GoOn, WorkerPhase, EndRun
    <2> QED
      BY <1>1, <2>1, <2>2, <2>3, <2>4, <2>5 DEF RunnerActs, RunnerStep, JobFails, Crash
  <1>2. ASSUME NEW r, StartWrapper(r) \/ StartOperator(r) PROVE OverlapInv' /\ RequestsOK'
    BY <1>b, <1>2 DEF StartWrapper, StartOperator
  <1>3. CASE Idling \/ Storing \/ UNCHANGED allVars
    BY <1>b, <1>3, IdlingTypeOK DEF TypesInv, TriggerTypeOK
  <1>4. CASE RequestLands
    <2>1. PICK q \in inFlight : IssueLands(q) \/ ThreadLands(q)
      BY <1>4 DEF RequestLands
    <2>2. RequestsOK' /\ q.packet \in Packets
      BY <1>0, <2>1, LandsRequests
    <2> QED
      BY <1>0, <2>1, <2>2, IssueLandsOverlap, ThreadLandsOverlap
  <1>5. ASSUME NEW p \in Packets, Relabel(p) PROVE OverlapInv' /\ RequestsOK'
    BY <1>b, <1>5 DEF Relabel, Next
  <1> QED
    BY <1>1, <1>2, <1>3, <1>4, <1>5, TriggerParts DEF Outside

LEMMA StepPlanned ==
  ASSUME TypesInv, [TriggerNext]_allTriggerVars
  PROVE  PilotTypeOK' /\ Planned' /\ stored \subseteq stored' /\ IsFiniteSet(stored')
  <1>0. /\ PilotTypeOK /\ Planned /\ IsFiniteSet(stored)
        /\ run \in [Runners -> RunRecord]
    BY DEF TypesInv, TriggerTypeOK, PilotTypeOK, RunRecord, Attempts
  <1>1. ASSUME NEW r \in Runners, RunnerActs(r) \/ StartWrapper(r) \/ StartOperator(r)
        PROVE  PilotTypeOK' /\ Planned' /\ stored \subseteq stored' /\ IsFiniteSet(stored')
    <2>1. /\ PilotTypeOK' /\ stored' = stored
          /\ \A k \in Runners \ {r} : run'[k] = run[k]
      BY <1>0, <1>1, RunnerTypeOK, RestTypes, EntryKeepsRuns
    <2>2. run'[r].pc \in {"locked", "dispatch"} => run'[r].packet # NoPacket
      <3>0. run[r] \in RunRecord
        BY <1>0
      <3>1. CASE AcquirePilotLock(r) \/ ExportCandidate(r)
        BY <1>0, <3>0, <3>1 DEF AcquirePilotLock, ExportCandidate, RunRecord, Planned, At
      <3>2. CASE PlanPacket(r)
        <4>1. \E p : run' = [run EXCEPT ![r].pc = "pilot", ![r].packet = p, ![r].attempt = 1]
          BY <3>2 DEF PlanPacket
        <4> QED
          BY <1>0, <3>0, <4>1 DEF RunRecord
      <3>6. CASE PlanNothing(r)
        BY <1>0, <3>0, <3>6 DEF PlanNothing, RunRecord
      <3>7. CASE PilotWithoutLock(r) \/ RefuseExport(r)
        BY <1>0, <3>0, <3>7 DEF PilotWithoutLock, RefuseExport, RunRecord
      <3>8. CASE StartJob(r) \/ JobEnds(r) \/ ReleasePilotLock(r)
        BY <1>0, <3>0, <3>8 DEF StartJob, JobEnds, ReleasePilotLock, RunRecord
      <3>3. CASE Retry(r) \/ GiveUp(r) \/ GoOn(r) \/ WorkerPhase(r) \/ StartWrapper(r)
                 \/ StartOperator(r)
        BY <1>0, <3>0, <3>3 DEF Retry, GiveUp, GoOn, WorkerPhase, StartWrapper, StartOperator, RunRecord
      <3>4. CASE EndRun(r) \/ Crash(r) \/ Killed(r)
        BY <1>0, <3>4 DEF EndRun, Crash, Killed, NewRun
      <3>5. CASE JobStep(r) \/ JobFails(r)
        BY <1>0, <3>5 DEF JobStep, JobFails, Planned
      <3> QED
        BY <1>1, <3>1, <3>2, <3>3, <3>4, <3>5, <3>6, <3>7, <3>8 DEF RunnerActs, RunnerStep
    <2> QED
      BY <1>0, <2>1, <2>2 DEF Planned
  <1>2. CASE Idling \/ Storing \/ UNCHANGED allVars
    <2>1. PilotTypeOK' /\ UNCHANGED run /\ stored \subseteq stored'
      BY <1>0, <1>2, IdlingTypeOK
    <2>2. \E p : stored' \subseteq stored \cup {p}
      BY <1>2 DEF Idling, Storing, DeleteLeftoverLock, CooldownPasses, HourPasses, Capture, Alias,
                  allVars, pilotVars
    <2> QED
      BY <1>0, <2>1, <2>2, GainOne DEF Planned
  <1>4. CASE Outside
    <2>1. UNCHANGED pilotVars
      BY <1>4 DEF Outside, RequestLands, Relabel
    <2> QED
      BY <1>0, <2>1 DEF pilotVars, PilotTypeOK, Planned
  <1>3. Wrappers \subseteq Runners /\ Operators \subseteq Runners
    BY PilotAssumption DEF Wrappers, Runners
  <1> QED
    BY <1>1, <1>2, <1>3, <1>4, TriggerParts

(* The bookkeeping of the requests keeps its types.                          *)
LEMMA StepRequestTypes ==
  ASSUME TypesInv, [TriggerNext]_allTriggerVars, stored \subseteq stored'
  PROVE  /\ asked' \subseteq stored' /\ vain' \subseteq stored'
         /\ caller' \in [Wrappers -> Packets \cup {NoPacket, Browser}]
         /\ summary' \in [Packets -> Packets \cup {NoPacket}]
         /\ operated' \in BOOLEAN
         /\ CallersStored'
         /\ unasked' \subseteq stored' /\ aside' \in 0..MaxAside
  <1>0. /\ asked \subseteq stored /\ vain \subseteq stored /\ stored \subseteq Packets
        /\ caller \in [Wrappers -> Packets \cup {NoPacket, Browser}]
        /\ summary \in [Packets -> Packets \cup {NoPacket}]
        /\ operated \in BOOLEAN
        /\ CallersStored
        /\ unasked \subseteq stored /\ aside \in 0..MaxAside
        /\ \A r \in Wrappers : run[r].packet \in Packets \cup {NoPacket}
    BY DEF TypesInv, TriggerTypeOK, PilotTypeOK, Wrappers
  <1>1. ASSUME NEW r \in Wrappers PROVE VainBy(r) \subseteq stored /\ Summarise(r) \in [Packets -> Packets \cup {NoPacket}]
    <2>1. VainBy(r) \subseteq stored
      BY <1>0, TriggerAssumption, DispatchAssumption DEF VainBy, CalledFor, CallersStored
    <2>2. Summarise(r) \in [Packets -> Packets \cup {NoPacket}]
      BY <1>0 DEF Summarise
    <2> QED
      BY <2>1, <2>2
  <1>2. ASSUME UNCHANGED caller \/ (\E r \in Wrappers, c \in stored' \cup {NoPacket, Browser} : caller' = [caller EXCEPT ![r] = c])
        PROVE  caller' \in [Wrappers -> Packets \cup {NoPacket, Browser}] /\ CallersStored'
    <2>1. stored' \subseteq Packets
      BY StepPlanned DEF PilotTypeOK
    <2>2. CASE UNCHANGED caller
      BY <1>0, <2>2 DEF CallersStored
    <2>3. ASSUME NEW r \in Wrappers, NEW c \in stored' \cup {NoPacket, Browser},
                 caller' = [caller EXCEPT ![r] = c]
          PROVE  caller' \in [Wrappers -> Packets \cup {NoPacket, Browser}] /\ CallersStored'
      <3>1. caller' \in [Wrappers -> Packets \cup {NoPacket, Browser}]
        BY <1>0, <2>1, <2>3
      <3>2. \A k \in Wrappers : caller'[k] \in {caller[k], c}
        BY <1>0, <2>3
      <3> QED
        BY <1>0, <3>1, <3>2 DEF CallersStored
    <2> QED
      BY <1>2, <2>2, <2>3
  <1>3. ASSUME NEW p \in Packets, PostCapture(p) \/ ImportCapture(p) \/ AliasQuietly(p)
        PROVE  /\ asked' \subseteq stored' /\ UNCHANGED <<caller, summary, vain, operated>>
    BY <1>0, <1>3 DEF PostCapture, ImportCapture, AliasQuietly, Capture
  <1>4. ASSUME NEW p \in Packets, NEW r \in Wrappers, TriggerRun(p, r)
        PROVE  /\ asked' \subseteq asked /\ UNCHANGED <<summary, vain, operated>>
               /\ \E c \in stored' \cup {NoPacket, Browser} : caller' = [caller EXCEPT ![r] = c]
    BY <1>0, <1>4 DEF TriggerRun
  <1>5. ASSUME NEW p \in Packets, TriggerBusy(p)
        PROVE  asked' \subseteq asked /\ vain' \subseteq stored /\ UNCHANGED <<caller, summary, operated>>
    BY <1>0, <1>5 DEF TriggerBusy
  <1>6. ASSUME ServerEnds
        PROVE  asked' \subseteq asked /\ vain' \subseteq stored /\ UNCHANGED <<caller, summary, operated>>
    BY <1>0, <1>6 DEF ServerEnds
  <1>7. ASSUME NEW r \in Wrappers, RunFromBrowser(r) \/ ServerTimesOut(r) \/ RunnerTimesOut(r)
        PROVE  /\ UNCHANGED <<asked, summary, vain, operated>>
               /\ \E c \in stored' \cup {NoPacket, Browser} : caller' = [caller EXCEPT ![r] = c]
    BY <1>7 DEF RunFromBrowser, ServerTimesOut, RunnerTimesOut
  <1>8. ASSUME NEW r \in Wrappers, EndTriggered(r) \/ CrashTriggered(r)
        PROVE  /\ UNCHANGED <<asked, operated>> /\ vain' \subseteq stored
               /\ summary' \in [Packets -> Packets \cup {NoPacket}]
               /\ \E c \in stored' \cup {NoPacket, Browser} : caller' = [caller EXCEPT ![r] = c]
    BY <1>0, <1>1, <1>8 DEF EndTriggered, CrashTriggered
  <1>9. ASSUME NEW r \in Operators, RunByOperator(r)
        PROVE  UNCHANGED <<asked, caller, summary, vain>> /\ operated' = TRUE
    BY <1>9 DEF RunByOperator
  <1>10. CASE UNCHANGED triggerVars
    BY <1>0, <1>2, <1>10 DEF triggerVars
  <1>13. ASSUME NEW p \in Packets, ApplyLabels(p)
         PROVE  UNCHANGED <<asked, caller, summary, vain, operated>>
    BY <1>13 DEF ApplyLabels
  <1>11. aside' \in 0..MaxAside
    <2>1. UNCHANGED aside \/ Aside
      BY DEF TriggerNext, allTriggerVars, triggerVars, PostCapture, ImportCapture, AliasQuietly, ApplyLabels, TriggerRun,
             TriggerBusy, ServerEnds, RunFromBrowser, ServerTimesOut, RunnerTimesOut, EndTriggered,
             CrashTriggered, RunByOperator
    <2> QED
      BY <1>0, <2>1, TriggerAssumption DEF Aside
  <1>12. unasked' \subseteq stored'
    <2>1. UNCHANGED unasked \/ \E p \in Packets : ImportCapture(p) \/ AliasQuietly(p)
      BY DEF TriggerNext, allTriggerVars, triggerVars, PostCapture, ApplyLabels, TriggerRun, TriggerBusy, ServerEnds,
             RunFromBrowser, ServerTimesOut, RunnerTimesOut, EndTriggered, CrashTriggered, RunByOperator
    <2> QED
      BY <1>0, <2>1 DEF ImportCapture, AliasQuietly, Capture, Alias, Recent
  <1> QED
    BY <1>0, <1>2, <1>3, <1>4, <1>5, <1>6, <1>7, <1>8, <1>9, <1>10, <1>11, <1>12, <1>13
       DEF TriggerNext, allTriggerVars

LEMMA StepTypesInv ==
  ASSUME TypesInv, [TriggerNext]_allTriggerVars
  PROVE  TypesInv'
  <1>1. /\ PilotTypeOK' /\ Planned' /\ stored \subseteq stored' /\ IsFiniteSet(stored')
    BY StepPlanned
  <1>2. OverlapInv' /\ RequestsOK'
    BY TriggerOverlap
  <1> QED
    BY <1>1, <1>2, StepRequestTypes DEF TypesInv, TriggerTypeOK

LEMMA InitTypesInv == TriggerInit => TypesInv
  <1> SUFFICES ASSUME TriggerInit PROVE TypesInv
    OBVIOUS
  <1>1. PilotTypeOK
    BY InitPilotInv DEF TriggerInit, PilotInv
  <1>2. OverlapInv /\ RequestsOK
    BY InitOverlapInv, FS_EmptySet DEF TriggerInit, PilotInit, LateInit, RequestsOK
  <1>3. Planned
    BY DEF TriggerInit, PilotInit, NewRun, Planned
  <1>4. /\ stored = {} /\ asked = {} /\ vain = {} /\ unasked = {} /\ operated = FALSE /\ aside = 0
        /\ MaxAside \in Nat
    BY TriggerAssumption DEF TriggerInit, PilotInit
  <1>5. caller = [r \in Wrappers |-> NoPacket] /\ summary = [p \in Packets |-> NoPacket]
    BY DEF TriggerInit
  <1>6. /\ caller \in [Wrappers -> Packets \cup {NoPacket, Browser}]
        /\ summary \in [Packets -> Packets \cup {NoPacket}]
    BY <1>5
  <1>7. aside \in 0..MaxAside
    BY <1>4
  <1>8. TriggerTypeOK
    BY <1>1, <1>4, <1>6, <1>7 DEF TriggerTypeOK
  <1> QED
    BY <1>2, <1>3, <1>4, <1>5, <1>8, FS_EmptySet DEF TypesInv, CallersStored

(* The types of the trigger, and genuine records, with any number of         *)
(* operators and wrappers at work.                                           *)
THEOREM TriggerTypes == TriggerSpec => []TypesInv
  <1>1. TypesInv /\ [TriggerNext]_allTriggerVars => TypesInv'
    BY StepTypesInv
  <1> QED
    BY <1>1, InitTypesInv, PTL DEF TriggerSpec

(* Whoever starts the runs, the state file names what exists and belongs to  *)
(* the packet.                                                               *)
THEOREM TriggerLinksExist == TriggerSpec => []RecordedLinksExist
  BY TriggerTypes, PTL DEF TypesInv, OverlapInv

-----------------------------------------------------------------------------
(* As long as no operator has been at work, PilotInv holds as well, every    *)
(* command that waits has a request of its own to its account, and summaries *)
(* of success are true.                                                      *)
SummariesTrue == \A p \in Packets : summary[p] # NoPacket => Complete(summary[p])

Account == Requests \cap command
AccountsKept == Cardinality(Waiting) <= Cardinality(Account)

TriggerStrong ==
    /\ TypesInv
    /\ ~operated => PilotInv /\ AccountsKept /\ SummariesTrue

(* The runs whose request has not been met so far.                           *)
Seeking == {w \in Wrappers : ~At(w, "idle") /\ Fruitless(w)}
Notes == asked \cup vain \cup unasked

LEMMA RequestMember ==
  ASSUME NEW x
  PROVE  x \in Requests <=> \/ x \in Notes
                            \/ x \in Packets /\ \E w \in Seeking : caller[w] = x
  BY DEF Requests, CalledFor, Seeking, Notes

LEMMA AccountsFinite ==
  ASSUME TypesInv
  PROVE  /\ IsFiniteSet(Waiting) /\ Cardinality(Waiting) \in Nat
         /\ Requests \subseteq stored
         /\ IsFiniteSet(Account) /\ Cardinality(Account) \in Nat
  <1>1. Waiting \subseteq stored
    BY DEF Waiting, TypesInv, TriggerTypeOK, PilotTypeOK
  <1>2. Requests \subseteq stored
    <2> SUFFICES ASSUME NEW x \in Requests PROVE x \in stored
      OBVIOUS
    <2>1. ASSUME x \in Packets, NEW w \in Seeking, caller[w] = x PROVE x \in stored
      BY <2>1, TriggerAssumption, DispatchAssumption DEF TypesInv, CallersStored, Seeking
    <2> QED
      BY <2>1, RequestMember DEF TypesInv, TriggerTypeOK, Notes
  <1>3. Account \subseteq stored
    BY <1>2 DEF Account
  <1> QED
    BY <1>1, <1>2, <1>3, FS_Subset, FS_CardinalityType DEF TypesInv

LEMMA AccountsFiniteNext ==
  TypesInv' => /\ (IsFiniteSet(Waiting) /\ Cardinality(Waiting) \in Nat)'
               /\ (IsFiniteSet(Account) /\ Cardinality(Account) \in Nat)'
  <1>1. TypesInv => /\ IsFiniteSet(Waiting) /\ Cardinality(Waiting) \in Nat
                    /\ IsFiniteSet(Account) /\ Cardinality(Account) \in Nat
    BY AccountsFinite
  <1> QED
    BY <1>1, PTL

(* The four ways in which a step can change the two sides of the account.    *)
LEMMA AccountsStep ==
  ASSUME TypesInv, TypesInv', AccountsKept, command \subseteq command',
         \/ Waiting' = {}
         \/ Waiting' \subseteq Waiting /\ Requests \subseteq Requests'
         \/ \E p \in command' \ Account : /\ Waiting' \subseteq Waiting \cup {p}
                                        /\ Requests \cup {p} \subseteq Requests'
         \/ \E p \in Waiting : \E c : /\ Waiting' \subseteq Waiting \ {p}
                                      /\ Requests \subseteq Requests' \cup {c}
  PROVE  AccountsKept'
  <1>0. /\ IsFiniteSet(Waiting) /\ Cardinality(Waiting) \in Nat
        /\ IsFiniteSet(Account) /\ Cardinality(Account) \in Nat
        /\ Cardinality(Waiting) <= Cardinality(Account)
    BY AccountsFinite DEF AccountsKept
  <1>1. /\ IsFiniteSet(Waiting') /\ Cardinality(Waiting') \in Nat
        /\ IsFiniteSet(Account') /\ Cardinality(Account') \in Nat
    BY AccountsFiniteNext
  <1>2. CASE Waiting' = {}
    <2>1. Cardinality(Waiting') = 0
      BY <1>2, FS_EmptySet
    <2> QED
      BY <1>1, <2>1 DEF AccountsKept
  <1>3. CASE Waiting' \subseteq Waiting /\ Requests \subseteq Requests'
    <2>1. Account \subseteq Account'
      BY <1>3 DEF Account
    <2>2. Cardinality(Waiting') <= Cardinality(Waiting) /\ Cardinality(Account) <= Cardinality(Account')
      BY <1>0, <1>1, <1>3, <2>1, FS_Subset
    <2> QED
      BY <1>0, <1>1, <2>2 DEF AccountsKept
  <1>4. ASSUME NEW p \in command' \ Account, Waiting' \subseteq Waiting \cup {p},
               Requests \cup {p} \subseteq Requests'
        PROVE  AccountsKept'
    <2>1. Cardinality(Waiting') <= Cardinality(Waiting) + 1
      BY <1>0, <1>4, GainOne
    <2>2. IsFiniteSet(Account \cup {p}) /\ Cardinality(Account \cup {p}) = Cardinality(Account) + 1
      BY <1>0, <1>4, FS_AddElement
    <2>3. Account \cup {p} \subseteq Account'
      BY <1>4 DEF Account
    <2>4. Cardinality(Account \cup {p}) <= Cardinality(Account')
      BY <1>1, <2>3, FS_Subset
    <2> QED
      BY <1>0, <1>1, <2>1, <2>2, <2>4 DEF AccountsKept
  <1>5. ASSUME NEW p \in Waiting, NEW c, Waiting' \subseteq Waiting \ {p},
               Requests \subseteq Requests' \cup {c}
        PROVE  AccountsKept'
    <2>1. IsFiniteSet(Waiting \ {p}) /\ Cardinality(Waiting \ {p}) = Cardinality(Waiting) - 1
      BY <1>0, LoseOne
    <2>2. Cardinality(Waiting') <= Cardinality(Waiting \ {p})
      BY <1>5, <2>1, FS_Subset
    <2>3. Account \subseteq Account' \cup {c}
      BY <1>5 DEF Account
    <2>4. Cardinality(Account) <= Cardinality(Account') + 1
      BY <1>1, <2>3, GainOne
    <2> QED
      BY <1>0, <1>1, <2>1, <2>2, <2>4 DEF AccountsKept
  <1> QED
    BY <1>2, <1>3, <1>4, <1>5

-----------------------------------------------------------------------------
(* The dispatch state changes for the packet of the run only, and an entry   *)
(* stays.                                                                    *)
LEMMA RecordsStep ==
  ASSUME PilotInv, NEW r \in Runners, RunnerActs(r)
  PROVE  /\ \A q \in Packets : q # run[r].packet => stateFile'[q] = stateFile[q]
         /\ \A q \in Packets : InState(q) => InState(q)'
         /\ UNCHANGED stateFile \/ JobStep(r)
  <1>1. /\ UNCHANGED stateFile \/ JobStep(r)
    BY DEF RunnerActs, RunnerStep, PlanPacket, PlanNothing, AcquirePilotLock, PilotWithoutLock,
           ExportCandidate, RefuseExport, StartJob, JobEnds, ReleasePilotLock, Retry, GiveUp,
           GoOn, WorkerPhase, EndRun, JobFails, Crash, Killed, JobDies, AbandonRequest, Load,
           RejectFile, Fail, vars
  <1>2. CASE UNCHANGED stateFile
    BY <1>1, <1>2 DEF InState
  <1>3. CASE JobStep(r)
    <2>0. SerialInv /\ stateFile \in States /\ r \in Jobs /\ Step(r)
      BY <1>3 DEF PilotInv, SerialInv, OverlapInv, TypeOK, Runners, JobStep
    <2>1. job[r].pc \in Running /\ job[r].packet = run[r].packet
      BY <2>0, StepResult DEF PilotInv, RunnerOK
    <2>2. /\ Snapshot(r) = [stateFile EXCEPT ![job[r].packet] = job[r].rec]
          /\ SerialRun(job[r]) /\ job[r].packet \in Packets /\ job[r].rec \in Record
      BY <2>0, <2>1, Known
    <2>3. UNCHANGED stateFile \/ stateFile' = Snapshot(r)
      BY <2>0 DEF Step, Detect, ReuseIssue, CreateIssue, CreateThread, PostMessage, CommentIssue,
                  CheckpointIssue, CheckpointThread, CheckpointComment, Checkpoint, Finish
    <2>4. \A q \in Packets : q # run[r].packet => stateFile'[q] = stateFile[q]
      BY <2>0, <2>1, <2>2, <2>3 DEF States
    <2>5. ASSUME NEW q \in Packets, InState(q), ~InState(q)' PROVE FALSE
      <3>1. stateFile'[q] = EmptyRecord /\ stateFile[q] # EmptyRecord
        BY <2>5 DEF InState
      <3>2. stateFile[q] \in Record
        BY <2>0 DEF States
      <3>3. stateFile[q].issue # 0 \/ stateFile[q].thread # 0
        BY <3>1, <3>2 DEF Record, EmptyRecord
      <3>4. stateFile'[q].issue = 0 /\ stateFile'[q].thread = 0
        BY <3>1 DEF EmptyRecord
      <3>5. /\ stateFile'[q].issue = stateFile[q].issue \/ stateFile[q].issue = 0
            /\ stateFile'[q].thread = stateFile[q].thread \/ stateFile[q].thread = 0
        BY <2>0, FileStep DEF SequentialNext, IssueRecorded, ThreadRecorded
      <3> QED
        BY <3>3, <3>4, <3>5
    <2> QED
      BY <1>1, <2>4, <2>5
  <1> QED
    BY <1>1, <1>2, <1>3

(* A run keeps its packet until it ends, or takes one that is waiting.       *)
LEMMA PacketStep ==
  ASSUME PilotInv, NEW r \in Runners, Proceed(r)
  PROVE  /\ \/ run'[r].packet = run[r].packet
            \/ run'[r].packet \in Waiting /\ UNCHANGED stateFile
         /\ ~At(r, "idle")'
         /\ UNCHANGED command
  <1>0. run \in [Runners -> RunRecord] /\ run[r] \in RunRecord
    BY DEF PilotInv, PilotTypeOK, RunRecord, Attempts
  <1>1. CASE PlanPacket(r)
    <2>1. PICK p \in Queue : run' = [run EXCEPT ![r].pc = "pilot", ![r].packet = p, ![r].attempt = 1]
      BY <1>1 DEF PlanPacket
    <2>2. p \in Waiting
      BY <2>1 DEF Queue, Eligible, Waiting
    <2>3. run'[r].packet = p /\ run'[r].pc = "pilot"
      BY <1>0, <2>1 DEF RunRecord
    <2> QED
      BY <1>1, <2>2, <2>3 DEF PlanPacket, vars, At
  <1>2. CASE PlanNothing(r)
    BY <1>0, <1>2 DEF PlanNothing, RunRecord, At
  <1>3. CASE AcquirePilotLock(r) \/ PilotWithoutLock(r) \/ ExportCandidate(r) \/ RefuseExport(r)
             \/ StartJob(r) \/ ReleasePilotLock(r)
    BY <1>0, <1>3 DEF AcquirePilotLock, PilotWithoutLock, ExportCandidate, RefuseExport, StartJob,
                      ReleasePilotLock, RunRecord, At
  <1>4. CASE JobEnds(r)
    BY <1>0, <1>4 DEF JobEnds, RunRecord, At
  <1>5. CASE Retry(r) \/ GiveUp(r) \/ GoOn(r) \/ WorkerPhase(r)
    BY <1>0, <1>5 DEF Retry, GiveUp, GoOn, WorkerPhase, RunRecord, At
  <1>6. CASE JobStep(r) \/ JobFails(r)
    <2>1. run' = run /\ UNCHANGED command /\ run[r].pc = "wait"
      BY <1>6 DEF JobStep, JobFails, At
    <2> QED
      BY <2>1 DEF At
  <1> QED
    BY <1>1, <1>2, <1>3, <1>4, <1>5, <1>6 DEF Proceed

-----------------------------------------------------------------------------
(* Nobody but the run under way has a request that is still being met.       *)
LEMMA SeekingActor ==
  ASSUME PilotInv, NEW r \in Runners, ~At(r, "idle")
  PROVE  Seeking \subseteq {r} /\ (~Fruitless(r) => Seeking = {})
  <1>1. \A w \in Seeking : w = r
    BY Alone DEF Seeking, Wrappers
  <1> QED
    BY <1>1 DEF Seeking

(* Requests that are only noted are not lost as long as the notes are kept.  *)
LEMMA NotesKept ==
  ASSUME Notes \subseteq Notes',
         \A w \in Seeking : caller[w] \in Packets => caller[w] \in Requests'
  PROVE  Requests \subseteq Requests'
  <1>1. Notes' \subseteq Requests'
    BY DEF Requests, Notes
  <1> QED
    BY <1>1, RequestMember

LEMMA SeekingMember ==
  ASSUME NEW w \in Wrappers, ~At(w, "idle")', Fruitless(w)', caller'[w] \in Packets
  PROVE  caller'[w] \in Requests'
  BY DEF Requests, CalledFor

LEMMA ProceedAccounts ==
  ASSUME TypesInv, TypesInv', AccountsKept, PilotInv, NEW r \in Runners, Proceed(r), UNCHANGED triggerVars
  PROVE  AccountsKept'
  <1>1. RunnerActs(r) /\ UNCHANGED <<asked, vain, unasked, caller>> /\ Notes' = Notes
    BY DEF Proceed, RunnerActs, RunnerStep, triggerVars, Notes
  <1>2. ~At(r, "idle") /\ r \in Wrappers
    BY <1>1, RunnerKeeps, Alone
  <1>3. /\ \/ run'[r].packet = run[r].packet
           \/ run'[r].packet \in Waiting /\ UNCHANGED stateFile
        /\ ~At(r, "idle")' /\ command' = command
    BY PacketStep
  <1>4. /\ \A q \in Packets : q # run[r].packet => stateFile'[q] = stateFile[q]
        /\ \A q \in Packets : InState(q) => InState(q)'
    BY <1>1, RecordsStep
  <1>5. command \subseteq Packets /\ run[r].packet \in command \cup {NoPacket}
    BY DEF PilotInv, PilotTypeOK, RunnerOK
  <1>6. Waiting' \subseteq Waiting
    BY <1>3, <1>4, <1>5 DEF Waiting
  <1>7. Seeking \subseteq {r} /\ (~Fruitless(r) => Seeking = {})
    BY <1>2, SeekingActor
  <1>8. CASE Fruitless(r)' \/ ~Fruitless(r)
    <2>1. \A w \in Seeking : caller[w] \in Packets => caller[w] \in Requests'
      <3>1. CASE Fruitless(r)'
        <4>1. caller'[r] = caller[r]
          BY <1>1
        <4> QED
          BY <1>2, <1>3, <1>7, <3>1, <4>1, SeekingMember
      <3> QED
        BY <1>7, <1>8, <3>1
    <2>2. Requests \subseteq Requests'
      BY <1>1, <2>1, NotesKept
    <2> QED
      BY <1>3, <1>6, <2>2, AccountsStep
  <1>9. CASE ~Fruitless(r)' /\ Fruitless(r)
    <2> DEFINE p == run[r].packet
    <2>1. run'[r].packet # NoPacket /\ stateFile'[run'[r].packet] # EmptyRecord
      BY <1>9 DEF Fruitless, InState
    <2>2. run'[r].packet = run[r].packet
      BY <1>3, <2>1 DEF Waiting, InState
    <2>3. p # NoPacket /\ stateFile'[p] # EmptyRecord /\ stateFile[p] = EmptyRecord
      BY <1>9, <2>1, <2>2 DEF Fruitless, InState
    <2>4. p \in Waiting /\ p \notin Waiting'
      BY <1>5, <2>3 DEF Waiting, InState
    <2>5. Requests \subseteq Requests' \cup {caller[r]}
      <3>1. Notes' \subseteq Requests'
        BY DEF Requests, Notes
      <3> QED
        BY <1>1, <1>7, <3>1, RequestMember
    <2>6. Waiting' \subseteq Waiting \ {p}
      BY <1>6, <2>4
    <2>7. \E q \in Waiting : \E c : /\ Waiting' \subseteq Waiting \ {q}
                                   /\ Requests \subseteq Requests' \cup {c}
      BY <2>4, <2>5, <2>6
    <2> QED
      BY <1>3, <2>7, AccountsStep
  <1> QED
    BY <1>8, <1>9

(* A run that ends in vain hands its request over to the history, unless     *)
(* nothing is left to be dispatched.                                         *)
LEMMA EndAccounts ==
  ASSUME TypesInv, TypesInv', AccountsKept, PilotInv, NEW r \in Wrappers,
         EndTriggered(r) \/ CrashTriggered(r)
  PROVE  AccountsKept'
  <1>1. /\ r \in Runners /\ RunnerActs(r) /\ ~At(r, "idle")
        /\ UNCHANGED <<asked, unasked, command, stateFile>> /\ vain' = vain \cup VainBy(r)
    <2>1. CASE EndTriggered(r)
      BY <2>1 DEF EndTriggered, EndRun, RunnerActs, RunnerStep, Wrappers, At, vars
    <2>2. CASE CrashTriggered(r)
      BY <2>2 DEF CrashTriggered, Crash, JobDies, AbandonRequest, Fail, RunnerActs, Wrappers, vars
    <2> QED
      BY <2>1, <2>2
  <1>2. Waiting' = Waiting
    BY <1>1 DEF Waiting, InState
  <1>3. Seeking \subseteq {r} /\ (~Fruitless(r) => Seeking = {})
    BY <1>1, SeekingActor
  <1>4. CASE Fruitless(r) /\ ~InVain(r)
    BY <1>1, <1>2, <1>4, AccountsStep DEF Fruitless, InVain
  <1>5. CASE ~Fruitless(r) \/ InVain(r)
    <2>1. ASSUME NEW w \in Seeking, caller[w] \in Packets PROVE caller[w] \in Requests'
      <3>1. w = r /\ InVain(r)
        BY <1>3, <1>5
      <3>2. caller[w] \in vain'
        BY <1>1, <2>1, <3>1 DEF VainBy, CalledFor
      <3> QED
        BY <3>2 DEF Requests
    <2>2. Requests \subseteq Requests'
      BY <1>1, <2>1, NotesKept DEF Notes
    <2> QED
      BY <1>1, <1>2, <2>2, AccountsStep
  <1> QED
    BY <1>4, <1>5

(* A run that starts takes a request over, one that is cut off by its caller *)
(* has met it, and one that finds the lock taken is noted.                   *)
LEMMA CallerAccounts ==
  ASSUME TypesInv, TypesInv', AccountsKept, PilotInv,
         \/ \E p \in Packets, r \in Wrappers : TriggerRun(p, r)
         \/ \E p \in Packets : TriggerBusy(p)
         \/ ServerEnds
         \/ \E r \in Wrappers : RunFromBrowser(r) \/ ServerTimesOut(r) \/ RunnerTimesOut(r)
  PROVE  AccountsKept'
  <1>1. Waiting' = Waiting /\ command' = command
    BY DEF TriggerRun, TriggerBusy, StartWrapper, StartWrapperBusy, ServerEnds, RunFromBrowser,
           ServerTimesOut, RunnerTimesOut, allVars, pilotVars, vars, Waiting, InState
  <1>2. ASSUME Requests \subseteq Requests' PROVE AccountsKept'
    BY <1>1, <1>2, AccountsStep
  <1>3. ASSUME NEW r \in Wrappers, StartWrapper(r) PROVE Seeking = {}
    BY <1>3, PilotAssumption DEF StartWrapper, PilotInv, TakesTurns, Seeking, Wrappers, Runners
  <1>4. ASSUME NEW p \in Packets, NEW r \in Wrappers, TriggerRun(p, r) PROVE Requests \subseteq Requests'
    <2>1. /\ Seeking = {} /\ Notes \subseteq Notes' \cup {p}
          /\ caller' = [caller EXCEPT ![r] = p]
      BY <1>3, <1>4 DEF TriggerRun, Notes
    <2>2. caller'[r] = p
      BY <2>1 DEF TypesInv, TriggerTypeOK
    <2>3. run'[r].pc = "plan" /\ run'[r].packet = NoPacket
      <3>1. run[r] = NewRun /\ run \in [Runners -> RunRecord] /\ r \in Runners
        BY <1>4 DEF TriggerRun, StartWrapper, PilotInv, PilotTypeOK, RunRecord, Attempts, RunnerOK, Wrappers
      <3> QED
        BY <1>4, <3>1 DEF TriggerRun, StartWrapper, NewRun
    <2>4. p \in Requests'
      BY <2>2, <2>3, SeekingMember DEF At, Fruitless
    <2>5. Notes' \subseteq Requests'
      BY DEF Requests, Notes
    <2> QED
      BY <2>1, <2>4, <2>5, RequestMember
  <1>5. ASSUME NEW r \in Wrappers, RunFromBrowser(r) PROVE Requests \subseteq Requests'
    <2>1. Seeking = {} /\ Notes' = Notes
      BY <1>3, <1>5 DEF RunFromBrowser, Notes
    <2> QED
      BY <2>1, NotesKept
  <1>6. ASSUME NEW r \in Wrappers, ServerTimesOut(r) \/ RunnerTimesOut(r) PROVE Requests \subseteq Requests'
    <2>1. At(r, "worker") /\ Notes' = Notes /\ r \in Runners
      BY <1>6 DEF ServerTimesOut, RunnerTimesOut, Wrappers, Notes
    <2>2. run[r].packet \in Packets /\ HasDispatched(r)
      BY <2>1, DispatchAssumption DEF At, PilotInv, RunnerOK, UnderPlan, HasDispatched
    <2>3. Complete(run[r].packet)
      BY <2>1, <2>2 DEF PilotInv, RunnerOK
    <2>4. ~Fruitless(r) /\ ~At(r, "idle")
      BY <2>1, <2>2, <2>3, DispatchAssumption DEF Fruitless, InState, Complete, EmptyRecord, At
    <2>5. Seeking = {}
      BY <2>1, <2>4, SeekingActor
    <2> QED
      BY <2>1, <2>5, NotesKept
  <1>7. ASSUME ServerEnds \/ \E p \in Packets : TriggerBusy(p)
        PROVE  Requests \subseteq Requests'
    <2>1. Notes \subseteq Notes' /\ UNCHANGED <<run, stateFile, caller>>
      BY <1>7 DEF ServerEnds, TriggerBusy, StartWrapperBusy, allVars, pilotVars, vars, Notes
    <2>2. ASSUME NEW w \in Seeking, caller[w] \in Packets PROVE caller[w] \in Requests'
      <3>1. ~At(w, "idle")' /\ Fruitless(w)' /\ w \in Wrappers /\ caller'[w] = caller[w]
        BY <2>1 DEF Seeking, At, Fruitless, InState
      <3> QED
        BY <2>2, <3>1, SeekingMember
    <2> QED
      BY <2>1, <2>2, NotesKept
  <1> QED
    BY <1>2, <1>4, <1>5, <1>6, <1>7

(* A capture brings its own request, and a command that comes without one is *)
(* noted.                                                                    *)
LEMMA StoringAccounts ==
  ASSUME TypesInv, TypesInv', AccountsKept, NEW p \in Packets,
         PostCapture(p) \/ ImportCapture(p) \/ AliasQuietly(p)
  PROVE  AccountsKept'
  <1>1. /\ command' \in {command, command \cup {p}} /\ command \subseteq stored
        /\ UNCHANGED <<run, stateFile, caller>>
        /\ Notes \subseteq Notes'
        /\ p \in command' => p \in Notes'
    BY DEF PostCapture, ImportCapture, AliasQuietly, Capture, Alias, Notes, vars,
           TypesInv, TriggerTypeOK, PilotTypeOK
  <1>2. p \notin command
    <2>1. CASE Capture(p)
      BY <1>1, <2>1, PilotAssumption DEF Capture
    <2> QED
      BY <2>1 DEF PostCapture, ImportCapture, AliasQuietly, Alias
  <1>3. ASSUME NEW w \in Seeking, caller[w] \in Packets PROVE caller[w] \in Requests'
    <2>1. ~At(w, "idle")' /\ Fruitless(w)' /\ w \in Wrappers /\ caller'[w] = caller[w]
      BY <1>1 DEF Seeking, At, Fruitless, InState
    <2> QED
      BY <1>3, <2>1, SeekingMember
  <1>4. Requests \subseteq Requests'
    BY <1>1, <1>3, NotesKept
  <1>5. CASE command' = command
    <2>1. Waiting' = Waiting
      BY <1>1, <1>5 DEF Waiting, InState
    <2> QED
      BY <1>4, <1>5, <2>1, AccountsStep
  <1>6. CASE command' = command \cup {p}
    <2>1. Waiting' \subseteq Waiting \cup {p}
      BY <1>1, <1>6 DEF Waiting, InState
    <2>2. p \in Requests'
      BY <1>1, <1>6 DEF Requests, Notes
    <2>3. p \in command' \ Account
      BY <1>2, <1>6 DEF Account
    <2> QED
      BY <1>4, <1>6, <2>1, <2>2, <2>3, AccountsStep
  <1> QED
    BY <1>1, <1>5, <1>6

LEMMA IdlingAccounts ==
  ASSUME TypesInv, TypesInv', AccountsKept, Idling \/ Outside \/ UNCHANGED allVars,
         UNCHANGED <<asked, vain, unasked, caller>>
  PROVE  AccountsKept'
  <1>1. UNCHANGED <<run, stateFile, command, asked, vain, unasked, caller>>
    <2>1. UNCHANGED <<run, stateFile, command>>
      BY DEF Idling, DeleteLeftoverLock, CooldownPasses, HourPasses, Outside, RequestLands, IssueLands,
             ThreadLands, Relabel, ReplaceDispatchLabel, allVars, pilotVars, vars
    <2> QED
      BY <2>1
  <1>2. Waiting' = Waiting /\ Requests' = Requests
    BY <1>1 DEF Waiting, Requests, CalledFor, InState, Fruitless, At
  <1> QED
    BY <1>1, <1>2, AccountsStep

(* The first operator's run ends the account.                                *)
LEMMA StepAccounts ==
  ASSUME TypesInv, TypesInv', AccountsKept, PilotInv, [TriggerNext]_allTriggerVars, ~operated'
  PROVE  AccountsKept' /\ PilotInv' /\ [LateNext]_lateVars
  <1>1. ASSUME NEW r \in Operators PROVE At(r, "idle")
    BY <1>1, PilotAssumption DEF PilotInv, TakesTurns, Wrappers, Runners
  <1>2. ASSUME NEW r \in Operators, RunByOperator(r) PROVE FALSE
    BY <1>2 DEF RunByOperator
  <1>3. ASSUME NEW r \in Operators, EndRun(r) \/ Crash(r) PROVE FALSE
    BY <1>1, <1>3 DEF EndRun, Crash, At
  <1>4. ASSUME UNCHANGED allTriggerVars PROVE AccountsKept'
    <2>1. UNCHANGED allVars /\ UNCHANGED <<asked, vain, unasked, caller>>
      BY <1>4 DEF allTriggerVars, triggerVars
    <2> QED
      BY <2>1, IdlingAccounts
  <1>7. ASSUME RequestLands \/ Idling, UNCHANGED triggerVars PROVE AccountsKept'
    BY <1>7, IdlingAccounts DEF Outside, triggerVars
  <1>8. ASSUME NEW p \in Packets, ApplyLabels(p) PROVE AccountsKept'
    BY <1>8, IdlingAccounts DEF ApplyLabels, Outside
  <1>5. AccountsKept'
    BY <1>2, <1>3, <1>4, <1>7, <1>8, StoringAccounts, CallerAccounts, EndAccounts, ProceedAccounts
       DEF TriggerNext, Idling
  <1>6. [WrapperNext]_allVars
    BY <1>2, TriggerParts DEF WrapperNext, RunByOperator
  <1> QED
    BY <1>5, <1>6, StepPilotInv

(* A summary of success names what its run has dispatched.                   *)
LEMMA StepSummaries ==
  ASSUME TypesInv, PilotInv, SummariesTrue, [LateNext]_lateVars, [TriggerNext]_allTriggerVars
  PROVE  SummariesTrue'
  <1>0. summary \in [Packets -> Packets \cup {NoPacket}] /\ SerialInv
    BY DEF TypesInv, TriggerTypeOK, PilotInv
  <1>1. \A q \in Packets : Complete(q) => Complete(q)'
    BY <1>0, CompleteStays
  <1>2. CASE UNCHANGED summary
    BY <1>0, <1>1, <1>2 DEF SummariesTrue, Complete
  <1>3. ASSUME NEW r \in Wrappers, EndTriggered(r) PROVE SummariesTrue'
    <2>1. /\ At(r, "end") /\ r \in Runners
          /\ summary' = Summarise(r)
      BY <1>3 DEF EndTriggered, EndRun, Wrappers
    <2>2. run[r].packet # NoPacket /\ ~run[r].failed => Complete(run[r].packet)
      BY <2>1 DEF PilotInv, RunnerOK, HasDispatched, At
    <2>3. run[r].packet \in Packets \cup {NoPacket}
      BY <2>1 DEF PilotInv, PilotTypeOK
    <2>4. ASSUME NEW p \in Packets, NEW q, q = summary'[p], q # NoPacket PROVE q \in Packets /\ Complete(q)
      BY <1>0, <2>1, <2>2, <2>3, <2>4 DEF Summarise, SummariesTrue
    <2>5. \A p \in Packets : \A q : q = summary'[p] /\ q # NoPacket => Complete(q)'
      BY <1>1, <2>4
    <2> QED
      BY <2>5 DEF SummariesTrue, Complete
  <1> QED
    BY <1>2, <1>3
       DEF TriggerNext, PostCapture, ImportCapture, AliasQuietly, ApplyLabels, TriggerRun, TriggerBusy, ServerEnds,
           RunFromBrowser, ServerTimesOut, RunnerTimesOut, CrashTriggered, RunByOperator, triggerVars, allTriggerVars

LEMMA StepTriggerStrong ==
  ASSUME TriggerStrong, [TriggerNext]_allTriggerVars
  PROVE  TriggerStrong'
  <1>1. TypesInv /\ TypesInv'
    BY StepTypesInv DEF TriggerStrong
  <1>2. ~operated' => ~operated
    BY DEF TriggerNext, PostCapture, ImportCapture, AliasQuietly, ApplyLabels, TriggerRun, TriggerBusy, ServerEnds,
           RunFromBrowser, ServerTimesOut, RunnerTimesOut, EndTriggered, CrashTriggered, RunByOperator,
           triggerVars, allTriggerVars
  <1>3. ASSUME ~operated' PROVE PilotInv' /\ AccountsKept' /\ SummariesTrue'
    <2>1. PilotInv /\ AccountsKept /\ SummariesTrue
      BY <1>2, <1>3 DEF TriggerStrong
    <2> QED
      BY <1>1, <1>3, <2>1, StepAccounts, StepSummaries
  <1> QED
    BY <1>1, <1>3 DEF TriggerStrong

LEMMA InitTriggerStrong == TriggerInit => TriggerStrong
  <1> SUFFICES ASSUME TriggerInit PROVE TriggerStrong
    OBVIOUS
  <1>1. TypesInv /\ PilotInv
    BY InitTypesInv, InitPilotInv DEF TriggerInit
  <1>2. SummariesTrue
    BY DEF TriggerInit, SummariesTrue
  <1>3. Waiting = {} /\ Cardinality(Waiting) = 0
    BY FS_EmptySet DEF TriggerInit, PilotInit, Waiting
  <1>4. AccountsKept
    BY <1>1, <1>3, AccountsFinite DEF AccountsKept
  <1> QED
    BY <1>1, <1>2, <1>4 DEF TriggerStrong

THEOREM TriggerInvariant == TriggerSpec => []TriggerStrong
  <1>1. TriggerStrong /\ [TriggerNext]_allTriggerVars => TriggerStrong'
    BY StepTriggerStrong
  <1> QED
    BY <1>1, InitTriggerStrong, PTL DEF TriggerSpec

(* Until an operator steps in, the commands that wait are at most as many as *)
(* the requests for runs that are under way, were in vain or were never made *)
(* (an alias, a script): no other way leaves a command behind.               *)
THEOREM TriggerAccounts == TriggerSpec => []TriggerInv
  <1>1. TriggerStrong => TriggerInv
    BY DEF TriggerStrong, TypesInv, AccountsKept, Account, TriggerInv, WaitingAccountedFor
  <1> QED
    BY <1>1, TriggerInvariant, PTL

(* What a summary of success names is and stays dispatched.                  *)
THEOREM TriggerSummaryHolds == TriggerSpec => []SummaryHolds
  <1>1. TriggerStrong => SummaryHolds
    BY DEF TriggerStrong, SummariesTrue, SummaryHolds
  <1> QED
    BY <1>1, TriggerInvariant, PTL
=============================================================================
