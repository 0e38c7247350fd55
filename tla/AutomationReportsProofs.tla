---------------------- MODULE AutomationReportsProofs ----------------------
(***************************************************************************)
(* Theorems of AutomationReports -- type correctness, agreement of the     *)
(* reports about a record, and the truth of "idle" -- and of CommandPanel: *)
(* that it changes nothing behind the reports' back, type correctness, and *)
(* the truth of the advice after a dry run.                                *)
(***************************************************************************)
EXTENDS CommandPanel, FiniteSetTheorems, TLAPS

-----------------------------------------------------------------------------
LEMMA ExistingType ==
    ASSUME ReportsTypeOK, NEW c \in Captures
    PROVE  Existing(c) \in Record
<1>1. NoLinks \in Record
    BY DEF NoLinks, Record, Statuses
<1>2. Known(c) => state[c] \in Record
    BY DEF ReportsTypeOK, Known
<1> QED
    BY <1>1, <1>2 DEF Existing

LEMMA ParsedType == ASSUME NEW labels PROVE Parsed(labels) \in Statuses
BY DEF Parsed, Statuses

LEMMA ProgressedType ==
    ASSUME ReportsTypeOK, NEW c \in Captures, NEW labels
    PROVE  /\ Progressed(c, labels) \in Record
           /\ Progressed(c, labels).progress = Parsed(labels)
           /\ Progressed(c, labels).result = Existing(c).result
<1>1. Existing(c) \in Record
    BY ExistingType
<1>2. Parsed(labels) \in Statuses
    BY ParsedType
<1> QED
    BY <1>1, <1>2 DEF Progressed, Record

(* A record is a record: none of them is the mark of an unknown packet.      *)
LEMMA RecordKnown == ASSUME NEW r \in Record PROVE r # Unknown
<1>1. r.link # "unknown"
    BY DEF Record
<1> QED
    BY <1>1 DEF Unknown

LEMMA ObservedType ==
    ASSUME Observe, ReportsTypeOK, aliases' \subseteq Captures
    PROVE  waiting' \subseteq Captures /\ troubled' \subseteq Captures
<1>1. troubled' \subseteq Candidates' \cup troubled
    BY DEF Observe, Since
<1>2. Candidates' \subseteq Captures
    BY DEF Candidates
<1>3. waiting' \subseteq Eligible' \cup waiting
    BY DEF Observe, Since
<1>4. Eligible' \subseteq Captures
    BY ReportsAssumption DEF Eligible
<1> QED
    BY <1>1, <1>2, <1>3, <1>4 DEF ReportsTypeOK

(* What the operations on the records leave well-typed: all but what is      *)
(* observed.                                                                 *)
WorldTypeOK ==
    /\ stored \in Seq(Captures)
    /\ aliases \subseteq Captures
    /\ state \in [Captures -> Record \cup {Unknown}]
    /\ held \in BOOLEAN
    /\ changes \in 0..MaxChanges
    /\ apart \subseteq Captures

TickTypeOK ==
    /\ plan \in {"missing", "held", "queued", "empty"}
    /\ readiness \in {"missing", "ready", "not_ready"}
    /\ retry \in [made : BOOLEAN, candidates : SUBSET Captures]
    /\ decision \in {"missing", "hold_for_readiness", "ready_to_run_bounded_pilot",
                     "retry_candidates_waiting", "idle_ready"}
    /\ job \in Jobs \cup {"rest"}
    /\ failed \subseteq Jobs
    /\ failures \in 0..MaxFailures

LEMMA ChangeTypes ==
    ASSUME ReportsTypeOK, Change
    PROVE  WorldTypeOK' /\ TickTypeOK'
<1> USE ReportsAssumption
<1>1. TickTypeOK'
    BY DEF ReportsTypeOK, TickTypeOK, Change, Store, Alias, Dispatch, RecordResult,
           ImportProgress, Backfill, HoldEnds, Unreported, reports, tick
<1>2. ASSUME NEW c \in Captures, Store(c)
      PROVE  WorldTypeOK'
    BY <1>2 DEF Store, ReportsTypeOK, WorldTypeOK
<1>3. ASSUME NEW c \in Captures, Alias(c)
      PROVE  WorldTypeOK'
    BY <1>3 DEF Alias, ReportsTypeOK, WorldTypeOK
<1>4. ASSUME NEW c \in Captures, Dispatch(c)
      PROVE  WorldTypeOK'
  <2>1. PICK link \in {"issue", "thread"} :
          /\ state' = [state EXCEPT ![c] = [NoLinks EXCEPT !.link = link]]
          /\ held' \in {FALSE, link = "thread"}
    BY <1>4 DEF Dispatch
  <2>2. [NoLinks EXCEPT !.link = link] \in Record
    BY DEF NoLinks, Record, Statuses
  <2>3. state' \in [Captures -> Record \cup {Unknown}]
    BY <2>1, <2>2 DEF ReportsTypeOK
  <2>4. held' \in BOOLEAN
    BY <2>1
  <2> QED
    BY <1>4, <2>3, <2>4 DEF Dispatch, ReportsTypeOK, WorldTypeOK
<1>5. ASSUME NEW c \in Named, NEW status \in Results, NEW evidence \in BOOLEAN,
             RecordResult(c, status, evidence)
      PROVE  WorldTypeOK'
  <2>1. c \in Captures /\ Existing(c) \in Record
    BY ExistingType
  <2>2. [Existing(c) EXCEPT !.result = status, !.evidence = @ \/ evidence] \in Record
    BY <2>1 DEF Record, Statuses
  <2>3. state' \in [Captures -> Record \cup {Unknown}]
    BY <1>5, <2>1, <2>2 DEF RecordResult, ReportsTypeOK
  <2>4. changes' \in 0..MaxChanges
    <3>1. changes < MaxChanges /\ changes' = changes + 1
        BY <1>5 DEF RecordResult
    <3>2. changes \in 0..MaxChanges
        BY DEF ReportsTypeOK
    <3> QED
        BY <3>1, <3>2
  <2>5. apart' \subseteq Captures
    BY <1>5, <2>1 DEF RecordResult, ReportsTypeOK
  <2> QED
    BY <1>5, <2>3, <2>4, <2>5 DEF RecordResult, ReportsTypeOK, WorldTypeOK
<1>6. ASSUME NEW c \in Named, NEW labels \in Texts, ImportProgress(c, labels)
      PROVE  WorldTypeOK'
  <2>1. c \in Captures /\ Progressed(c, labels) \in Record
    BY ProgressedType
  <2>2. state' \in [Captures -> Record \cup {Unknown}]
    BY <1>6, <2>1 DEF ImportProgress, ReportsTypeOK
  <2>3. changes' \in 0..MaxChanges
    <3>1. changes < MaxChanges /\ changes' = changes + 1
        BY <1>6 DEF ImportProgress
    <3>2. changes \in 0..MaxChanges
        BY DEF ReportsTypeOK
    <3> QED
        BY <3>1, <3>2
  <2>4. apart' \subseteq Captures
    BY <1>6, <2>1 DEF ImportProgress, ReportsTypeOK
  <2> QED
    BY <1>6, <2>2, <2>3, <2>4 DEF ImportProgress, ReportsTypeOK, WorldTypeOK
<1>7. ASSUME Backfill
      PROVE  WorldTypeOK'
  <2>1. \A c \in Captures : Progressed(c, {state[c].result}) \in Record
    BY ProgressedType
  <2>2. PICK records \in SUBSET Lacking :
          state' = [c \in Captures |->
                      IF c \in records THEN Progressed(c, {state[c].result}) ELSE state[c]]
    BY <1>7 DEF Backfill
  <2>3. state' \in [Captures -> Record \cup {Unknown}]
    BY <2>1, <2>2 DEF ReportsTypeOK
  <2> QED
    BY <1>7, <2>3 DEF Backfill, ReportsTypeOK, WorldTypeOK
<1>8. ASSUME HoldEnds
      PROVE  WorldTypeOK'
    BY <1>8 DEF HoldEnds, ReportsTypeOK, WorldTypeOK
<1> QED
    BY <1>1, <1>2, <1>3, <1>4, <1>5, <1>6, <1>7, <1>8 DEF Change

LEMMA TickKeepsWorld ==
    ASSUME TickStep \/ JobFails \/ TickCutOff
    PROVE  UNCHANGED World
BY DEF TickStep, TimerFires, QueueJob, ReadinessJob, RetryJob, StatusJob,
       StatusRefused, JobFails, TickCutOff, Ran, Failed

LEMMA SpoiltTypes ==
    ASSUME ReportsTypeOK, NEW j, Spoilt(j)
    PROVE  /\ plan' \in {"missing", "held", "queued", "empty"}
           /\ readiness' \in {"missing", "ready", "not_ready"}
           /\ retry' \in [made : BOOLEAN, candidates : SUBSET Captures]
           /\ decision' \in {"missing", "hold_for_readiness", "ready_to_run_bounded_pilot",
                             "retry_candidates_waiting", "idle_ready"}
<1>1. NoRetryPlan \in [made : BOOLEAN, candidates : SUBSET Captures]
    BY DEF NoRetryPlan
<1> QED
    BY <1>1 DEF Spoilt, ReportsTypeOK, reports

LEMMA TickTypes ==
    ASSUME ReportsTypeOK, TickStep \/ JobFails \/ TickCutOff
    PROVE  TickTypeOK'
<1>1. After(job) \in Jobs \cup {"rest"} \/ job = "rest"
    BY DEF After, Jobs, ReportsTypeOK
<1>2. CASE TimerFires
    BY <1>2 DEF TimerFires, ReportsTypeOK, TickTypeOK, reports, Jobs
<1>3. CASE QueueJob
    BY <1>1, <1>3 DEF QueueJob, Ran, PlanOf, ReportsTypeOK, TickTypeOK, Jobs
<1>4. CASE ReadinessJob
    BY <1>1, <1>4 DEF ReadinessJob, Ran, ReportsTypeOK, TickTypeOK, Jobs
<1>5. CASE RetryJob
  <2>1. Candidates \in SUBSET Captures
    BY DEF Candidates
  <2> QED
    BY <1>1, <1>5, <2>1 DEF RetryJob, Ran, ReportsTypeOK, TickTypeOK, Jobs
<1>6. CASE StatusJob
    BY <1>1, <1>6 DEF StatusJob, Ran, Decision, ReportsTypeOK, TickTypeOK, Jobs
<1>7. CASE StatusRefused
    BY <1>1, <1>7 DEF StatusRefused, Failed, ReportsTypeOK, TickTypeOK, Jobs, reports
<1>8. CASE JobFails
  <2>1. PICK j \in Jobs : Failed(j) /\ Spoilt(j)
    BY <1>8 DEF JobFails
  <2>2. failures' \in 0..MaxFailures
    BY <1>8, ReportsAssumption DEF JobFails, ReportsTypeOK
  <2>3. job' \in Jobs \cup {"rest"} /\ failed' \subseteq Jobs
    BY <1>1, <2>1 DEF Failed, ReportsTypeOK, Jobs
  <2> QED
    BY <2>1, <2>2, <2>3, SpoiltTypes DEF TickTypeOK
<1>9. CASE TickCutOff
    BY <1>9, ReportsAssumption, SpoiltTypes DEF TickCutOff, ReportsTypeOK, TickTypeOK
<1> QED
    BY <1>2, <1>3, <1>4, <1>5, <1>6, <1>7, <1>8, <1>9 DEF TickStep

LEMMA TypesPreserved ==
    ASSUME ReportsTypeOK, [Next]_vars
    PROVE  ReportsTypeOK'
<1>1. CASE UNCHANGED vars
    BY <1>1 DEF vars, reports, tick, ReportsTypeOK
<1>2. CASE Next
  <2>1. WorldTypeOK' /\ TickTypeOK'
    <3>1. CASE Change
        BY <3>1, ChangeTypes
    <3>2. CASE TickStep \/ JobFails \/ TickCutOff
      <4>1. UNCHANGED World /\ TickTypeOK'
        BY <3>2, TickKeepsWorld, TickTypes
      <4> QED
        BY <4>1 DEF World, ReportsTypeOK, WorldTypeOK
    <3> QED
        BY <1>2, <3>1, <3>2 DEF Next
  <2>2. waiting' \subseteq Captures /\ troubled' \subseteq Captures
    BY <1>2, <2>1, ObservedType DEF Next, WorldTypeOK
  <2> QED
    BY <2>1, <2>2 DEF WorldTypeOK, TickTypeOK, ReportsTypeOK
<1> QED
    BY <1>1, <1>2

LEMMA TypesInitially == Init => ReportsTypeOK
<1> SUFFICES ASSUME Init PROVE ReportsTypeOK
    OBVIOUS
<1>1. stored \in Seq(Captures)
    BY DEF Init
<1>2. state \in [Captures -> Record \cup {Unknown}]
    BY DEF Init
<1>3. retry \in [made : BOOLEAN, candidates : SUBSET Captures]
    BY DEF Init, NoRetryPlan
<1>4. changes \in 0..MaxChanges /\ failures \in 0..MaxFailures
    BY ReportsAssumption DEF Init
<1> QED
    BY <1>1, <1>2, <1>3, <1>4 DEF Init, ReportsTypeOK

(* Every variable keeps its type, for any captures, window and bounds        *)
(* (the scripts named at the top of AutomationReports).                      *)
THEOREM ReportsTypes == ReportsSpec => []ReportsTypeOK
BY TypesInitially, TypesPreserved, PTL DEF ReportsSpec

-----------------------------------------------------------------------------
(* Result and progress differ only if they have two sources: what a backfill *)
(* writes is what the record says.                                           *)
OneSource(c) ==
    LET r == state[c]
    IN Known(c) /\ r.result # "" /\ r.progress # "" /\ r.result # r.progress => c \in apart

SourcesInv == \A c \in Captures : OneSource(c)

LEMMA OwnText == ASSUME NEW status \in Statuses PROVE Parsed({status}) = status
BY DEF Parsed, Statuses

LEMMA ExistingResult ==
    ASSUME NEW c, Existing(c).result # ""
    PROVE  Known(c)
BY DEF Existing, NoLinks

LEMMA SourcesPreserved ==
    ASSUME ReportsTypeOK, SourcesInv, [Next]_vars
    PROVE  SourcesInv'
<1> USE ReportsAssumption
<1>1. ASSUME UNCHANGED <<state, apart>>
      PROVE  SourcesInv'
    BY <1>1 DEF SourcesInv, OneSource, Known
<1>2. CASE UNCHANGED vars
    BY <1>1, <1>2 DEF vars
<1>3. CASE TickStep \/ JobFails \/ TickCutOff
    BY <1>1, <1>3, TickKeepsWorld DEF World
<1>4. CASE \E c \in Captures : Store(c) \/ Alias(c)
    BY <1>1, <1>4 DEF Store, Alias
<1>5. CASE HoldEnds
    BY <1>1, <1>5 DEF HoldEnds
<1>6. ASSUME NEW c \in Captures, Dispatch(c)
      PROVE  SourcesInv'
  <2>1. PICK link \in {"issue", "thread"} :
          state' = [state EXCEPT ![c] = [NoLinks EXCEPT !.link = link]]
    BY <1>6 DEF Dispatch
  <2>2. state'[c].result = "" /\ apart' = apart
    BY <1>6, <2>1 DEF Dispatch, NoLinks, ReportsTypeOK
  <2>3. \A d \in Captures \ {c} : state'[d] = state[d]
    BY <2>1 DEF ReportsTypeOK
  <2> QED
    BY <2>2, <2>3 DEF SourcesInv, OneSource, Known
<1>7. ASSUME NEW c \in Named, NEW status \in Results, NEW evidence \in BOOLEAN,
             RecordResult(c, status, evidence)
      PROVE  SourcesInv'
  <2>1. c \in Captures /\ Existing(c) \in Record
    BY ExistingType
  <2>2. state'[c].progress = Existing(c).progress
    BY <1>7, <2>1 DEF RecordResult, ReportsTypeOK, Record
  <2>3. \A d \in Captures \ {c} : state'[d] = state[d]
    BY <1>7 DEF RecordResult, ReportsTypeOK
  <2>4. /\ apart \subseteq apart'
        /\ Existing(c).progress # "" => c \in apart'
    BY <1>7 DEF RecordResult
  <2> QED
    BY <2>2, <2>3, <2>4 DEF SourcesInv, OneSource, Known
<1>8. ASSUME NEW c \in Named, NEW labels \in Texts, ImportProgress(c, labels)
      PROVE  SourcesInv'
  <2>1. c \in Captures /\ Progressed(c, labels).result = Existing(c).result
    BY ProgressedType
  <2>2. state'[c].result = Existing(c).result
    BY <1>8, <2>1 DEF ImportProgress, ReportsTypeOK
  <2>3. \A d \in Captures \ {c} : state'[d] = state[d]
    BY <1>8 DEF ImportProgress, ReportsTypeOK
  <2>4. /\ apart \subseteq apart'
        /\ Existing(c).result # "" => c \in apart'
    BY <1>8 DEF ImportProgress
  <2> QED
    BY <2>2, <2>3, <2>4 DEF SourcesInv, OneSource, Known
<1>9. ASSUME Backfill
      PROVE  SourcesInv'
  <2>1. apart' = apart
    BY <1>9 DEF Backfill
  <2>4. PICK records \in SUBSET Lacking :
          state' = [c \in Captures |->
                      IF c \in records THEN Progressed(c, {state[c].result}) ELSE state[c]]
    BY <1>9 DEF Backfill
  <2> SUFFICES ASSUME NEW c \in Captures
               PROVE  OneSource(c)'
    BY DEF SourcesInv
  <2>2. CASE c \in records
    <3>1. Known(c) /\ state[c] \in Record /\ state[c].result # ""
        BY <2>2 DEF Lacking, Known, ReportsTypeOK
    <3>2. state[c].result \in Statuses /\ Existing(c) = state[c]
        BY <3>1 DEF Record, Existing
    <3>3. state'[c] = Progressed(c, {state[c].result})
        BY <2>2, <2>4
    <3>4. state'[c].progress = state[c].result /\ state'[c].result = state[c].result
        BY <3>2, <3>3, ProgressedType, OwnText
    <3> QED
        BY <3>4 DEF OneSource
  <2>3. CASE c \notin records
    <3>1. state'[c] = state[c]
        BY <2>3, <2>4
    <3> QED
        BY <2>1, <3>1 DEF SourcesInv, OneSource, Known
  <2> QED
    BY <2>2, <2>3
<1> QED
    BY <1>2, <1>3, <1>4, <1>5, <1>6, <1>7, <1>8, <1>9 DEF Next, Change

(* Three core parts that are all there are a hundred percent.                *)
LEMMA ReviewMatchesCompletion ==
    ASSUME NEW r \in Record
    PROVE  ReviewReady(r) <=> CompletionReady(r)
<1>1. TaskStatus(r) = "worker_done" <=> r.result = "done"
    BY DEF TaskStatus, Record, Statuses
<1>2. Missing(r) = {} <=> r.link = "thread" /\ r.result # "" /\ r.evidence
    BY DEF Missing, Record
<1>3. Missing(r) = {} => Completeness(r) >= 100
  <2> SUFFICES ASSUME Missing(r) = {} PROVE Completeness(r) >= 100
    OBVIOUS
  <2>1. Missing(r) \ {"worker_evidence_ref"} = {}
    OBVIOUS
  <2>2. Cardinality({}) = 0
    BY FS_EmptySet
  <2>3. Completeness(r) = (100 * (3 - 0) + 1) \div 3
    BY <2>1, <2>2 DEF Completeness
  <2> QED
    BY <2>3
<1> QED
    BY <1>1, <1>2, <1>3 DEF ReviewReady, CompletionReady, Record

LEMMA TaskStatusDone ==
    ASSUME NEW r \in Record
    PROVE  TaskStatus(r) = "worker_done" <=> r.result = "done"
<1>1. r.result \in {"running", "failed", "done", ""}
    BY DEF Record, Statuses
<1> QED
    BY <1>1 DEF TaskStatus

(* The command panel: which steps the rail shows for a record ...            *)
LEMMA RailSteps ==
    ASSUME NEW r \in Record
    PROVE  /\ "github" \in StepsCurrent(r) <=> r.link = "none"
           /\ "discord" \in StepsCurrent(r) <=> r.link = "issue"
           /\ "worker" \in StepsCurrent(r) <=> r.link = "thread" /\ r.result = ""
           /\ "review" \in StepsCurrent(r) <=> r.result # "" /\ TaskStatus(r) # "worker_done"
           /\ StepsCurrent(r) \subseteq {"github", "discord", "worker", "review"}
<1>1. r.link \in {"none", "issue", "thread"}
    BY DEF Record
<1>2. DOMAIN Before = {"github", "discord", "worker", "review"}
    BY DEF Before
<1>3. /\ Before["github"] = "queued" /\ Before["discord"] = "github"
      /\ Before["worker"] = "discord" /\ Before["review"] = "worker"
    BY DEF Before
<1>4. /\ "queued" \in StepsDone(r)
      /\ "github" \in StepsDone(r) <=> r.link # "none"
      /\ "discord" \in StepsDone(r) <=> r.link = "thread"
      /\ "worker" \in StepsDone(r) <=> r.result # ""
      /\ "review" \in StepsDone(r) <=> TaskStatus(r) = "worker_done"
    BY DEF StepsDone
<1>5. TaskStatus(r) = "worker_done" => r.result # ""
    BY TaskStatusDone
<1> QED
    BY <1>1, <1>2, <1>3, <1>4, <1>5 DEF StepsCurrent

(* ... and that its advice fits them.                                        *)
LEMMA AdviceFitsRail == ASSUME NEW r \in Record PROVE PanelAgrees(r)
<1>1. /\ r.link \in {"none", "issue", "thread"}
      /\ r.result \in {"running", "failed", "done", ""}
      /\ r.progress \in {"running", "failed", "done", ""}
      /\ r.evidence \in BOOLEAN
    BY DEF Record, Statuses
<1>2. TaskStatus(r) = "worker_done" <=> r.result = "done"
    BY TaskStatusDone
<1>3. Missing(r) = {} <=> r.link = "thread" /\ r.result # "" /\ r.evidence
    BY <1>1 DEF Missing
<1>4. Stage(r) = "review_ready" <=> r.result = "done"
    BY <1>2 DEF Stage
<1>5. StepsCurrent(r) = {} <=> r.link = "thread" /\ r.result = "done"
    BY <1>1, <1>2, RailSteps
<1>6. NextAction(r) = "summarize_worker_result_for_supervisor_review"
        <=> r.link = "thread" /\ r.result = "done"
    BY <1>1 DEF NextAction, TaskStatus
<1>7. NextAction(r) = "link_ledger_and_thread_before_delivery"
        => r.link # "thread" /\ r.result = "done"
    BY <1>1 DEF NextAction, TaskStatus
<1>8. NextAction(r) = "capture_worker_session_result" => r.link = "thread" /\ r.result = ""
    BY <1>1 DEF NextAction, TaskStatus
<1>9. NextAction(r) = "dispatch_to_worker_thread" => r.link = "issue" /\ r.result = ""
    BY <1>1 DEF NextAction, TaskStatus
<1>10. r.link # "thread" /\ r.result = "done" => StepsCurrent(r) \in {{"github"}, {"discord"}}
    BY <1>1, <1>2, RailSteps
<1>11. r.link = "thread" /\ r.result = "" => StepsCurrent(r) = {"worker"}
    BY <1>1, <1>2, RailSteps
<1>12. r.link = "issue" /\ r.result = "" => StepsCurrent(r) = {"discord"}
    BY <1>1, <1>2, RailSteps
<1> QED
    BY <1>1, <1>3, <1>4, <1>5, <1>6, <1>7, <1>8, <1>9, <1>10, <1>11, <1>12
       DEF PanelAgrees, CompletionReady

LEMMA SourcesGiveAgreement == ReportsTypeOK /\ SourcesInv => ReportsAgree
<1> SUFFICES ASSUME ReportsTypeOK, SourcesInv, NEW c \in Captures, Known(c)
             PROVE  LET r == state[c]
                        failing == TaskStatus(r) = "worker_failed"
                    IN /\ ReviewReady(r) <=> CompletionReady(r)
                       /\ PanelAgrees(r)
                       /\ failing => c \in Candidates
                       /\ c \in Candidates => failing \/ c \in apart
    BY DEF ReportsAgree
<1> DEFINE r == state[c]
<1>1. r \in Record
    BY DEF Known, ReportsTypeOK
<1>2. ReviewReady(r) <=> CompletionReady(r)
    BY <1>1, ReviewMatchesCompletion
<1>3. TaskStatus(r) = "worker_failed"
        <=> r.result = "failed" \/ (r.result = "" /\ r.progress = "failed")
    BY <1>1 DEF TaskStatus, Record, Statuses
<1>4. c \in Candidates <=> r.result = "failed" \/ r.progress = "failed"
    BY DEF Candidates, Retryable
<1>5. r.progress = "failed" /\ r.result \notin {"", "failed"} => c \in apart
    BY DEF SourcesInv, OneSource
<1>6. PanelAgrees(r)
    BY <1>1, AdviceFitsRail
<1> QED
    BY <1>2, <1>3, <1>4, <1>5, <1>6

(* The reports about a record agree, or its result and its progress come     *)
(* from two sources (task_status, task_status_for, is_complete_review_ready, *)
(* ready_for_completion), for any number of captures and changes.            *)
THEOREM ReportsInAgreement == ReportsSpec => []ReportsAgree
<1>1. Init => SourcesInv
    BY DEF Init, SourcesInv, OneSource, Known
<1>2. ReportsTypeOK /\ SourcesInv /\ [Next]_vars => SourcesInv'
    BY SourcesPreserved
<1> QED
    BY <1>1, <1>2, ReportsTypes, SourcesGiveAgreement, PTL DEF ReportsSpec

-----------------------------------------------------------------------------
(* What the files hold of the tick that is under way.                        *)
PlanFresh ==
    /\ job \in {"unattended-readiness", "retry-backoff", "unattended-status"}
    /\ "queue-plan" \notin failed
    => waiting = {} \/ plan \in {"queued", "held"}

RetryFresh ==
    /\ job = "unattended-status"
    /\ "retry-backoff" \notin failed
    => troubled \subseteq retry.candidates

FreshInv == PlanFresh /\ RetryFresh

(* While a tick goes on, what has been observed can only become less.        *)
LEMMA ObservationShrinks ==
    ASSUME Observe, job # "rest"
    PROVE  /\ waiting' \subseteq waiting
           /\ troubled' \subseteq troubled
           /\ waiting' \subseteq Eligible'
           /\ troubled' \subseteq Candidates'
BY DEF Observe, Since

LEMMA FreshPreserved ==
    ASSUME ReportsTypeOK, FreshInv, [Next]_vars
    PROVE  FreshInv'
<1> USE DEF Jobs
<1>1. CASE UNCHANGED vars
    BY <1>1 DEF vars, reports, tick, FreshInv, PlanFresh, RetryFresh
<1>2. ASSUME Observe, job # "rest", job' = job, failed' = failed, plan' = plan, retry' = retry
      PROVE  FreshInv'
    BY <1>2, ObservationShrinks DEF FreshInv, PlanFresh, RetryFresh
<1>3. ASSUME Observe, job' \in {"rest", "queue-plan"}
      PROVE  FreshInv'
    BY <1>3 DEF FreshInv, PlanFresh, RetryFresh
<1>4. CASE Change /\ Observe
  <2>1. job' = job /\ failed' = failed /\ plan' = plan /\ retry' = retry
    BY <1>4 DEF Change, Store, Alias, Dispatch, RecordResult, ImportProgress, Backfill,
                HoldEnds, Unreported, reports, tick
  <2> QED
    BY <1>2, <1>3, <1>4, <2>1
<1>5. CASE TimerFires /\ Observe
    BY <1>3, <1>5 DEF TimerFires
<1>6. CASE TickCutOff /\ Observe
    BY <1>3, <1>6 DEF TickCutOff
<1>7. CASE (StatusJob \/ StatusRefused) /\ Observe
    BY <1>3, <1>7 DEF StatusJob, StatusRefused, Ran, Failed, After
<1>8. CASE QueueJob /\ Observe
  <2>1. UNCHANGED <<stored, aliases, state, held>>
    BY <1>8 DEF QueueJob, Ran, World
  <2>2. Eligible' = Eligible
    BY <2>1 DEF Eligible, Recent, Known
  <2>3. job' = "unattended-readiness" /\ plan' = PlanOf /\ waiting' \subseteq Eligible'
    BY <1>8, ObservationShrinks DEF QueueJob, Ran, After
  <2>4. Eligible # {} => PlanOf \in {"queued", "held"}
    BY DEF PlanOf, ReportsTypeOK
  <2> QED
    BY <2>2, <2>3, <2>4 DEF FreshInv, PlanFresh, RetryFresh
<1>9. CASE ReadinessJob /\ Observe
  <2>1. job' = "retry-backoff" /\ failed' = failed /\ plan' = plan
    BY <1>9 DEF ReadinessJob, Ran, After
  <2> QED
    BY <1>9, <2>1, ObservationShrinks DEF ReadinessJob, Ran, FreshInv, PlanFresh, RetryFresh
<1>10. CASE RetryJob /\ Observe
  <2>1. /\ job = "retry-backoff" /\ job' = "unattended-status"
        /\ failed' = failed /\ plan' = plan
        /\ retry' = [made |-> TRUE, candidates |-> Candidates]
    BY <1>10 DEF RetryJob, Ran, After
  <2>2. state' = state
    BY <1>10 DEF RetryJob, Ran, World
  <2>3. Candidates' = Candidates
    BY <2>2 DEF Candidates, Known
  <2> QED
    BY <1>10, <2>1, <2>3, ObservationShrinks DEF FreshInv, PlanFresh, RetryFresh
<1>11. CASE JobFails /\ Observe
  <2>1. PICK j \in Jobs : Failed(j) /\ Spoilt(j)
    BY <1>11 DEF JobFails
  <2>2. /\ job = j /\ job' = After(j)
        /\ j = "queue-plan" \/ plan' = plan
        /\ j = "retry-backoff" \/ retry' = retry
    BY <2>1 DEF Failed, Spoilt, reports
  <2>3. CASE j = "queue-plan"
    <3>1. job' = "unattended-readiness" /\ "queue-plan" \in failed'
        BY <2>1, <2>2, <2>3 DEF Failed, After
    <3> QED
        BY <3>1 DEF FreshInv, PlanFresh, RetryFresh
  <2>4. CASE j = "unattended-readiness"
    <3>1. job' = "retry-backoff" /\ failed' = failed \cup {"unattended-readiness"}
        BY <2>1, <2>2, <2>4 DEF Failed, After
    <3> QED
        BY <1>11, <2>2, <2>4, <3>1, ObservationShrinks DEF FreshInv, PlanFresh, RetryFresh
  <2>5. CASE j = "retry-backoff"
    <3>1. job' = "unattended-status" /\ failed' = failed \cup {"retry-backoff"}
        BY <2>1, <2>2, <2>5 DEF Failed, After
    <3> QED
        BY <1>11, <2>2, <2>5, <3>1, ObservationShrinks DEF FreshInv, PlanFresh, RetryFresh
  <2>6. CASE j = "unattended-status"
    BY <1>3, <1>11, <2>2, <2>6 DEF After
  <2> QED
    BY <2>3, <2>4, <2>5, <2>6
<1> QED
    BY <1>1, <1>4, <1>5, <1>6, <1>7, <1>8, <1>9, <1>10, <1>11 DEF Next, TickStep

(* A tick that says idle is right, except for what its failed jobs and a     *)
(* history that forbids dispatch explain (build_status, build_plan), for any *)
(* inbox and any interleaving with those who write the records.              *)
THEOREM IdleTrue == ReportsSpec => IdleIsTrue
<1>1. Init => FreshInv
    BY DEF Init, FreshInv, PlanFresh, RetryFresh
<1>2. ReportsTypeOK /\ FreshInv /\ [Next]_vars => FreshInv'
    BY FreshPreserved
<1>3. ReportsTypeOK /\ FreshInv
        => (StatusJob /\ decision' = "idle_ready" =>
              /\ waiting = {} \/ plan = "held" \/ "queue-plan" \in failed
              /\ troubled = {} \/ "retry-backoff" \in failed)
  <2> SUFFICES ASSUME ReportsTypeOK, FreshInv, StatusJob, decision' = "idle_ready"
               PROVE  /\ waiting = {} \/ plan = "held" \/ "queue-plan" \in failed
                      /\ troubled = {} \/ "retry-backoff" \in failed
    OBVIOUS
  <2>1. job = "unattended-status" /\ Decision = "idle_ready"
    BY DEF StatusJob, Ran
  <2>2. plan # "queued" /\ retry.candidates = {}
    BY <2>1 DEF Decision, ReportsTypeOK
  <2> QED
    BY <2>1, <2>2 DEF FreshInv, PlanFresh, RetryFresh
<1> QED
    BY <1>1, <1>2, <1>3, ReportsTypes, PTL DEF ReportsSpec, IdleIsTrue

-----------------------------------------------------------------------------
(* What a step of the panel does to the variables of AutomationReports.      *)
LEMMA PanelStepsReports == PanelNext => [Next]_vars
<1> SUFFICES ASSUME PanelNext PROVE [Next]_vars
    OBVIOUS
<1>1. CASE Outside
    BY <1>1 DEF Outside
<1>2. CASE PageStep /\ UNCHANGED vars
    BY <1>2
<1>3. CASE \E c \in Captures : WrapperDispatches(c) /\ Dispatch(c) /\ Observe
    BY <1>3 DEF Next, Change
<1> QED
    BY <1>1, <1>2, <1>3 DEF PanelNext

(* The panel and the wrappers that feed it are behaviours of the reports:    *)
(* all that holds of AutomationReports holds with the panel beside it.       *)
THEOREM PanelKeepsReports == PanelSpec => ReportsSpec
<1>1. PanelInit => Init
    BY DEF PanelInit
<1>2. [PanelNext]_panelVars => [Next]_vars
    BY PanelStepsReports DEF panelVars
<1> QED
    BY <1>1, <1>2, PTL DEF PanelSpec, ReportsSpec

-----------------------------------------------------------------------------
LEMMA SummaryTypes ==
    /\ NoSummary \in Summary
    /\ FailureSummary \in Summary
    /\ Planned \in Summary
    /\ NoStatus \in Status
BY DEF NoSummary, FailureSummary, Planned, Summary, NoStatus, Status

LEMMA MergeType ==
    ASSUME NEW current \in Status, NEW run \in Summary
    PROVE  Merge(current, run) \in Status
BY DEF Merge, Status, Summary

LEMMA AnswerTypes == ASSUME latest \in Summary PROVE Answers \subseteq Status
<1>1. ASSUME NEW run \in Summary PROVE StatusWith(run) \in Status
    BY <1>1 DEF StatusWith, Status, Summary
<1> QED
    BY <1>1, SummaryTypes DEF Answers

(* The types of the page's own variables.                                    *)
PageTypeOK ==
    /\ scenario \in Scenario
    /\ latest \in Summary
    /\ token \in BOOLEAN
    /\ packetStatus \in Status
    /\ ran \in {"none", "failed", "dry-run"}
    /\ dry \in [at : {"none", "asked", "planned", "failing", "answered", "list", "packet",
                      "arriving"},
                summary : Summary, answer : Status]
    /\ refresh \in [at : {"none", "list", "packet", "arriving"},
                    kind : {"dispatch", "packet"}, answer : Status]
    /\ wrapper \in [at : {"none", "planned"}, summary : Summary]
    /\ leaving \in BOOLEAN

LEMMA IdleTypes ==
    /\ NoRun \in [at : {"none", "asked", "planned", "failing", "answered", "list", "packet",
                        "arriving"},
                  summary : Summary, answer : Status]
    /\ NoRefresh \in [at : {"none", "list", "packet", "arriving"},
                      kind : {"dispatch", "packet"}, answer : Status]
    /\ NoWrapper \in [at : {"none", "planned"}, summary : Summary]
BY SummaryTypes DEF NoRun, NoRefresh, NoWrapper

LEMMA SpendType ==
    ASSUME scenario \in Scenario,
           NEW what \in {"dryRuns", "refreshes", "wrappers", "departures"}, Spend(what)
    PROVE  scenario' \in Scenario
BY DEF Spend, Scenario

LEMMA DryRunTypes == ASSUME PageTypeOK, PressDryRun \/ DryRunStep PROVE PageTypeOK'
<1> USE SummaryTypes, IdleTypes DEF PageTypeOK, page
<1>1. CASE PressDryRun
    BY <1>1, SpendType DEF PressDryRun, NoRun
<1>2. CASE DryRunPlans
    BY <1>2 DEF DryRunPlans
<1>3. CASE DryRunWrites
    BY <1>3 DEF DryRunWrites
<1>4. CASE DryRunFails
    BY <1>4 DEF DryRunFails
<1>5. CASE DryRunRefused
    BY <1>5 DEF DryRunRefused
<1>0. Merge(packetStatus, dry.summary) \in Status /\ Merge(NoStatus, dry.summary) \in Status
      /\ Merge(dry.answer, dry.summary) \in Status
  <2>1. dry.summary \in Summary /\ dry.answer \in Status /\ packetStatus \in Status
      OBVIOUS
  <2> QED
      BY <2>1, MergeType, SummaryTypes
<1>6. CASE DryRunAnswered
  <2>1. packetStatus' \in Status
      BY <1>0, <1>6 DEF DryRunAnswered, Conclude
  <2>2. dry' \in {[dry EXCEPT !.at = "list"], NoRun} /\ ran' = "dry-run"
      BY <1>6 DEF DryRunAnswered, Conclude
  <2> QED
      BY <1>6, <2>1, <2>2 DEF DryRunAnswered
<1>7. CASE DryRunLists
    BY <1>7 DEF DryRunLists
<1>8. CASE DryRunStatus
    BY <1>8, AnswerTypes DEF DryRunStatus
<1>9. CASE DryRunEnds
  <2>1. packetStatus' \in Status
      BY <1>0, <1>9 DEF DryRunEnds, Conclude
  <2>2. dry' = NoRun /\ ran' = "dry-run"
      BY <1>9 DEF DryRunEnds, Conclude
  <2> QED
      BY <1>9, <2>1, <2>2 DEF DryRunEnds
<1> QED
    BY <1>1, <1>2, <1>3, <1>4, <1>5, <1>6, <1>7, <1>8, <1>9 DEF DryRunStep

LEMMA RefreshTypes ==
    ASSUME PageTypeOK, NEW kind \in {"dispatch", "packet"}, PressRefresh(kind) \/ RefreshStep
    PROVE  PageTypeOK'
<1> USE SummaryTypes, IdleTypes DEF PageTypeOK, page
<1>1. CASE PressRefresh(kind)
  <2>1. scenario' \in Scenario
      BY <1>1, SpendType DEF PressRefresh
  <2> QED
      BY <1>1, <2>1 DEF PressRefresh, Cleared, FirstRequest, NoRefresh
<1>2. CASE RefreshLists
    BY <1>2 DEF RefreshLists
<1>3. CASE RefreshStatus
    BY <1>3, AnswerTypes DEF RefreshStatus
<1>4. CASE RefreshEnds
    BY <1>4 DEF RefreshEnds
<1>5. CASE RefreshFails
    BY <1>5 DEF RefreshFails, Cleared
<1> QED
    BY <1>1, <1>2, <1>3, <1>4, <1>5 DEF RefreshStep

LEMMA OtherTypes ==
    ASSUME PageTypeOK,
           \/ Disconnect \/ Disconnected \/ Pair \/ CheckStatus \/ WrapperPlans \/ WrapperEnds
           \/ \E c \in Captures : WrapperDispatches(c)
    PROVE  PageTypeOK'
<1> USE SummaryTypes, IdleTypes DEF PageTypeOK, page
<1>1. CASE Disconnect
    BY <1>1, SpendType DEF Disconnect
<1>2. CASE Disconnected
    BY <1>2 DEF Disconnected
<1>3. CASE Pair
    BY <1>3 DEF Pair, NoRefresh
<1>4. CASE CheckStatus
    BY <1>4, SpendType DEF CheckStatus
<1>5. CASE WrapperPlans
    BY <1>5, SpendType DEF WrapperPlans
<1>6. CASE WrapperEnds
    BY <1>6 DEF WrapperEnds
<1>7. CASE \E c \in Captures : WrapperDispatches(c)
  <2>1. [queue |-> 1, wrote |-> TRUE] \in Summary
      BY DEF Summary
  <2>2. wrapper' = [wrapper EXCEPT !.summary = [queue |-> 1, wrote |-> TRUE]]
        /\ UNCHANGED <<scenario, latest, token, packetStatus, ran, leaving, dry, refresh>>
      BY <1>7 DEF WrapperDispatches
  <2>3. wrapper' \in [at : {"none", "planned"}, summary : Summary]
      BY <2>1, <2>2
  <2> QED
      BY <2>2, <2>3
<1> QED
    BY <1>1, <1>2, <1>3, <1>4, <1>5, <1>6, <1>7

LEMMA PageTypesPreserved == PageTypeOK /\ [PanelNext]_panelVars => PageTypeOK'
<1> SUFFICES ASSUME PageTypeOK, [PanelNext]_panelVars PROVE PageTypeOK'
    OBVIOUS
<1>1. CASE UNCHANGED panelVars
    BY <1>1 DEF panelVars, panel, page, PageTypeOK
<1>2. CASE Outside
    BY <1>2 DEF Outside, page, PageTypeOK
<1>3. CASE PageStep
    BY <1>3, DryRunTypes, RefreshTypes, OtherTypes DEF PageStep
<1>4. CASE \E c \in Captures : WrapperDispatches(c) /\ Dispatch(c) /\ Observe
    BY <1>4, OtherTypes
<1> QED
    BY <1>1, <1>2, <1>3, <1>4 DEF PanelNext

LEMMA WatchTypes ==
    ASSUME seen \subseteq {"Queue clear", "Packet queued", "Review ready", "Worker pending"},
           [PanelNext]_panelVars
    PROVE  seen' \subseteq {"Queue clear", "Packet queued", "Review ready", "Worker pending"}
<1>1. CASE UNCHANGED panelVars
    BY <1>1 DEF panelVars, panel
<1>2. CASE PanelNext
    BY <1>2 DEF PanelNext, Watch, Right
<1> QED
    BY <1>1, <1>2

(* The variables of the panel have their types, for any captures and bounds. *)
THEOREM PanelTypes == PanelSpec => []PanelTypeOK
<1> DEFINE SeenOK ==
        seen \subseteq {"Queue clear", "Packet queued", "Review ready", "Worker pending"}
<1>1. PanelInit => PageTypeOK /\ SeenOK
    BY PanelAssumption, SummaryTypes, IdleTypes DEF PanelInit, PageTypeOK
<1>2. SeenOK /\ [PanelNext]_panelVars => SeenOK'
    BY WatchTypes
<1>3. ReportsTypeOK /\ PageTypeOK /\ SeenOK => PanelTypeOK
    BY DEF PageTypeOK, PanelTypeOK
<1> HIDE DEF SeenOK
<1> QED
    BY <1>1, <1>2, <1>3, PageTypesPreserved, PanelKeepsReports, ReportsTypes, PTL DEF PanelSpec

-----------------------------------------------------------------------------
(* What a dry run that is under way has found was right since it began.      *)
SummaryRight ==
    dry.at \in {"planned", "answered", "list", "packet", "arriving"} =>
        /\ dry.summary.wrote = FALSE
        /\ dry.summary.queue = 1 => "Packet queued" \in seen
        /\ dry.summary.queue = 0 => "Queue clear" \in seen

AnswerRight ==
    dry.at = "arriving" =>
        /\ dry.answer.review => "Review ready" \in seen
        /\ dry.answer.pending => "Worker pending" \in seen

FoundInv == SummaryRight /\ AnswerRight

LEMMA RightNow ==
    ASSUME ReportsTypeOK
    PROVE  /\ Planned.queue \in {0, 1} /\ Planned.wrote = FALSE
           /\ Planned.queue = 1 => "Packet queued" \in Right
           /\ Planned.queue = 0 => "Queue clear" \in Right
           /\ \A a \in Answers : /\ a.review => "Review ready" \in Right
                                 /\ a.pending => "Worker pending" \in Right
<1>1. PlanOf = "queued" <=> ~held /\ Eligible # {}
    BY DEF PlanOf, ReportsTypeOK
<1>2. /\ "Packet queued" \in Right <=> ~held /\ Eligible # {}
      /\ "Queue clear" \in Right <=> held \/ Eligible = {}
    BY DEF Right
<1>3. ASSUME NEW c \in Captures, Known(c)
      PROVE  /\ NextAction(state[c]) = "summarize_worker_result_for_supervisor_review"
                  => state[c].link = "thread" /\ state[c].result = "done"
             /\ TaskStatus(state[c]) = "dispatched_to_worker_thread"
                  => state[c].link = "thread" /\ state[c].result = ""
  <2>1. state[c] \in Record
      BY <1>3 DEF Known, ReportsTypeOK
  <2>2. state[c].result \in {"running", "failed", "done", ""}
      BY <2>1 DEF Record, Statuses
  <2> QED
      BY <2>2 DEF NextAction, TaskStatus
<1>4. ASSUME NEW run
      PROVE  /\ StatusWith(run).review => "Review ready" \in Right
             /\ StatusWith(run).pending => "Worker pending" \in Right
    BY <1>3 DEF StatusWith, Right
<1>5. ASSUME NEW a \in Answers
      PROVE  /\ a.review => "Review ready" \in Right
             /\ a.pending => "Worker pending" \in Right
  <2>1. PICK run : a = StatusWith(run)
      BY <1>5 DEF Answers
  <2> QED
      BY <1>4, <2>1
<1>6. /\ Planned.queue \in {0, 1} /\ Planned.wrote = FALSE
      /\ Planned.queue = 1 => PlanOf = "queued"
      /\ Planned.queue = 0 => PlanOf # "queued"
    BY DEF Planned
<1> QED
    BY <1>1, <1>2, <1>5, <1>6

(* While a dry run goes on, what has been right stays in the record.         *)
LEMMA SeenGrows ==
    ASSUME Watch, dry.at # "none", dry'.at # "none"
    PROVE  seen \subseteq seen' /\ Right' \subseteq seen'
BY DEF Watch

LEMMA FoundPreserved ==
    ASSUME ReportsTypeOK, PageTypeOK, FoundInv, [PanelNext]_panelVars
    PROVE  FoundInv'
<1> USE DEF FoundInv, SummaryRight, AnswerRight
<1>1. CASE UNCHANGED panelVars
    BY <1>1 DEF panelVars, panel
<1>2. ASSUME Watch, dry' = dry PROVE FoundInv'
    BY <1>2, SeenGrows
<1>3. ASSUME Watch, dry'.at \in {"none", "asked", "failing"} PROVE FoundInv'
    BY <1>3
<1>4. CASE PanelNext
  <2>0. Watch
      BY <1>4 DEF PanelNext
  <2>1. CASE Outside \/ \E c \in Captures : WrapperDispatches(c)
      BY <1>2, <2>0, <2>1 DEF Outside, WrapperDispatches
  <2>2. CASE PageStep /\ UNCHANGED vars
    <3>1. Right' = Right
        BY <2>2 DEF vars, Right, Eligible, Recent, Known
    <3>2. CASE PressDryRun
        BY <1>2, <1>3, <2>0, <3>2 DEF PressDryRun, NoRun
    <3>3. CASE DryRunPlans
      <4>1. dry.at # "none" /\ dry'.at = "planned" /\ dry'.summary = Planned
          BY <3>3 DEF DryRunPlans, PageTypeOK
      <4> QED
          BY <2>0, <3>1, <4>1, RightNow, SeenGrows
    <3>4. CASE DryRunWrites \/ DryRunLists
      <4>1. /\ dry.at \in {"planned", "list"} /\ dry'.at \in {"answered", "packet"}
            /\ dry'.summary = dry.summary
          BY <3>4 DEF DryRunWrites, DryRunLists, PageTypeOK
      <4> QED
          BY <2>0, <4>1, SeenGrows
    <3>5. CASE DryRunFails \/ DryRunRefused \/ DryRunEnds
      <4>1. dry' \in {NoRun, [dry EXCEPT !.at = "failing"]}
          BY <3>5 DEF DryRunFails, DryRunRefused, DryRunEnds, Conclude
      <4>2. NoRun.at = "none" /\ [dry EXCEPT !.at = "failing"].at = "failing"
          BY DEF NoRun, PageTypeOK
      <4> QED
          BY <1>3, <2>0, <4>1, <4>2
    <3>6. CASE DryRunAnswered
      <4>1. CASE dry' = NoRun
          BY <1>3, <2>0, <4>1 DEF NoRun
      <4>2. CASE dry' = [dry EXCEPT !.at = "list"]
        <5>1. dry.at = "answered" /\ dry'.at = "list" /\ dry'.summary = dry.summary
            BY <3>6, <4>2 DEF DryRunAnswered, PageTypeOK
        <5> QED
            BY <2>0, <5>1, SeenGrows
      <4> QED
          BY <3>6, <4>1, <4>2 DEF DryRunAnswered, Conclude
    <3>7. CASE DryRunStatus
      <4>1. PICK a \in Answers : dry.at = "packet" /\ dry' = [dry EXCEPT !.at = "arriving", !.answer = a]
          BY <3>7 DEF DryRunStatus
      <4>2. dry'.at = "arriving" /\ dry'.summary = dry.summary /\ dry'.answer = a
          BY <4>1 DEF PageTypeOK
      <4>3. seen \subseteq seen' /\ Right \subseteq seen'
          BY <2>0, <3>1, <4>1, <4>2, SeenGrows
      <4>4. /\ dry'.answer.review => "Review ready" \in seen'
            /\ dry'.answer.pending => "Worker pending" \in seen'
          BY <4>2, <4>3, RightNow
      <4>5. SummaryRight'
          BY <4>1, <4>2, <4>3
      <4> QED
          BY <4>4, <4>5
    <3>8. CASE \/ \E kind \in {"dispatch", "packet"} : PressRefresh(kind)
               \/ RefreshStep \/ Disconnect \/ Disconnected \/ Pair \/ CheckStatus
               \/ WrapperPlans \/ WrapperEnds
      <4>1. dry' = dry
          BY <3>8 DEF PressRefresh, RefreshStep, RefreshLists, RefreshStatus, RefreshEnds,
                      RefreshFails, Disconnect, Disconnected, Pair, CheckStatus, WrapperPlans,
                      WrapperEnds
      <4> QED
          BY <1>2, <2>0, <4>1
    <3> QED
        BY <2>2, <3>2, <3>3, <3>4, <3>5, <3>6, <3>7, <3>8 DEF PageStep, DryRunStep
  <2> QED
      BY <1>4, <2>1, <2>2 DEF PanelNext
<1> QED
    BY <1>1, <1>4

(* What the panel advises after a dry run.                                   *)
LEMMA AdviceCases ==
    ASSUME NEW s, s.set
    PROVE  /\ s.review => AdviceOf(s, "dry-run") = "Review ready"
           /\ ~s.review /\ s.pending => AdviceOf(s, "dry-run") = "Worker pending"
           /\ ~s.review /\ ~s.pending /\ s.queue > 0 /\ ~s.wrote
                => AdviceOf(s, "dry-run") = "Packet queued"
           /\ ~s.review /\ ~s.pending /\ ~(s.queue > 0) /\ s.queue = 0
                => AdviceOf(s, "dry-run") = "Queue clear"
BY DEF AdviceOf

(* The end of a dry run that ended well.                                     *)
LEMMA ConclusionRight ==
    ASSUME PageTypeOK, FoundInv, NEW left \in Status, Conclude(left),
           dry.at \in {"answered", "list", "packet", "arriving"},
           left = NoStatus \/ (left = dry.answer /\ dry.at = "arriving")
    PROVE  Advice' \in seen
<1> DEFINE s == Merge(left, dry.summary)
<1>1. packetStatus' = s /\ ran' = "dry-run"
    BY DEF Conclude
<1>2. dry.summary \in Summary
    BY DEF PageTypeOK
<1>3. /\ s.set = TRUE /\ s.queue = dry.summary.queue /\ s.wrote = FALSE
      /\ s.review = left.review /\ s.pending = left.pending
      /\ s.queue \in {0, 1}
    BY <1>2 DEF Merge, Status, Summary, FoundInv, SummaryRight
<1>4. /\ s.review => "Review ready" \in seen
      /\ s.pending => "Worker pending" \in seen
  <2>1. CASE left = NoStatus
      BY <1>3, <2>1 DEF NoStatus
  <2>2. CASE left = dry.answer /\ dry.at = "arriving"
      BY <1>3, <2>2 DEF FoundInv, AnswerRight
  <2> QED
      BY <2>1, <2>2
<1>5. /\ s.queue = 1 => "Packet queued" \in seen
      /\ s.queue = 0 => "Queue clear" \in seen
    BY <1>3 DEF FoundInv, SummaryRight
<1>6. s.review \in BOOLEAN /\ s.pending \in BOOLEAN
    BY <1>3 DEF Status
<1> HIDE DEF s
<1>7. Advice' = AdviceOf(s, "dry-run") /\ s.set
    BY <1>1, <1>3 DEF Advice
<1>8. s.queue = 1 => s.queue > 0 /\ ~s.wrote
    BY <1>3
<1>9. s.queue = 0 => ~(s.queue > 0)
    OBVIOUS
<1> QED
    BY <1>3, <1>4, <1>5, <1>6, <1>7, <1>8, <1>9, AdviceCases

(* After a dry run that ended well the panel's advice was right at some      *)
(* moment since the run was asked for (runSingleCommandPacketDryRun), for    *)
(* any number of captures, refreshes, wrappers and departures.               *)
THEOREM PanelAdviceRight == PanelSpec => AdviceWasRight
<1> DEFINE Step == dry.at # "none" /\ dry'.at = "none" /\ ran' = "dry-run" => Advice' \in seen
<1>1. PanelInit => PageTypeOK /\ FoundInv
    BY PanelAssumption, SummaryTypes, IdleTypes
       DEF PanelInit, PageTypeOK, FoundInv, SummaryRight, AnswerRight, NoRun
<1>2. ReportsTypeOK /\ PageTypeOK /\ FoundInv /\ [PanelNext]_panelVars => FoundInv'
    BY FoundPreserved
<1>3. PageTypeOK /\ FoundInv /\ [PanelNext]_panelVars => [Step]_panelVars
  <2> SUFFICES ASSUME PageTypeOK, FoundInv, PanelNext, dry.at # "none", dry'.at = "none",
                      ran' = "dry-run"
               PROVE  Advice' \in seen
      OBVIOUS
  <2>1. CASE DryRunAnswered
      BY <2>1, ConclusionRight, SummaryTypes DEF DryRunAnswered, PageTypeOK
  <2>2. CASE DryRunEnds
      BY <2>2, ConclusionRight, SummaryTypes DEF DryRunEnds, PageTypeOK
  <2>3. CASE DryRunRefused
      BY <2>3 DEF DryRunRefused
  <2>4. CASE ~(DryRunAnswered \/ DryRunEnds \/ DryRunRefused)
    <3>1. PressDryRun \/ DryRunPlans \/ DryRunWrites \/ DryRunFails \/ DryRunLists
          \/ DryRunStatus \/ dry' = dry
        BY <2>4 DEF PanelNext, Outside, WrapperDispatches, PageStep, DryRunStep, PressRefresh,
                    RefreshStep, RefreshLists, RefreshStatus, RefreshEnds, RefreshFails,
                    Disconnect, Disconnected, Pair, CheckStatus, WrapperPlans, WrapperEnds
    <3> QED
        BY <3>1 DEF PressDryRun, DryRunPlans, DryRunWrites, DryRunFails, DryRunLists,
                    DryRunStatus, PageTypeOK
  <2> QED
      BY <2>1, <2>2, <2>3, <2>4
<1> QED
    BY <1>1, <1>2, <1>3, PageTypesPreserved, PanelKeepsReports, ReportsTypes, PTL
       DEF PanelSpec, AdviceWasRight

=============================================================================
