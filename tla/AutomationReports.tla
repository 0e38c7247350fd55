------------------------- MODULE AutomationReports -------------------------
(***************************************************************************)
(* What the owner is told about the automation, and from which files:      *)
(*   queue-plan            pnh_unattended_dispatch_queue_plan.py           *)
(*   unattended-readiness  pnh_unattended_dispatch_readiness.py            *)
(*   retry-backoff         pnh_unattended_retry_backoff.py                 *)
(*   unattended-status     pnh_unattended_automation_status.py             *)
(* are jobs of a tick (pnh_scheduler_tick.py), which the timer starts over *)
(* and over with the same runtime directory, so that the output of a job   *)
(* that fails is the one of an earlier tick.  While a tick runs, captures  *)
(* arrive, commands are dispatched, and workers, operators and parsers of  *)
(* progress write the records that the jobs read.                          *)
(*                                                                         *)
(* The scripts that write records here call no service between load and    *)
(* save and are one step each; DispatchWriters is about overlapping ones.  *)
(***************************************************************************)
EXTENDS Naturals, Sequences, FiniteSets

CONSTANTS
    Captures,
    Commands,     \* the captures that were sent as commands
    Named,        \* the captures that results and progress texts are about
    Results,      \* the statuses that workers end with
    Texts,        \* progress texts: the set of statuses that each mentions
    Window,       \* captures the queue plan inspects (--limit, 50 in the code)
    MaxChanges,   \* bound: results and progress reports
    MaxFailures   \* bound: jobs that fail and ticks that are cut off

ASSUME ReportsAssumption ==
    /\ Commands \subseteq Captures
    /\ Named \subseteq Captures
    /\ Results \subseteq {"running", "failed", "done"}
    /\ Texts \subseteq SUBSET {"failed", "done"}
    /\ Window \in Nat \ {0}
    /\ MaxChanges \in Nat
    /\ MaxFailures \in Nat

VARIABLES
    stored,      \* captures in the private inbox, in order of arrival
    aliases,     \* captures declared commands in pnh_command_aliases.json
    state,       \* capture -> its record in pnh_dispatch_state.json
    held,        \* the history forbids dispatch: cooldown, hourly limit
    plan,        \* queue_plan.json
    readiness,   \* readiness.json
    retry,       \* retry_backoff_plan.json
    decision,    \* unattended_status.json
    job,         \* the job of the tick that runs next
    failed,      \* the jobs of this tick that have failed
    changes,     \* (bound)
    failures,    \* (bound)
    waiting,     \* (observation) commands that wait since the tick began
    troubled,    \* (observation) records to retry since the tick began
    apart        \* (observation) records whose result and progress have two sources

reports == <<plan, readiness, retry, decision>>
tick == <<job, failed, failures>>
vars == <<stored, aliases, state, held, reports, tick, changes,
          waiting, troubled, apart>>

-----------------------------------------------------------------------------
(* "running" stands for queued, running, review and qa, and "failed" also    *)
(* for blocked, which every report treats in the same way.                   *)
Statuses == {"running", "failed", "done"}

(* A result brings the worker's session id and its status.                   *)
Record == [link : {"none", "issue", "thread"}, result : Statuses \cup {""},
           evidence : BOOLEAN, progress : Statuses \cup {""}]

Unknown == [link |-> "unknown"]
NoLinks == [link |-> "none", result |-> "", evidence |-> FALSE, progress |-> ""]

(* A file that is not there or cannot be parsed is "missing".                *)
NoRetryPlan == [made |-> FALSE, candidates |-> {}]

Jobs == {"queue-plan", "unattended-readiness", "retry-backoff", "unattended-status"}

Init ==
    /\ stored = << >>
    /\ aliases = {}
    /\ state = [c \in Captures |-> Unknown]
    /\ held = FALSE
    /\ plan = "missing"
    /\ readiness = "missing"
    /\ retry = NoRetryPlan
    /\ decision = "missing"
    /\ job = "rest"
    /\ failed = {}
    /\ changes = 0
    /\ failures = 0
    /\ waiting = {}
    /\ troubled = {}
    /\ apart = {}

Known(c) == state[c] # Unknown

(* What a script that writes the record of c starts from.                    *)
Existing(c) == IF Known(c) THEN state[c] ELSE NoLinks

-----------------------------------------------------------------------------
(* list_captures: the newest of the inbox.                                   *)
Recent == {stored[n] : n \in {m \in DOMAIN stored : m + Window > Len(stored)}}

(* classify_capture                                                          *)
Eligible == {c \in Recent : c \in Commands \cup aliases /\ ~Known(c)}

(* main and task_status of the retry plan.                                   *)
Retryable(r) == "failed" \in {r.result, r.progress}

Candidates == {c \in Captures : Known(c) /\ Retryable(state[c])}

(* task_status_for of the evidence summary.                                  *)
TaskStatus(r) ==
    CASE r.result = "failed" -> "worker_failed"
      [] r.result = "done" -> "worker_done"
      [] r.result = "running" -> "worker_result_recorded"
      [] r.result = "" /\ r.progress = "failed" -> "worker_failed"
      [] r.result = "" /\ r.progress = "done" -> "worker_progress_done"
      [] r.result = "" /\ r.progress = "running" -> "worker_progress_running"
      [] r.result = "" /\ r.progress = "" /\ r.link = "thread" -> "dispatched_to_worker_thread"
      [] r.result = "" /\ r.progress = "" /\ r.link = "issue" -> "ledger_ready"
      [] OTHER -> "captured_not_dispatched"

(* missing_evidence_for                                                      *)
Missing(r) ==
    {e \in {"github_issue", "discord_thread", "worker_session", "worker_evidence_ref"} :
        \/ e = "github_issue" /\ r.link = "none"
        \/ e = "discord_thread" /\ r.link # "thread"
        \/ e = "worker_session" /\ r.result = ""
        \/ e = "worker_evidence_ref" /\ r.result # "" /\ ~r.evidence}

(* evidence_completeness, in percent, rounded; the reference is not core.    *)
Completeness(r) ==
    LET core == Missing(r) \ {"worker_evidence_ref"}
    IN (100 * (3 - Cardinality(core)) + 1) \div 3

(* Mutant: completeness alone is asked for.                                  *)
ReviewReadyByPercent(r) == TaskStatus(r) = "worker_done" /\ Completeness(r) >= 100

(* is_complete_review_ready                                                  *)
ReviewReady(r) ==
    TaskStatus(r) = "worker_done" /\ Completeness(r) >= 100 /\ Missing(r) = {}

(* ready_for_completion                                                      *)
CompletionReady(r) == r.result = "done" /\ r.evidence /\ r.link = "thread"

(* next_action_for of the evidence summary.                                  *)
NextAction(r) ==
    CASE TaskStatus(r) = "worker_failed" -> "review_worker_evidence_and_retry_or_mark_blocked"
      [] TaskStatus(r) = "worker_done" /\ r.link = "thread" ->
           "summarize_worker_result_for_supervisor_review"
      [] TaskStatus(r) = "worker_done" /\ r.link # "thread" ->
           "link_ledger_and_thread_before_delivery"
      [] TaskStatus(r) = "worker_result_recorded" -> "inspect_worker_status_before_delivery"
      [] TaskStatus(r) = "worker_progress_done" -> "record_worker_result_metadata"
      [] TaskStatus(r) = "worker_progress_running" -> "continue_worker_progress_monitoring"
      [] TaskStatus(r) = "dispatched_to_worker_thread" -> "capture_worker_session_result"
      [] TaskStatus(r) = "ledger_ready" -> "dispatch_to_worker_thread"
      [] OTHER -> "export_candidate_and_create_ledger"

(* _status_stage of the command panel, for a record.                         *)
Stage(r) ==
    CASE TaskStatus(r) = "worker_done" -> "review_ready"
      [] TaskStatus(r) # "worker_done" /\ r.result # "" -> "worker_result"
      [] r.result = "" /\ r.link = "thread" -> "worker_thread"
      [] r.result = "" /\ r.link = "issue" -> "ledger_ready"
      [] OTHER -> "idle_or_queued"

(* _stage_steps: the steps that the rail shows as done ...                   *)
StepsDone(r) ==
    {"queued"} \cup
    {s \in {"github", "discord", "worker", "review"} :
        \/ s = "github" /\ r.link # "none"
        \/ s = "discord" /\ r.link = "thread"
        \/ s = "worker" /\ r.result # ""
        \/ s = "review" /\ TaskStatus(r) = "worker_done"}

(* ... and those it shows as current: the step before them is done.          *)
Before == [github |-> "queued", discord |-> "github", worker |-> "discord",
           review |-> "worker"]

StepsCurrent(r) == {s \in DOMAIN Before \ StepsDone(r) : Before[s] \in StepsDone(r)}

-----------------------------------------------------------------------------
Unreported == UNCHANGED <<reports, tick>>

(* A capture arrives in the inbox.                                           *)
Store(c) ==
    /\ \A n \in DOMAIN stored : stored[n] # c
    /\ stored' = Append(stored, c)
    /\ UNCHANGED <<aliases, state, held, changes, apart>> /\ Unreported

(* create_alias, for a recent capture that was not sent as a command.        *)
Alias(c) ==
    /\ c \in Recent \ (Commands \cup aliases)
    /\ ~Known(c)
    /\ aliases' = aliases \cup {c}
    /\ UNCHANGED <<stored, state, held, changes, apart>> /\ Unreported

(* A pilot takes up a planned command.  DispatchPilot and DispatchJob have   *)
(* the details: the job may end before the thread is there, and the pilot    *)
(* before it has written the history.                                        *)
Dispatch(c) ==
    /\ c \in Eligible
    /\ ~held
    /\ \E link \in {"issue", "thread"} :
         /\ state' = [state EXCEPT ![c] = [NoLinks EXCEPT !.link = link]]
         /\ held' \in {FALSE, link = "thread"}
    /\ UNCHANGED <<stored, aliases, changes, apart>> /\ Unreported

(* cooldown_is_active and count_recent_external_writes look at the clock.    *)
HoldEnds ==
    /\ held
    /\ held' = FALSE
    /\ UNCHANGED <<stored, aliases, state, changes, apart>> /\ Unreported

(* The capture of a worker's result, or a result recorded by hand; without a *)
(* reference the earlier one stays, and so does the progress.                *)
RecordResult(c, status, evidence) ==
    /\ changes < MaxChanges
    /\ changes' = changes + 1
    /\ state' = [state EXCEPT ![c] =
                   [Existing(c) EXCEPT !.result = status, !.evidence = @ \/ evidence]]
    /\ apart' = IF Existing(c).progress = "" THEN apart ELSE apart \cup {c}
    /\ UNCHANGED <<stored, aliases, held>> /\ Unreported

(* parse_progress: of the statuses that a text mentions the worst counts.    *)
Parsed(labels) ==
    CASE "failed" \in labels -> "failed"
      [] "done" \in labels /\ "failed" \notin labels -> "done"
      [] OTHER -> "running"

Progressed(c, labels) == [Existing(c) EXCEPT !.progress = Parsed(labels)]

(* pnh_worker_progress_parse.py, for any packet id.  A batch is a sequence   *)
(* of such runs and may end early.                                           *)
ImportProgress(c, labels) ==
    /\ changes < MaxChanges
    /\ changes' = changes + 1
    /\ state' = [state EXCEPT ![c] = Progressed(c, labels)]
    /\ apart' = IF Existing(c).result = "" THEN apart ELSE apart \cup {c}
    /\ UNCHANGED <<stored, aliases, held>> /\ Unreported

(* build_candidates: records with a result and without progress.             *)
Lacking == {c \in Captures : Known(c) /\ state[c].result # "" /\ state[c].progress = ""}

(* pnh_worker_progress_backfill_from_state.py: the text it makes up from a   *)
(* record mentions the worker's status and no other.  A queued record, which *)
(* is a running one here, is left out.                                       *)
Backfill ==
    /\ \E records \in SUBSET Lacking :
         /\ records # {}
         /\ \A c \in Lacking \ records : state[c].result = "running"
         /\ state' = [c \in Captures |->
                        IF c \in records THEN Progressed(c, {state[c].result}) ELSE state[c]]
    /\ UNCHANGED <<stored, aliases, held, changes, apart>> /\ Unreported

-----------------------------------------------------------------------------
World == <<stored, aliases, state, held, changes, apart>>

TimerFires ==
    /\ job = "rest"
    /\ job' = "queue-plan"
    /\ UNCHANGED <<reports, failed, failures>> /\ UNCHANGED World

After(j) ==
    CASE j = "queue-plan" -> "unattended-readiness"
      [] j = "unattended-readiness" -> "retry-backoff"
      [] j = "retry-backoff" -> "unattended-status"
      [] j = "unattended-status" -> "rest"

(* The job ends with status 0, and the tick goes on.                         *)
Ran(j) ==
    /\ job = j
    /\ job' = After(j)
    /\ failed' = IF After(j) = "rest" THEN {} ELSE failed
    /\ UNCHANGED failures /\ UNCHANGED World

(* The job ends with another status.                                         *)
Failed(j) ==
    /\ job = j
    /\ job' = After(j)
    /\ failed' = IF After(j) = "rest" THEN {} ELSE failed \cup {j}
    /\ UNCHANGED World

(* Its output stays that of an earlier tick, or is cut short: write_text     *)
(* empties the file first.                                                   *)
Spoilt(j) ==
    \/ UNCHANGED reports
    \/ /\ plan' = IF j = "queue-plan" THEN "missing" ELSE plan
       /\ readiness' = IF j = "unattended-readiness" THEN "missing" ELSE readiness
       /\ retry' = IF j = "retry-backoff" THEN NoRetryPlan ELSE retry
       /\ decision' = IF j = "unattended-status" THEN "missing" ELSE decision

(* Mutant: the plan of an earlier tick is not replaced.                      *)
PlanKept ==
    CASE plan # "missing" -> plan
      [] plan = "missing" /\ Eligible # {} -> "queued"
      [] OTHER -> "empty"

(* build_plan; what the status asks of it is whether anything is queued.     *)
PlanOf ==
    CASE held -> "held"
      [] ~held /\ Eligible # {} -> "queued"
      [] OTHER -> "empty"

QueueJob == Ran("queue-plan") /\ plan' = PlanOf /\ UNCHANGED <<readiness, retry, decision>>

(* build_readiness: of the plan it asks that there is one.  The evidence of  *)
(* the last reconciliation and of the last refresh of the threads, and the   *)
(* tools on the path, may be good or not.                                    *)
ReadinessJob ==
    /\ Ran("unattended-readiness")
    /\ \E verdict \in {"ready", "not_ready"} :
         /\ verdict = "ready" => plan # "missing"
         /\ readiness' = verdict
    /\ UNCHANGED <<plan, retry, decision>>

RetryJob ==
    /\ Ran("retry-backoff")
    /\ retry' = [made |-> TRUE, candidates |-> Candidates]
    /\ UNCHANGED <<plan, readiness, decision>>

(* Mutant: what waits for a retry is left out.                               *)
DecisionByQueue ==
    CASE readiness # "ready" -> "hold_for_readiness"
      [] readiness = "ready" /\ plan = "queued" -> "ready_to_run_bounded_pilot"
      [] OTHER -> "idle_ready"

(* build_status                                                              *)
Decision ==
    CASE readiness # "ready" -> "hold_for_readiness"
      [] readiness = "ready" /\ plan = "queued" -> "ready_to_run_bounded_pilot"
      [] readiness = "ready" /\ plan # "queued" /\ retry.candidates # {} ->
           "retry_candidates_waiting"
      [] OTHER -> "idle_ready"

InputsMissing == plan = "missing" \/ readiness = "missing" \/ ~retry.made

StatusJob ==
    /\ ~InputsMissing
    /\ Ran("unattended-status")
    /\ decision' = Decision
    /\ UNCHANGED <<plan, readiness, retry>>

(* load_json refuses a file that is not there.                               *)
StatusRefused ==
    InputsMissing /\ Failed("unattended-status") /\ UNCHANGED <<reports, failures>>

(* A job fails: the database is locked, the state file cannot be read, the   *)
(* disk is full.                                                             *)
JobFails ==
    /\ failures < MaxFailures
    /\ failures' = failures + 1
    /\ \E j \in Jobs : Failed(j) /\ Spoilt(j)

(* subprocess.run raises at its time limit, and the tick ends.               *)
TickCutOff ==
    /\ job # "rest"
    /\ failures < MaxFailures
    /\ failures' = failures + 1
    /\ job' = "rest"
    /\ failed' = {}
    /\ Spoilt(job)
    /\ UNCHANGED World

TickStep ==
    TimerFires \/ QueueJob \/ ReadinessJob \/ RetryJob \/ StatusJob \/ StatusRefused

-----------------------------------------------------------------------------
Change ==
    \/ \E c \in Captures : Store(c) \/ Alias(c) \/ Dispatch(c)
    \/ \E c \in Named, status \in Results, evidence \in BOOLEAN :
         RecordResult(c, status, evidence)
    \/ \E c \in Named, labels \in Texts :
         ImportProgress(c, labels)
    \/ Backfill \/ HoldEnds

(* What has been the case since the tick began.                              *)
Since(now, before) ==
    IF job' = "rest" THEN {} ELSE IF job = "rest" THEN now ELSE now \cap before

Observe ==
    /\ waiting' = Since(Eligible', waiting)
    /\ troubled' = Since(Candidates', troubled)

Next == (Change \/ TickStep \/ JobFails \/ TickCutOff) /\ Observe

ReportsSpec == Init /\ [][Next]_vars

(* The timer goes on, jobs end, and time passes.                             *)
FairReportsSpec ==
    ReportsSpec /\ WF_vars(TickStep /\ Observe) /\ WF_vars(HoldEnds /\ Observe)

-----------------------------------------------------------------------------
ReportsTypeOK ==
    /\ stored \in Seq(Captures)
    /\ aliases \subseteq Captures
    /\ state \in [Captures -> Record \cup {Unknown}]
    /\ held \in BOOLEAN
    /\ plan \in {"missing", "held", "queued", "empty"}
    /\ readiness \in {"missing", "ready", "not_ready"}
    /\ retry \in [made : BOOLEAN, candidates : SUBSET Captures]
    /\ decision \in {"missing", "hold_for_readiness", "ready_to_run_bounded_pilot",
                     "retry_candidates_waiting", "idle_ready"}
    /\ job \in Jobs \cup {"rest"}
    /\ failed \subseteq Jobs
    /\ changes \in 0..MaxChanges
    /\ failures \in 0..MaxFailures
    /\ waiting \subseteq Captures
    /\ troubled \subseteq Captures
    /\ apart \subseteq Captures

(* A tick that says "idle, wait for a new command" is right, although its    *)
(* jobs read the inbox, the state and each other's files at different times: *)
(* no command waited and no record called for a retry during all of it.  The *)
(* exceptions are a cooldown or an exhausted limit, which empties the queue  *)
(* and makes the status say idle while commands wait, and a plan that failed *)
(* in this tick, so that the one of an earlier tick was read (build_status). *)
(* A command that the plan no longer looks at, for fifty captures came after *)
(* it, is none of those that wait.                                           *)
IdleIsTrue ==
    [][StatusJob /\ decision' = "idle_ready" =>
         /\ waiting = {} \/ plan = "held" \/ "queue-plan" \in failed
         /\ troubled = {} \/ "retry-backoff" \in failed]_vars

(* What the command panel says of a record agrees with its rail and with     *)
(* what the completion would close.                                          *)
PanelAgrees(r) ==
    /\ Stage(r) = "review_ready" /\ Missing(r) = {} <=> CompletionReady(r)
    /\ NextAction(r) = "summarize_worker_result_for_supervisor_review"
         <=> StepsCurrent(r) = {}
    /\ NextAction(r) = "link_ledger_and_thread_before_delivery"
         => StepsCurrent(r) \in {{"github"}, {"discord"}}
    /\ NextAction(r) = "capture_worker_session_result" => StepsCurrent(r) = {"worker"}
    /\ NextAction(r) = "dispatch_to_worker_thread" => StepsCurrent(r) = {"discord"}

(* However results, progress texts and backfills follow each other, the      *)
(* reports about a record agree: the review calls ready what the completion  *)
(* would close, the command panel's advice fits its rail, a record that      *)
(* failed by the summary is planned for a retry, and the other way round,    *)
(* except that the summary prefers the result and the retry plan the worse   *)
(* of the two when result and progress do not come from the same source      *)
(* (task_status, task_status_for, next_action_for, _stage_steps).            *)
ReportsAgree ==
    \A c \in Captures : Known(c) =>
        LET r == state[c]
            failing == TaskStatus(r) = "worker_failed"
        IN /\ ReviewReady(r) <=> CompletionReady(r)
           /\ PanelAgrees(r)
           /\ failing => c \in Candidates
           /\ c \in Candidates => failing \/ c \in apart

(* A command that waits for good, among the captures the plan looks at, or a *)
(* record that calls for a retry for good, is noticed: from some tick on the *)
(* status does not say idle, in spite of jobs that fail and files of earlier *)
(* ticks.                                                                    *)
HeldUpNoticed ==
    \A c \in Captures :
        <>[](c \in Eligible \cup Candidates) => <>[](decision # "idle_ready")

=============================================================================
