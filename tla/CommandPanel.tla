---------------------------- MODULE CommandPanel ----------------------------
(***************************************************************************)
(* The command panel of the application's launch view: what the page holds *)
(* of the server's status and of its own dry run (assets/js/app.js,        *)
(* companion-bridge.js), from the answers of the server                    *)
(* (companion/command_packet_status.py, single_command_packet_runner.py).  *)
(*                                                                         *)
(* The operations of the page are asynchronous functions that suspend at   *)
(* every request and then write the page's state, whatever happened to it  *)
(* meanwhile: a refresh may overlap a dry run, the owner may disconnect,   *)
(* and wrappers that an operator starts replace the summary that the       *)
(* server finds.  The inbox, the state and the history change as in        *)
(* AutomationReports.                                                      *)
(***************************************************************************)
EXTENDS AutomationReports

CONSTANT Scenarios   \* bounds that a behaviour starts with (see Scenario)

VARIABLES
    scenario,    \* the bounds of this behaviour
    latest,      \* the summary that latest_single_command_packet_run finds
    token,       \* the page has a session token
    packetStatus, \* companionState.commandPacketStatus
    ran,         \* companionState.singleCommandPacketRun
    dry,         \* the dry run that the page has started
    refresh,     \* the refresh that the page has started
    wrapper,     \* a wrapper that an operator has started
    leaving,     \* a disconnection waits for the answer to its revocation
    seen         \* (observation) advice that was right since the dry run began

page == <<token, packetStatus, ran, leaving>>
panel == <<scenario, latest, page, dry, refresh, wrapper, seen>>
panelVars == <<vars, panel>>

(* Either ticks, or operations of the page: the two share no state.          *)
Scenario == [ticks : BOOLEAN, captures : SUBSET Captures, changes : Nat,
             dryRuns : Nat, refreshes : Nat, wrappers : Nat, departures : Nat]

ASSUME PanelAssumption == Scenarios \subseteq Scenario

-----------------------------------------------------------------------------
(* A run's summary: how many commands it found queued (--max-jobs-per-run is *)
(* one), and whether it wrote to a service.  Without a run, or with one that *)
(* cannot be read, the server answers as if there were none.                 *)
Summary == [queue : {0, 1}, wrote : BOOLEAN]
NoSummary == [queue |-> 0, wrote |-> FALSE]

(* build_failure_result                                                      *)
FailureSummary == [queue |-> 0, wrote |-> FALSE]

Status == [set : BOOLEAN, queue : {0, 1}, wrote : BOOLEAN, review : BOOLEAN,
           pending : BOOLEAN]
NoStatus == [set |-> FALSE, queue |-> 0, wrote |-> FALSE, review |-> FALSE,
             pending |-> FALSE]

NoRun == [at |-> "none", summary |-> NoSummary, answer |-> NoStatus]
NoRefresh == [at |-> "none", kind |-> "packet", answer |-> NoStatus]
NoWrapper == [at |-> "none", summary |-> NoSummary]

PanelInit ==
    /\ Init
    /\ scenario \in Scenarios
    /\ latest = NoSummary
    /\ token = TRUE
    /\ packetStatus = NoStatus
    /\ ran = "none"
    /\ dry = NoRun
    /\ refresh = NoRefresh
    /\ wrapper = NoWrapper
    /\ leaving = FALSE
    /\ seen = {}

Spend(what) ==
    /\ scenario[what] > 0
    /\ scenario' = [scenario EXCEPT ![what] = @ - 1]

-----------------------------------------------------------------------------
(* The queue plan of a wrapper.                                              *)
Planned == [queue |-> IF PlanOf = "queued" THEN 1 ELSE 0, wrote |-> FALSE]

(* build_command_packet_status, with the summary that was found.             *)
StatusWith(run) ==
    [set |-> TRUE, queue |-> run.queue, wrote |-> run.wrote,
     review |-> \E c \in Captures :
        Known(c) /\ NextAction(state[c]) = "summarize_worker_result_for_supervisor_review",
     pending |-> \E c \in Captures :
        Known(c) /\ TaskStatus(state[c]) = "dispatched_to_worker_thread"]

(* A summary that is being written is cut short, and counts as none.         *)
Writing == "planned" \in {dry.at, wrapper.at}

Answers == {StatusWith(latest)} \cup (IF Writing THEN {StatusWith(NoSummary)} ELSE {})

(* Mutant: what the server says is preferred to what the run found.          *)
MergeServer(current, run) ==
    IF current.set THEN current
    ELSE [current EXCEPT !.set = TRUE, !.queue = run.queue, !.wrote = run.wrote]

(* mergeSingleCommandPacketRunStatus                                         *)
Merge(current, run) ==
    [current EXCEPT !.set = TRUE, !.queue = run.queue, !.wrote = run.wrote]

(* commandPacketOperatorAction, and the card without a status.               *)
AdviceOf(s, run) ==
    IF ~s.set THEN "Pair required"
    ELSE IF run = "failed" THEN "Dry-run failed"
    ELSE IF s.review THEN "Review ready"
    ELSE IF s.pending THEN "Worker pending"
    ELSE IF s.queue > 0 /\ ~s.wrote THEN "Packet queued"
    ELSE IF run = "dry-run" \/ s.queue = 0 THEN "Queue clear"
    ELSE "Check needed"

Advice == AdviceOf(packetStatus, ran)

-----------------------------------------------------------------------------
(* runSingleCommandPacketDryRun, up to its request.                          *)
PressDryRun ==
    /\ Spend("dryRuns")
    /\ dry.at = "none"
    /\ \/ /\ token
          /\ dry' = [NoRun EXCEPT !.at = "asked"]
          /\ UNCHANGED ran
       \/ /\ ~token
          /\ ran' = "none"
          /\ UNCHANGED dry
    /\ UNCHANGED <<latest, token, packetStatus, leaving, refresh, wrapper>>

(* The server's wrapper makes its plan ...                                   *)
DryRunPlans ==
    /\ dry.at = "asked"
    /\ dry' = [dry EXCEPT !.at = "planned", !.summary = Planned]
    /\ UNCHANGED <<scenario, latest, page, refresh, wrapper>>

(* ... and writes its summary; another wrapper may run between the two, for  *)
(* a dry run takes no lock.                                                  *)
DryRunWrites ==
    /\ dry.at = "planned"
    /\ latest' = dry.summary
    /\ dry' = [dry EXCEPT !.at = "answered"]
    /\ UNCHANGED <<scenario, page, refresh, wrapper>>

(* It fails and says so in its summary, or ends without one: the time limit, *)
(* a disk that is full.                                                      *)
DryRunFails ==
    /\ dry.at \in {"asked", "planned"}
    /\ latest' \in {latest, FailureSummary}
    /\ dry' = [dry EXCEPT !.at = "failing"]
    /\ UNCHANGED <<scenario, page, refresh, wrapper>>

(* The page learns of the failure, or does not get the answer.               *)
DryRunRefused ==
    /\ dry.at \in {"answered", "failing"}
    /\ ran' = "failed"
    /\ dry' = NoRun
    /\ UNCHANGED <<scenario, latest, token, packetStatus, leaving, refresh, wrapper>>

(* The end of the function: the summary is merged into whatever the nested   *)
(* refresh has left.                                                         *)
Conclude(left) ==
    /\ ran' = "dry-run"
    /\ packetStatus' = Merge(left, dry.summary)
    /\ dry' = NoRun

(* The answer arrives.  Without a token the nested refresh clears the panel. *)
DryRunAnswered ==
    /\ dry.at = "answered"
    /\ \/ /\ token
          /\ ran' = "dry-run"
          /\ packetStatus' = Merge(packetStatus, dry.summary)
          /\ dry' = [dry EXCEPT !.at = "list"]
       \/ ~token /\ Conclude(NoStatus)
    /\ UNCHANGED <<scenario, latest, token, leaving, refresh, wrapper>>

(* The nested refreshDispatchState asks for the list of records first, and   *)
(* then for the status, which the server makes up when the request comes.    *)
DryRunLists ==
    /\ dry.at = "list"
    /\ token
    /\ dry' = [dry EXCEPT !.at = "packet"]
    /\ UNCHANGED <<scenario, latest, page, refresh, wrapper>>

DryRunStatus ==
    /\ dry.at = "packet"
    /\ \E a \in Answers : dry' = [dry EXCEPT !.at = "arriving", !.answer = a]
    /\ UNCHANGED <<scenario, latest, page, refresh, wrapper>>

DryRunEnds ==
    /\ dry.at \in {"list", "packet", "arriving"}
    /\ \E left \in {NoStatus, dry.answer} :
         /\ left # NoStatus => dry.at = "arriving"
         /\ Conclude(left)
    /\ UNCHANGED <<scenario, latest, token, leaving, refresh, wrapper>>

DryRunStep ==
    DryRunPlans \/ DryRunWrites \/ DryRunFails \/ DryRunRefused \/ DryRunAnswered
    \/ DryRunLists \/ DryRunStatus \/ DryRunEnds

-----------------------------------------------------------------------------
(* What a refresh that cannot be made leaves: refreshDispatchState clears    *)
(* the run as well, refreshCommandPacketStatus does not.                     *)
Cleared(kind) ==
    /\ packetStatus' = NoStatus
    /\ ran' = IF kind = "dispatch" THEN "none" ELSE ran

FirstRequest(kind) == IF kind = "dispatch" THEN "list" ELSE "packet"

PressRefresh(kind) ==
    /\ Spend("refreshes")
    /\ refresh.at = "none"
    /\ \/ /\ token
          /\ refresh' = [NoRefresh EXCEPT !.at = FirstRequest(kind), !.kind = kind]
          /\ UNCHANGED <<packetStatus, ran>>
       \/ /\ ~token
          /\ Cleared(kind)
          /\ UNCHANGED refresh
    /\ UNCHANGED <<latest, token, leaving, dry, wrapper>>

RefreshLists ==
    /\ refresh.at = "list"
    /\ token
    /\ refresh' = [refresh EXCEPT !.at = "packet"]
    /\ UNCHANGED <<scenario, latest, page, dry, wrapper>>

RefreshStatus ==
    /\ refresh.at = "packet"
    /\ \E a \in Answers : refresh' = [refresh EXCEPT !.at = "arriving", !.answer = a]
    /\ UNCHANGED <<scenario, latest, page, dry, wrapper>>

RefreshEnds ==
    /\ refresh.at = "arriving"
    /\ packetStatus' = refresh.answer
    /\ refresh' = NoRefresh
    /\ UNCHANGED <<scenario, latest, token, ran, leaving, dry, wrapper>>

RefreshFails ==
    /\ refresh.at \in {"list", "packet", "arriving"}
    /\ Cleared(refresh.kind)
    /\ refresh' = NoRefresh
    /\ UNCHANGED <<scenario, latest, token, leaving, dry, wrapper>>

RefreshStep == RefreshLists \/ RefreshStatus \/ RefreshEnds \/ RefreshFails

-----------------------------------------------------------------------------
(* disconnectCompanion: the token goes at once, the panel after the answer   *)
(* to the revocation.                                                        *)
Disconnect ==
    /\ Spend("departures")
    /\ token
    /\ ~leaving
    /\ token' = FALSE
    /\ leaving' = TRUE
    /\ UNCHANGED <<latest, packetStatus, ran, dry, refresh, wrapper>>

Disconnected ==
    /\ leaving
    /\ leaving' = FALSE
    /\ packetStatus' = NoStatus
    /\ ran' = "none"
    /\ UNCHANGED <<scenario, latest, token, dry, refresh, wrapper>>

(* pairCompanion, which refreshes the panel; the exchange of the code is in  *)
(* CompanionSessions.                                                        *)
Pair ==
    /\ ~token
    /\ refresh.at = "none"
    /\ token' = TRUE
    /\ refresh' = [NoRefresh EXCEPT !.at = "list", !.kind = "dispatch"]
    /\ UNCHANGED <<scenario, latest, packetStatus, ran, leaving, dry, wrapper>>

(* checkCompanionStatus builds the page's state anew, without the panel.     *)
CheckStatus ==
    /\ Spend("refreshes")
    /\ token' \in {token, TRUE}
    /\ packetStatus' = NoStatus
    /\ ran' = "none"
    /\ UNCHANGED <<latest, leaving, dry, refresh, wrapper>>

-----------------------------------------------------------------------------
(* A wrapper that an operator starts, with --apply or without.  The runs of  *)
(* the orchestrator have another name, and the server does not look at them. *)
WrapperPlans ==
    /\ Spend("wrappers")
    /\ wrapper.at = "none"
    /\ wrapper' = [at |-> "planned", summary |-> Planned]
    /\ UNCHANGED <<latest, page, dry, refresh>>

WrapperDispatches(c) ==
    /\ wrapper.at = "planned"
    /\ wrapper.summary = [queue |-> 1, wrote |-> FALSE]
    /\ wrapper' = [wrapper EXCEPT !.summary = [queue |-> 1, wrote |-> TRUE]]
    /\ UNCHANGED <<scenario, latest, page, dry, refresh>>

WrapperEnds ==
    /\ wrapper.at = "planned"
    /\ latest' \in {wrapper.summary, FailureSummary, latest}
    /\ wrapper' = NoWrapper
    /\ UNCHANGED <<scenario, page, dry, refresh>>

-----------------------------------------------------------------------------
(* The advice that would be right.                                           *)
Right ==
    {a \in {"Queue clear", "Packet queued", "Review ready", "Worker pending"} :
        \/ a = "Queue clear" /\ (held \/ Eligible = {})
        \/ a = "Packet queued" /\ ~held /\ Eligible # {}
        \/ a = "Review ready" /\ \E c \in Captures :
             Known(c) /\ state[c].link = "thread" /\ state[c].result = "done"
        \/ a = "Worker pending" /\ \E c \in Captures :
             Known(c) /\ state[c].link = "thread" /\ state[c].result = ""}

Watch ==
    seen' = CASE dry'.at = "none" -> {}
              [] dry'.at # "none" /\ dry.at = "none" -> Right'
              [] OTHER -> seen \cup Right'

(* What happens outside the page: a tick, or a change within the bounds.     *)
Outside ==
    /\ Next
    /\ \/ scenario.ticks
       \/ /\ ~scenario.ticks
          /\ Change
          /\ {stored'[n] : n \in DOMAIN stored'} \subseteq scenario.captures
          /\ changes' <= scenario.changes
    /\ UNCHANGED <<scenario, latest, page, dry, refresh, wrapper>>

PageStep ==
    \/ PressDryRun \/ DryRunStep
    \/ \E kind \in {"dispatch", "packet"} : PressRefresh(kind)
    \/ RefreshStep \/ Disconnect \/ Disconnected \/ Pair \/ CheckStatus
    \/ WrapperPlans \/ WrapperEnds

PanelNext ==
    /\ \/ Outside
       \/ PageStep /\ UNCHANGED vars
       \/ \E c \in Captures : WrapperDispatches(c) /\ Dispatch(c) /\ Observe
    /\ Watch

PanelSpec == PanelInit /\ [][PanelNext]_panelVars

(* Fairness is that of the ticks.                                            *)
FairPanelSpec ==
    PanelSpec /\ WF_vars(TickStep /\ Observe) /\ WF_vars(HoldEnds /\ Observe)

-----------------------------------------------------------------------------
PanelTypeOK ==
    /\ ReportsTypeOK
    /\ scenario \in Scenario
    /\ latest \in Summary
    /\ token \in BOOLEAN
    /\ packetStatus \in Status
    /\ ran \in {"none", "failed", "dry-run"}
    /\ dry \in [at : {"none", "asked", "planned", "failing", "answered", "list", "packet",
                      "arriving"},
                summary : Summary, answer : Status]
    /\ refresh \in [at : {"none", "list", "packet", "arriving"},
                    kind : {"dispatch", "packet"}, answer : Status]
    /\ wrapper \in [at : {"none", "planned"}, summary : Summary]
    /\ leaving \in BOOLEAN
    /\ seen \subseteq {"Queue clear", "Packet queued", "Review ready", "Worker pending"}

(* When a dry run has ended well, the advice that the panel gives was right  *)
(* at some moment since the owner asked for it, although other wrappers have *)
(* replaced the summary that the server finds, an earlier refresh has        *)
(* written its answer meanwhile, the owner has disconnected, or the refresh  *)
(* after the run has failed (runSingleCommandPacketDryRun,                   *)
(* mergeSingleCommandPacketRunStatus, commandPacketOperatorAction).          *)
AdviceWasRight ==
    [][dry.at # "none" /\ dry'.at = "none" /\ ran' = "dry-run" => Advice' \in seen]_panelVars

=============================================================================
