--------------------------- MODULE CaptureTrigger ---------------------------
(***************************************************************************)
(* What starts the runs of DispatchPilot when nobody types a command:      *)
(*   companion/server.py                      a thread for every capture   *)
(*   scripts/pnh_unattended_orchestrator.py   runs the wrapper for it      *)
(*   companion/single_command_packet_runner.py   does so for the browser   *)
(* A capture of any kind asks for one run, and is not asked for again; the *)
(* run takes up the newest command, which need not be the one that asked.  *)
(* A capture that comes through an adapter or a script asks for nothing,   *)
(* and neither does an alias that makes a command of an old capture.  The  *)
(* server stops waiting for an orchestrator after 900 seconds, which leaves*)
(* the wrapper running; the browser's runner kills the wrapper itself after*)
(* 720, which leaves its lock file.  The steps of a wrapper before its     *)
(* worker phase have limits that add up to less.                           *)
(***************************************************************************)
EXTENDS DispatchPilot

CONSTANTS
    Browser,        \* the caller of a run that was started in the browser
    MaxAside        \* bound: imports, aliases, label edits, and runs no capture
                    \* asks for

ASSUME TriggerAssumption ==
    /\ Browser \notin Packets \cup {NoPacket}
    /\ MaxAside \in Nat

VARIABLES
    asked,          \* captures whose thread has yet to start its run
    caller,         \* wrapper run -> the capture it was started for, if any
    summary,        \* capture -> selectedCaptureId of the orchestrator's summary
    vain,           \* history: captures whose run ended without a dispatch
    unasked,        \* history: captures for which, as a command, no run was asked
    operated,       \* history: whether an operator has run the pilot
    aside           \* (bound) imports, aliases, label edits, runs not asked for

triggerVars == <<asked, caller, summary, vain, unasked, operated, aside>>
allTriggerVars == <<allVars, triggerVars>>

TriggerInit ==
    /\ PilotInit
    /\ asked = {} /\ vain = {} /\ unasked = {} /\ operated = FALSE /\ aside = 0
    /\ caller = [r \in Wrappers |-> NoPacket]
    /\ summary = [p \in Packets |-> NoPacket]

(* The commands that wait, whether or not the plan still looks at them.      *)
Waiting == {p \in command : ~InState(p)}

(* A run has dispatched nothing so far.                                      *)
Fruitless(r) == run[r].packet = NoPacket \/ ~InState(run[r].packet)

(* At its end this counts, unless there was nothing left to dispatch.        *)
InVain(r) ==
    IF run[r].packet = NoPacket THEN Waiting # {} ELSE ~InState(run[r].packet)

CalledFor(r) == {caller[r]} \cap Packets
VainBy(r) == IF InVain(r) THEN CalledFor(r) ELSE {}

-----------------------------------------------------------------------------
(* Mutant: a capture that comes while a wrapper runs asks for nothing.       *)
PostQuietly(p) ==
    /\ Capture(p)
    /\ asked' = IF packetLock = NoRunner THEN asked \cup {p} ELSE asked
    /\ UNCHANGED <<caller, summary, vain, unasked, operated, aside>>

(* _handle_private_capture: the capture is stored, a thread is started.      *)
PostCapture(p) ==
    /\ Capture(p)
    /\ asked' = asked \cup {p}
    /\ UNCHANGED <<caller, summary, vain, unasked, operated, aside>>

Aside == aside < MaxAside /\ aside' = aside + 1

(* Stored without a trigger: records of the adapters and of the imports,     *)
(* which are no commands, and a command seeded by a script.                  *)
ImportCapture(p) ==
    /\ Capture(p)
    /\ unasked' = unasked \cup ({p} \cap command')
    /\ Aside
    /\ UNCHANGED <<asked, caller, summary, vain, operated>>

(* The alias script starts nothing.                                          *)
AliasQuietly(p) ==
    /\ Alias(p)
    /\ unasked' = unasked \cup {p}
    /\ Aside
    /\ UNCHANGED <<asked, caller, summary, vain, operated>>

(* The labels of a dispatched issue are applied, by the wrapper or by hand.  *)
ApplyLabels(p) ==
    /\ Relabel(p)
    /\ Aside
    /\ UNCHANGED <<asked, caller, summary, vain, unasked, operated>>

(* The thread runs the orchestrator, which runs the wrapper.                 *)
TriggerRun(p, r) ==
    /\ p \in asked
    /\ StartWrapper(r)
    /\ asked' = asked \ {p}
    /\ caller' = [caller EXCEPT ![r] = p]
    /\ UNCHANGED <<summary, vain, unasked, operated, aside>>

(* The wrapper finds the lock taken; the orchestrator's summary is that of a *)
(* failure, which names no capture.                                          *)
TriggerBusy(p) ==
    /\ p \in asked
    /\ StartWrapperBusy
    /\ asked' = asked \ {p}
    /\ vain' = vain \cup {p}
    /\ UNCHANGED <<caller, summary, unasked, operated, aside>>

(* The server ends before its threads have started anything.                 *)
ServerEnds ==
    /\ asked # {}
    /\ vain' = vain \cup asked
    /\ asked' = {}
    /\ UNCHANGED <<allVars, caller, summary, unasked, operated, aside>>

(* run_single_command_packet_from_browser with mode apply.                   *)
RunFromBrowser(r) ==
    /\ StartWrapper(r)
    /\ caller' = [caller EXCEPT ![r] = Browser]
    /\ Aside
    /\ UNCHANGED <<asked, summary, vain, unasked, operated>>

(* An operator runs planner and pilot by hand.                               *)
RunByOperator(r) ==
    /\ StartOperator(r)
    /\ operated' = TRUE
    /\ Aside
    /\ UNCHANGED <<asked, caller, summary, vain, unasked>>

(* The time limit of trigger_capture_auto_dispatch.                          *)
ServerTimesOut(r) ==
    /\ At(r, "worker")
    /\ caller[r] \in Packets
    /\ caller' = [caller EXCEPT ![r] = NoPacket]
    /\ UNCHANGED <<allVars, asked, summary, vain, unasked, operated, aside>>

(* The time limit of the browser's runner.                                   *)
RunnerTimesOut(r) ==
    /\ At(r, "worker")
    /\ caller[r] = Browser
    /\ caller' = [caller EXCEPT ![r] = NoPacket]
    /\ run' = [run EXCEPT ![r] = NewRun]
    /\ UNCHANGED <<lateVars, captures, packetLock, pilotLock, hour, crashes,
                   asked, summary, vain, unasked, operated, aside>>

(* Mutant: the exit status of the wrapper is not looked at.                  *)
SummariseAlways(r) ==
    [p \in Packets |-> IF p = caller[r] THEN run[r].packet ELSE summary[p]]

(* The wrapper exits, and the orchestrator, if it is still there, writes the *)
(* summary: after success what the run has selected.                         *)
Summarise(r) ==
    [p \in Packets |->
        IF p = caller[r] /\ ~run[r].failed THEN run[r].packet ELSE summary[p]]

EndTriggered(r) ==
    /\ EndRun(r)
    /\ summary' = Summarise(r)
    /\ vain' = vain \cup VainBy(r)
    /\ caller' = [caller EXCEPT ![r] = NoPacket]
    /\ UNCHANGED <<asked, unasked, operated, aside>>

(* Wrapper and orchestrator are killed together.                             *)
CrashTriggered(r) ==
    /\ Crash(r)
    /\ vain' = vain \cup VainBy(r)
    /\ caller' = [caller EXCEPT ![r] = NoPacket]
    /\ UNCHANGED <<asked, summary, unasked, operated, aside>>

-----------------------------------------------------------------------------
Proceed(r) ==
    \/ PlanPacket(r) \/ PlanNothing(r)
    \/ AcquirePilotLock(r) \/ PilotWithoutLock(r)
    \/ ExportCandidate(r) \/ RefuseExport(r)
    \/ StartJob(r) \/ JobStep(r) \/ JobFails(r) \/ JobEnds(r)
    \/ ReleasePilotLock(r)
    \/ Retry(r) \/ GiveUp(r) \/ GoOn(r) \/ WorkerPhase(r)

TriggerNext ==
    \/ \E p \in Packets :
         PostCapture(p) \/ ImportCapture(p) \/ AliasQuietly(p) \/ ApplyLabels(p)
    \/ \E p \in Packets, r \in Wrappers : TriggerRun(p, r)
    \/ \E p \in Packets : TriggerBusy(p)
    \/ ServerEnds
    \/ \E r \in Wrappers :
         RunFromBrowser(r) \/ ServerTimesOut(r) \/ RunnerTimesOut(r)
           \/ EndTriggered(r) \/ CrashTriggered(r)
    \/ \E r \in Operators : RunByOperator(r)
    \/ /\ \/ \E r \in Runners : Proceed(r)
          \/ \E r \in Operators : EndRun(r) \/ Crash(r)
          \/ RequestLands
          \/ DeleteLeftoverLock
          \/ CooldownPasses \/ HourPasses
       /\ UNCHANGED triggerVars

TriggerSpec == TriggerInit /\ [][TriggerNext]_allTriggerVars

-----------------------------------------------------------------------------
(* The variables have their types.                                           *)
TriggerTypeOK ==
    /\ PilotTypeOK
    /\ asked \subseteq stored /\ vain \subseteq stored /\ unasked \subseteq stored
    /\ caller \in [Wrappers -> Packets \cup {NoPacket, Browser}]
    /\ summary \in [Packets -> Packets \cup {NoPacket}]
    /\ operated \in BOOLEAN /\ aside \in 0..MaxAside

(* The commands that wait never outnumber the requests that account for      *)
(* them: a run that was asked for and has not started; one under way; one    *)
(* that ended in vain -- it met a taken lock, the cooldown or the hourly     *)
(* limit, its command was outside the window of the plan or of the export,   *)
(* it failed or was killed; or no run was asked for, because the command     *)
(* came as an alias or from a script.  Any other command that waits is       *)
(* matched by a run still to come, in whatever order captures, aliases,      *)
(* triggers, runs and time limits come.                                      *)
Requests ==
    asked \cup vain \cup unasked
      \cup UNION {CalledFor(r) : r \in {w \in Wrappers : ~At(w, "idle") /\ Fruitless(w)}}

WaitingAccountedFor ==
    ~operated => Cardinality(Waiting) <= Cardinality(Requests \cap command)

(* The variables have their types, and the captures that wait are accounted  *)
(* for.                                                                      *)
TriggerInv == TriggerTypeOK /\ WaitingAccountedFor

(* A summary of success never lies about the dispatch: the capture it names  *)
(* is in the dispatch state with issue and thread, then and later on.        *)
SummaryHolds ==
    ~operated =>
        \A p \in Packets :
            summary[p] # NoPacket => Complete(summary[p])

=============================================================================
