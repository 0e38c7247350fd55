--------------------------- MODULE DispatchPilot ---------------------------
(***************************************************************************)
(* The unattended dispatch path above DispatchJob:                         *)
(*   pnh_unattended_dispatch_queue_plan.py   chooses the packet            *)
(*   pnh_unattended_dispatch_pilot.py        takes the pilot lock, exports *)
(*     (pnh_auto_dispatch_from_inbox.py)     the candidate, runs the       *)
(*     (pnh_dispatch_candidate_export.py)    dispatch job, writes history  *)
(*   pnh_single_command_packet.py            takes the packet lock, plans, *)
(*                                           runs the pilot, retries once  *)
(*                                                                         *)
(* A runner is either an operator who runs the planner and the pilot by    *)
(* hand (Operators) or a run of the single-packet wrapper (the others).    *)
(* Each runs its dispatch job in the slot of its own name.  A request of a *)
(* job that was killed may still be carried out (DispatchLate).            *)
(***************************************************************************)
EXTENDS DispatchLate

CONSTANTS
    Operators,      \* the runners without the wrapper
    NoRunner,       \* the holder of a lock file that does not exist
    MaxPerHour,     \* maxExternalWritesPerHour (3 in the code)
    PlanWindow,     \* captures the queue plan looks at (50 in the code)
    ExportWindow    \* captures the candidate export looks at (20 in the code)

Runners == Jobs
Wrappers == Runners \ Operators

ASSUME PilotAssumption ==
    /\ Packets \subseteq Nat        \* a larger id is a newer capture
    /\ Operators \subseteq Jobs
    /\ NoRunner \notin Jobs
    /\ MaxPerHour \in Nat \ {0}
    /\ PlanWindow \in Nat
    /\ ExportWindow \in Nat

VARIABLES
    stored,         \* the captures in the inbox
    command,        \* those that are commands, by their kind or by an alias
    packetLock,     \* who created the wrapper's lock file
    pilotLock,      \* who created pnh_unattended_dispatch.lock
    run,            \* runner -> where it stands, its queue plan, its attempt
    recent,         \* events of the last hour in the dispatch history
    unrecorded,     \* (observation) runs of the last hour that ended early,
                    \* and are not in it, after making an issue or a thread
    wrote,          \* (observation) runners whose job has made one of them
    cooling,        \* the newest event is younger than cooldownMinutes
    crashes         \* (bound) runs killed while no dispatch job ran

captures == <<stored, command>>
hour == <<recent, unrecorded, wrote, cooling>>
pilotVars == <<captures, packetLock, pilotLock, run, hour, crashes>>
allVars == <<lateVars, pilotVars>>

Phases == {"idle", "plan", "pilot", "locked", "dispatch", "wait", "release",
           "report", "worker", "end"}

NewRun == [pc |-> "idle", packet |-> NoPacket, attempt |-> 0, failed |-> FALSE]

PilotInit ==
    /\ LateInit
    /\ stored = {} /\ command = {}
    /\ packetLock = NoRunner /\ pilotLock = NoRunner
    /\ run = [r \in Runners |-> NewRun]
    /\ recent = 0 /\ unrecorded = 0 /\ wrote = {} /\ cooling = FALSE
    /\ crashes = 0

At(r, pc) == run[r].pc = pc

-----------------------------------------------------------------------------
(* list_captures: the newest captures of the inbox, of whatever kind.        *)
Recent(n) == {p \in stored : Cardinality({q \in stored : q > p}) < n}

(* classify_capture and build_plan: among the captures it looks at, the      *)
(* newest command that is not in the dispatch state, unless the history      *)
(* forbids a run.                                                            *)
InState(p) == stateFile[p] # EmptyRecord
Eligible == {p \in command \cap Recent(PlanWindow) : ~InState(p)}

(* Mutant: the plan ignores the dispatch history.                            *)
QueueIgnoringHistory == {p \in Eligible : \A q \in Eligible : q <= p}

Queue ==
    IF cooling \/ recent >= MaxPerHour THEN {}
    ELSE {p \in Eligible : \A q \in Eligible : q <= p}

(* select_capture, called without --allow-dispatched and without --limit:    *)
(* its window is narrower than that of the plan.                             *)
Refused(p) == InState(p) \/ p \notin Recent(ExportWindow)

(* Something is captured, a command or not; ids grow with the time of the    *)
(* capture.                                                                  *)
Capture(p) ==
    /\ \A q \in stored : q < p
    /\ stored' = stored \cup {p}
    /\ command' \in {command, command \cup {p}}
    /\ UNCHANGED <<lateVars, packetLock, pilotLock, run, hour, crashes>>

(* pnh_capture_command_alias.py makes a command of a capture of another kind *)
(* that is not in the dispatch state; it looks at 50 captures as well.       *)
Alias(p) ==
    /\ p \in Recent(PlanWindow) \ command
    /\ ~InState(p)
    /\ fileOk
    /\ command' = command \cup {p}
    /\ UNCHANGED <<lateVars, stored, packetLock, pilotLock, run, hour, crashes>>

(* Mutant: the wrapper does not look at its lock.                            *)
StartWrapperUnlocked(r) ==
    /\ At(r, "idle")
    /\ packetLock' = r
    /\ run' = [run EXCEPT ![r].pc = "plan"]
    /\ UNCHANGED <<lateVars, captures, pilotLock, hour, crashes>>

(* The wrapper's acquire_lock; an existing lock file ends it with status 2   *)
(* and without effect.                                                       *)
StartWrapperBusy ==
    /\ packetLock # NoRunner
    /\ UNCHANGED allVars

StartWrapper(r) ==
    /\ At(r, "idle")
    /\ packetLock = NoRunner
    /\ packetLock' = r
    /\ run' = [run EXCEPT ![r].pc = "plan"]
    /\ UNCHANGED <<lateVars, captures, pilotLock, hour, crashes>>

StartOperator(r) ==
    /\ At(r, "idle")
    /\ run' = [run EXCEPT ![r].pc = "plan"]
    /\ UNCHANGED <<lateVars, captures, packetLock, pilotLock, hour, crashes>>

(* The queue plan.  The wrapper runs no pilot on an empty plan; an operator  *)
(* may.  A state file that does not parse ends the run.                      *)
PlanPacket(r) ==
    /\ At(r, "plan")
    /\ fileOk
    /\ \E p \in Queue :
         run' = [run EXCEPT ![r].pc = "pilot", ![r].packet = p, ![r].attempt = 1]
    /\ UNCHANGED <<lateVars, captures, packetLock, pilotLock, hour, crashes>>

PlanNothing(r) ==
    /\ At(r, "plan")
    /\ Queue = {} \/ ~fileOk
    /\ run' = [run EXCEPT ![r].pc = IF r \in Operators /\ fileOk THEN "pilot" ELSE "end",
                          ![r].attempt = 1, ![r].failed = ~fileOk]
    /\ UNCHANGED <<lateVars, captures, packetLock, pilotLock, hour, crashes>>

-----------------------------------------------------------------------------
(* The pilot.  acquire_lock creates the lock file or raises; an empty plan   *)
(* needs no lock.  Whatever happened, the finally clause then removes it.    *)
AcquirePilotLock(r) ==
    /\ At(r, "pilot")
    /\ run[r].packet # NoPacket
    /\ pilotLock = NoRunner
    /\ pilotLock' = r
    /\ run' = [run EXCEPT ![r].pc = "locked"]
    /\ UNCHANGED <<lateVars, captures, packetLock, hour, crashes>>

PilotWithoutLock(r) ==
    /\ At(r, "pilot")
    /\ \/ run[r].packet = NoPacket
       \/ pilotLock # NoRunner
    /\ run' = [run EXCEPT ![r].pc = "release", ![r].failed = run[r].packet # NoPacket]
    /\ UNCHANGED <<lateVars, captures, packetLock, pilotLock, hour, crashes>>

(* The candidate export, and the start of the dispatch job: the job reads    *)
(* the state file for itself, and only in the next step.                     *)
ExportCandidate(r) ==
    /\ At(r, "locked")
    /\ fileOk
    /\ ~Refused(run[r].packet)
    /\ run' = [run EXCEPT ![r].pc = "dispatch"]
    /\ UNCHANGED <<lateVars, captures, packetLock, pilotLock, hour, crashes>>

RefuseExport(r) ==
    /\ At(r, "locked")
    /\ ~fileOk \/ Refused(run[r].packet)
    /\ run' = [run EXCEPT ![r].pc = "release", ![r].failed = TRUE]
    /\ UNCHANGED <<lateVars, captures, packetLock, pilotLock, hour, crashes>>

StartJob(r) ==
    /\ At(r, "dispatch")
    /\ Load(r, run[r].packet) \/ RejectFile(r)
    /\ run' = [run EXCEPT ![r].pc = "wait"]
    /\ UNCHANGED <<inFlight, late, captures, packetLock, pilotLock, hour, crashes>>

(* The steps of the dispatch job while the pilot waits for it.               *)
JobStep(r) ==
    /\ At(r, "wait")
    /\ Step(r)
    /\ wrote' = IF <<issues, threads>>' = <<issues, threads>> THEN wrote ELSE wrote \cup {r}
    /\ UNCHANGED <<inFlight, late, captures, packetLock, pilotLock, run, recent,
                   unrecorded, cooling, crashes>>

(* The job fails, or is killed after 30 seconds, with or without a request   *)
(* on the way: no event of it gets into the history.                         *)
LeaveUnrecorded(r) ==
    /\ unrecorded' = IF r \in wrote THEN unrecorded + 1 ELSE unrecorded
    /\ wrote' = wrote \ {r}

JobDies(r) ==
    /\ \/ Fail(r) /\ UNCHANGED <<inFlight, late>>
       \/ \E what \in {"issue", "thread"} : AbandonRequest(r, what)
    /\ LeaveUnrecorded(r)

JobFails(r) ==
    /\ At(r, "wait")
    /\ faults + crashes < MaxFaults
    /\ JobDies(r)
    /\ UNCHANGED <<captures, packetLock, pilotLock, run, recent, cooling, crashes>>

(* The job has ended; only its success is entered in the history.            *)
JobEnds(r) ==
    /\ At(r, "wait")
    /\ job[r].pc \in {"done", "failed"}
    /\ run' = [run EXCEPT ![r].pc = "release", ![r].failed = job[r].pc = "failed"]
    /\ recent' = IF job[r].pc = "done" THEN recent + 1 ELSE recent
    /\ cooling' = (cooling \/ job[r].pc = "done")
    /\ wrote' = wrote \ {r}
    /\ UNCHANGED <<lateVars, captures, packetLock, pilotLock, unrecorded, crashes>>

(* The finally clause: release_lock removes the lock file, whoever made it.  *)
ReleasePilotLock(r) ==
    /\ At(r, "release")
    /\ pilotLock' = NoRunner
    /\ run' = [run EXCEPT ![r].pc = IF r \in Operators THEN "end" ELSE "report"]
    /\ UNCHANGED <<lateVars, captures, packetLock, hour, crashes>>

-----------------------------------------------------------------------------
(* Mutant: a failure is followed by a recovery however often.                *)
RetryForever(r) ==
    /\ At(r, "report")
    /\ run[r].failed
    /\ run' = [run EXCEPT ![r].pc = "pilot", ![r].attempt = 2, ![r].failed = FALSE]
    /\ UNCHANGED <<lateVars, captures, packetLock, pilotLock, hour, crashes>>

(* The wrapper reads the pilot's exit status: one recovery with the same     *)
(* plan after a failure, then the worker phase or the end.                   *)
Retry(r) ==
    /\ At(r, "report")
    /\ run[r].failed
    /\ run[r].attempt = 1
    /\ run' = [run EXCEPT ![r].pc = "pilot", ![r].attempt = 2, ![r].failed = FALSE]
    /\ UNCHANGED <<lateVars, captures, packetLock, pilotLock, hour, crashes>>

GiveUp(r) ==
    /\ At(r, "report")
    /\ run[r].failed
    /\ run[r].attempt = 2
    /\ run' = [run EXCEPT ![r].pc = "end"]
    /\ UNCHANGED <<lateVars, captures, packetLock, pilotLock, hour, crashes>>

GoOn(r) ==
    /\ At(r, "report")
    /\ ~run[r].failed
    /\ run' = [run EXCEPT ![r].pc = "worker"]
    /\ UNCHANGED <<lateVars, captures, packetLock, pilotLock, hour, crashes>>

(* The phase after the pilot (refresh, worker capture, labels, completion)   *)
(* runs under the wrapper's lock, and may fail; DispatchWriters has its steps. *)
WorkerPhase(r) ==
    /\ At(r, "worker")
    /\ run' \in {[run EXCEPT ![r].pc = "end", ![r].failed = f] : f \in BOOLEAN}
    /\ UNCHANGED <<lateVars, captures, packetLock, pilotLock, hour, crashes>>

(* The run ends; the wrapper removes the lock file it made.                  *)
EndRun(r) ==
    /\ At(r, "end")
    /\ packetLock' = IF r \in Operators THEN packetLock ELSE NoRunner
    /\ run' = [run EXCEPT ![r] = NewRun]
    /\ UNCHANGED <<lateVars, captures, pilotLock, hour, crashes>>

(* Power loss or SIGKILL of the whole process group: nothing is cleaned up.  *)
Crash(r) ==
    /\ ~At(r, "idle")
    /\ faults + crashes < MaxFaults
    /\ \/ JobDies(r) /\ UNCHANGED crashes
       \/ /\ job[r].pc \in Resting
          /\ crashes' = crashes + 1
          /\ UNCHANGED lateVars
          /\ LeaveUnrecorded(r)
    /\ run' = [run EXCEPT ![r] = NewRun]
    /\ UNCHANGED <<captures, packetLock, pilotLock, recent, cooling>>

(* No code removes the wrapper's lock file after a crash: somebody who has   *)
(* made sure that nothing runs deletes it.                                   *)
DeleteLeftoverLock ==
    /\ packetLock # NoRunner
    /\ \A r \in Wrappers : At(r, "idle")
    /\ packetLock' = NoRunner
    /\ UNCHANGED <<lateVars, captures, pilotLock, run, hour, crashes>>

(* Ten minutes pass; events of more than an hour ago no longer count.        *)
CooldownPasses ==
    /\ cooling
    /\ cooling' = FALSE
    /\ UNCHANGED <<lateVars, captures, packetLock, pilotLock, run, recent,
                   unrecorded, wrote, crashes>>

HourPasses ==
    /\ recent' \in 0..recent
    /\ unrecorded' \in 0..unrecorded
    /\ cooling => recent' # 0
    /\ UNCHANGED <<lateVars, captures, packetLock, pilotLock, run, wrote, cooling,
                   crashes>>

(* A request that nobody waits for is carried out.                           *)
RequestLands ==
    /\ \E q \in inFlight : IssueLands(q) \/ ThreadLands(q)
    /\ UNCHANGED pilotVars

(* The labels of a dispatched issue are applied, by the wrapper or by hand.  *)
Relabel(p) ==
    /\ ReplaceDispatchLabel(p)
    /\ UNCHANGED <<inFlight, late, pilotVars>>

-----------------------------------------------------------------------------
RunnerStep(r) ==
    \/ PlanPacket(r)
    \/ PlanNothing(r)
    \/ AcquirePilotLock(r)
    \/ PilotWithoutLock(r)
    \/ ExportCandidate(r)
    \/ RefuseExport(r)
    \/ StartJob(r)
    \/ JobStep(r)
    \/ JobEnds(r)
    \/ ReleasePilotLock(r)
    \/ Retry(r)
    \/ GiveUp(r)
    \/ GoOn(r)
    \/ WorkerPhase(r)
    \/ EndRun(r)

PilotNext ==
    \/ \E p \in Packets : Capture(p) \/ Alias(p) \/ Relabel(p)
    \/ \E r \in Wrappers : StartWrapper(r)
    \/ StartWrapperBusy
    \/ \E r \in Operators : StartOperator(r)
    \/ \E r \in Runners : RunnerStep(r) \/ JobFails(r) \/ Crash(r)
    \/ RequestLands
    \/ DeleteLeftoverLock
    \/ CooldownPasses
    \/ HourPasses

PilotSpec == PilotInit /\ [][PilotNext]_allVars

(* What has been started goes on: every call of a run has a time limit.      *)
(* Nothing is assumed of whoever starts runs, removes lock files or lets     *)
(* time pass.                                                                *)
FairPilotSpec == PilotSpec /\ \A r \in Runners : WF_allVars(RunnerStep(r))

-----------------------------------------------------------------------------
PilotTypeOK ==
    /\ stored \subseteq Packets
    /\ command \subseteq stored
    /\ packetLock \in Runners \cup {NoRunner}
    /\ pilotLock \in Runners \cup {NoRunner}
    /\ run \in [Runners -> [pc : Phases, packet : Packets \cup {NoPacket},
                            attempt : 0..2, failed : BOOLEAN]]
    /\ recent \in Nat /\ unrecorded \in Nat
    /\ wrote \subseteq Runners
    /\ cooling \in BOOLEAN

(* The hourly limit, over all runs that have made an issue or a thread and   *)
(* not the recorded ones alone: the wrapper exceeds it only by runs that     *)
(* ended early, one for each, although a plan is acted on long after it was  *)
(* computed and is acted on twice after a failure.                           *)
WritesBoundedByFaults == recent + unrecorded <= MaxPerHour + faults + crashes

(* "maximum three external write events per hour by default"                 *)
(* (docs/PNH_UNATTENDED_DISPATCH_RUNBOOK.md): what the runbook says, of all  *)
(* events and not of those in the history alone.                             *)
WriteEventsLimited == recent + unrecorded <= MaxPerHour

(* A run of the wrapper comes to an end, and with it its lock, whatever      *)
(* fails and however often the export refuses the packet of its plan.        *)
RunsEnd == \A r \in Runners : ~At(r, "idle") ~> At(r, "idle")

=============================================================================
