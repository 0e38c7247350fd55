---------------------------- MODULE DispatchLate ----------------------------
(***************************************************************************)
(* Dispatch runs, one after the other, whose request to create an issue or *)
(* a thread can outlive the run that sent it.  github_request_json gives   *)
(* up waiting after 15 seconds, run_openclaw after 30, and                 *)
(* pnh_auto_dispatch_from_inbox.py kills a dispatch run after 30 without   *)
(* the gh or openclaw process it has started.  None of them recalls the    *)
(* request: it may still be carried out when a later run has already asked *)
(* for duplicates.                                                         *)
(***************************************************************************)
EXTENDS DispatchJob

VARIABLES
    inFlight,   \* creation requests that nobody waits for any more
    late        \* (observation) issues created when nobody waited for them

lateVars == <<vars, inFlight, late>>

LateInit == Init /\ inFlight = {} /\ late = {}

(* The run ends while its request is on the way.  The number of the fault    *)
(* keeps apart two requests for the same packet.                             *)
AbandonRequest(j, what) ==
    /\ job[j].pc = what
    /\ what = "issue" => job[j].match = 0
    /\ faults < MaxFaults
    /\ faults' = faults + 1
    /\ inFlight' = inFlight \cup {[what |-> what, packet |-> job[j].packet, fault |-> faults']}
    /\ job' = [job EXCEPT ![j] = [NoRun EXCEPT !.pc = "failed"]]
    /\ UNCHANGED <<stateFile, fileOk, issues, threads, orphans, muted, late>>

(* The ledger or the channel carries a request out.                          *)
IssueLands(q) ==
    /\ q.what = "issue"
    /\ Len(issues) < MaxIssues
    /\ issues' = Append(issues, NewIssue(q.packet))
    /\ late' = late \cup {Len(issues) + 1}
    /\ inFlight' = inFlight \ {q}
    /\ UNCHANGED <<stateFile, fileOk, threads, job, orphans, muted, faults>>

ThreadLands(q) ==
    /\ q.what = "thread"
    /\ Len(threads) < MaxThreads
    /\ threads' = Append(threads, NewThread(q.packet))
    /\ orphans' = orphans \cup {Len(threads) + 1}
    /\ inFlight' = inFlight \ {q}
    /\ UNCHANGED <<stateFile, fileOk, issues, job, muted, faults, late>>

LateNext ==
    \/ SequentialNext /\ UNCHANGED <<inFlight, late>>
    \/ \E j \in Jobs, what \in {"issue", "thread"} : AbandonRequest(j, what)
    \/ \E q \in inFlight : IssueLands(q) \/ ThreadLands(q)

LateSpec == LateInit /\ [][LateNext]_lateVars

-----------------------------------------------------------------------------
(* Runs that waited for the answer never make a second issue of a packet     *)
(* ("without duplicating records on repeated runs"): one that dies between   *)
(* creating the issue and its checkpoint is repaired by the duplicate query  *)
(* of the next run.  Only a request that outlives its run can add another.   *)
OneAwaitedIssue ==
    \A i, k \in DOMAIN issues \ late : issues[i].packet = issues[k].packet => i = k

(* Duplicate detection and checkpoints bound what requests that land late    *)
(* can do: with n runs ended early, by a lost answer or otherwise, a packet  *)
(* never has more than n + 1 issues or n + 1 threads, however often and in   *)
(* whatever order runs are repeated and requests carried out.                *)
DuplicatesBoundedByFaults ==
    \A p \in Packets :
        /\ Cardinality({i \in DOMAIN issues : issues[i].packet = p}) <= 1 + faults
        /\ Cardinality({t \in DOMAIN threads : threads[t].packet = p}) <= 1 + faults

=============================================================================
