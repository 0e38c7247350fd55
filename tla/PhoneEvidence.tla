--------------------------- MODULE PhoneEvidence ---------------------------
(***************************************************************************)
(* What the owner is told about the phone's captures.  Beside the adapters *)
(* the phone stores captures, and four scripts look at the metadata of the *)
(* last Window captures of the inbox:                                      *)
(*   pnh_owner_phone_capture_session.py  waits for the next capture of the *)
(*       phone, then runs the privacy gate and the audit                   *)
(*   pnh_phone_source_coverage_session.py  sends a synthetic payload for   *)
(*       each source of the phone that is missing, and looks again         *)
(*   pnh_phone_capture_recent_summary.py  lists the sources seen           *)
(*   pnh_assistant_mvp_completion_audit.py  runs these and others one      *)
(*       after the other and combines what they say                        *)
(* Captures keep coming in while any of them runs.  For some commands the  *)
(* audit does not take what they print but the file they write, also when  *)
(* the command failed and the file is an earlier one.                      *)
(***************************************************************************)
EXTENDS PrivateAdapters

CONSTANTS
    Phone,        \* the sources of the phone
    Payloads,     \* what its owner may send,
    Synthetic,    \* and what the template of a rehearsal holds
    Window        \* captures that are looked at (50 in the code)

ASSUME PhoneAssumption ==
    /\ \A s \in Sources : Name[s] \notin Phone
    /\ Synthetic \notin Payloads
    /\ Window \in Nat \ {0}

VARIABLES
    session,      \* the owner's capture session
    cover,        \* the rehearsal of missing sources
    audit,        \* the audit under way, and the verdict of the last one
    recentFile,   \* phone_capture_recent_summary.json
    coverFile     \* phone_source_coverage_status.json

scripts == <<session, cover, audit, recentFile, coverFile>>
phoneVars == <<adapterVars, scripts>>

-----------------------------------------------------------------------------
(* list_captures, store_summary.  Captures of one second are listed in the   *)
(* order of storing here, in the code the plain ones before the sealed.      *)
Recent == {k \in DOMAIN inbox : k + Window > Len(inbox)}

IsPhone(k) == inbox[k].what.from \in Phone

LatestPhone(k) ==
    /\ k \in Recent /\ IsPhone(k)
    /\ \A l \in Recent : IsPhone(l) => l <= k

(* Mutant: only the very last capture is looked at.                          *)
ProbeFindsLast == inbox # << >> /\ IsPhone(Len(inbox)) /\ inbox[Len(inbox)].sealed

(* observe: without a baseline; with one, against an earlier count.          *)
ProbeFinds == \E k \in Recent : LatestPhone(k) /\ inbox[k].sealed

NewCaptureFound(base, count) == count > base /\ ProbeFinds

(* summarize.                                                                *)
Missing == {p \in Phone : \A k \in Recent : inbox[k].what.from # p}

PhoneCount == Cardinality({k \in Recent : IsPhone(k)})

(* build_assertions, build_readiness and the commands they run.  `outside`   *)
(* stands for services, timers, tailnet, token file and secrets being well.  *)
SealedInbox ==
    /\ \E k \in DOMAIN inbox : inbox[k].sealed
    /\ \A k \in DOMAIN inbox : inbox[k].sealed

GateReady(outside) == SealedInbox /\ outside

(* A gate that is not ready exits with 2, upon which this one fails, and so  *)
(* does the handoff if readiness or probe exits with anything but 0.         *)
SetupReady(outside) == GateReady(outside) /\ outside

HandoffReady(outside) == SetupReady(outside) /\ ProbeFinds

-----------------------------------------------------------------------------
NoSession == [step |-> "idle", base |-> 0, count |-> 0, post |-> FALSE, gate |-> FALSE,
              before |-> {}, seen |-> {}, deletes |-> 0]

NoCover == [step |-> "idle", todo |-> {}, before |-> {}, after |-> {}, failed |-> {},
            stale |-> {}, base |-> 0, deletes |-> 0]

(* What the audit has learnt so far; `passed` is the conjunction of checks.  *)
NoEvidence == [passed |-> TRUE, gate |-> FALSE, setup |-> FALSE, probe |-> FALSE,
               handoff |-> FALSE, count |-> 0, covered |-> FALSE]

NoAudit == [no |-> 0, step |-> "idle", ev |-> NoEvidence, failed |-> FALSE,
            fresh |-> TRUE, verdict |-> "none"]

(* A file says what was seen; `of` is the audit that had it written (0 none).*)
NoFile == [made |-> FALSE, count |-> 0, missing |-> Phone, of |-> 0]

Report(n) == [made |-> TRUE, count |-> PhoneCount, missing |-> Missing, of |-> n]

Init ==
    /\ AdaptersInit
    /\ session = NoSession
    /\ cover = NoCover
    /\ audit = NoAudit
    /\ recentFile = NoFile
    /\ coverFile = NoFile

-----------------------------------------------------------------------------
(* _handle_phone_adapter_capture; a tool that got no answer sends again.     *)
Accept(c, vault) ==
    IF c \in known
      THEN UNCHANGED <<inbox, known>>
      ELSE inbox' = Append(inbox, Stored(c, vault)) /\ known' = known \cup {c}

PhoneSends(p, m, vault) ==
    /\ Spend("sends")
    /\ Accept(Content(p, m, 0), vault)
    /\ UNCHANGED <<export, batch, cut, scripts>>

-----------------------------------------------------------------------------
(* run_session: the count before, then the probe, which reads the count and  *)
(* then the list, until it succeeds or the time is up; gate and audit        *)
(* afterwards unless --skip-post-checks.  Of the session, `before`, `seen`   *)
(* and `deletes` are observations.                                           *)
Contents == {inbox[k].what : k \in DOMAIN inbox}

Over == {"idle", "verified", "not_detected"}

StartSession(post) ==
    /\ session.step \in Over
    /\ Spend("sessions")
    /\ post => plan.posts
    /\ session' = [NoSession EXCEPT !.step = "waiting", !.base = Len(inbox), !.post = post,
                                    !.before = Contents, !.deletes = plan.deletes]
    /\ UNCHANGED <<export, inbox, known, batch, cut, cover, audit, recentFile, coverFile>>

SessionStep(next) ==
    /\ session' = next
    /\ UNCHANGED <<adapterVars, cover, audit, recentFile, coverFile>>

Count ==
    /\ session.step = "waiting"
    /\ SessionStep([session EXCEPT !.step = "counted", !.count = Len(inbox), !.seen = Contents])

Detect ==
    /\ session.step = "counted" /\ NewCaptureFound(session.base, session.count)
    /\ SessionStep([session EXCEPT !.step = IF session.post THEN "gate" ELSE "verified"])

Poll ==
    /\ session.step = "counted" /\ ~NewCaptureFound(session.base, session.count)
    /\ SessionStep([session EXCEPT !.step = "waiting", !.count = 0, !.seen = {}])

TimeUp ==
    /\ session.step = "counted" /\ ~NewCaptureFound(session.base, session.count)
    /\ SessionStep([session EXCEPT !.step = "not_detected"])

SessionGate(outside) ==
    /\ session.step = "gate"
    /\ SessionStep([session EXCEPT !.step = "audit", !.gate = GateReady(outside)])

(* Whatever the probe found, the verdict is not_detected if gate or audit    *)
(* are not ready.                                                            *)
EndSession ==
    /\ session.step = "audited" /\ audit.step = "idle"
    /\ SessionStep([session EXCEPT !.step =
          IF session.gate /\ audit.verdict # "not_ready" THEN "verified" ELSE "not_detected"])

-----------------------------------------------------------------------------
(* run_session of the coverage script with --rehearse-missing.  Of the       *)
(* record, all but step and todo are observations.                           *)
StartCover ==
    /\ cover.step # "send"
    /\ Spend("covers")
    /\ cover' = [step |-> "send", todo |-> Missing, before |-> Missing, failed |-> {},
                 after |-> {}, base |-> Len(inbox), deletes |-> plan.deletes,
                 stale |-> {p \in Phone : Content(p, Synthetic, 0) \in known}]
    /\ UNCHANGED <<export, inbox, known, batch, cut, session, audit, recentFile, coverFile>>

(* Mutant: the payload does not say which source it is for.                  *)
RehearseDefault(p, vault) ==
    /\ cover.step = "send" /\ p \in cover.todo
    /\ Accept(Content(CHOOSE q \in Phone : TRUE, Synthetic, 0), vault)
    /\ cover' = [cover EXCEPT !.todo = @ \ {p}]
    /\ UNCHANGED <<export, batch, cut, plan, session, audit, recentFile, coverFile>>

(* run_rehearsal: the payload of the template goes the way of a real one.    *)
Rehearse(p, vault) ==
    /\ cover.step = "send" /\ p \in cover.todo
    /\ Accept(Content(p, Synthetic, 0), vault)
    /\ cover' = [cover EXCEPT !.todo = @ \ {p}]
    /\ UNCHANGED <<export, batch, cut, plan, session, audit, recentFile, coverFile>>

(* It fails before or after the payload was stored.                          *)
RehearsalFails(p, vault) ==
    /\ cover.step = "send" /\ p \in cover.todo
    /\ Spend("faults")
    /\ Accept(Content(p, Synthetic, 0), vault) \/ UNCHANGED <<inbox, known>>
    /\ cover' = [cover EXCEPT !.todo = @ \ {p}, !.failed = @ \cup {p}]
    /\ UNCHANGED <<export, batch, cut, session, audit, recentFile, coverFile>>

(* TimeoutExpired of a rehearsal ends the script.                            *)
CoverCutOff ==
    /\ cover.step = "send" /\ cover.todo # {}
    /\ Spend("faults")
    /\ cover' = NoCover
    /\ UNCHANGED <<export, inbox, known, batch, cut, session, audit, recentFile, coverFile>>

EndCover ==
    /\ cover.step = "send" /\ cover.todo = {}
    /\ cover' = [cover EXCEPT !.step = "done", !.after = Missing]
    /\ UNCHANGED <<adapterVars, session, audit, recentFile, coverFile>>

-----------------------------------------------------------------------------
(* main of the audit; run_evidence_commands in the order of COMMANDS.        *)
BeginAudit ==
    audit' = [NoAudit EXCEPT !.no = audit.no + 1, !.step = "inbox"]

RunAudit ==
    /\ audit.step = "idle"
    /\ session.step \notin {"audit", "audited"}
    /\ Spend("audits")
    /\ BeginAudit
    /\ UNCHANGED <<export, inbox, known, batch, cut, session, cover, recentFile, coverFile>>

SessionAudit ==
    /\ audit.step = "idle" /\ session.step = "audit"
    /\ BeginAudit
    /\ session' = [session EXCEPT !.step = "audited"]
    /\ UNCHANGED <<adapterVars, cover, recentFile, coverFile>>

Learn(step, next, ev) ==
    /\ audit.step = step
    /\ audit' = [audit EXCEPT !.step = next, !.ev = ev]
    /\ UNCHANGED <<adapterVars, session, cover, recentFile, coverFile>>

AuditInbox ==
    Learn("inbox", "gate", [audit.ev EXCEPT !.passed = @ /\ SealedInbox])

AuditGate(outside) ==
    LET ready == GateReady(outside) IN
      Learn("gate", "setup", [audit.ev EXCEPT !.passed = @ /\ ready, !.gate = ready])

AuditSetup(outside) ==
    LET ready == SetupReady(outside) IN
      Learn("setup", "probe", [audit.ev EXCEPT !.passed = @ /\ ready, !.setup = ready])

AuditProbe ==
    Learn("probe", "handoff", [audit.ev EXCEPT !.passed = @ /\ ProbeFinds, !.probe = ProbeFinds])

AuditHandoff(outside) ==
    LET ready == HandoffReady(outside) IN
      Learn("handoff", "recent", [audit.ev EXCEPT !.passed = @ /\ ready, !.handoff = ready])

(* Mutant: a file that exists is not written again.                          *)
OutputOnce(file, runs) == IF runs /\ ~file.made THEN Report(audit.no) ELSE file

(* run_json, and the file of COMMAND_OUTPUTS: if it exists it is taken, also *)
(* when the command failed and did not write it.                             *)
Output(file, runs) == IF runs THEN Report(audit.no) ELSE file

Noted(file, runs) ==
    /\ ~runs => Spend("faults")
    /\ runs => UNCHANGED plan
    /\ UNCHANGED <<export, inbox, known, batch, cut, session, cover>>

AuditRecent(runs) ==
    LET file == Output(recentFile, runs) IN
      /\ audit.step = "recent"
      /\ recentFile' = file
      /\ audit' = [audit EXCEPT !.step = "coverage",
                     !.failed = @ \/ ~runs, !.fresh = @ /\ file.of = audit.no,
                     !.ev.count = file.count,
                     !.ev.passed = @ /\ file.count > 0 /\ file.missing = {}]
      /\ Noted(file, runs) /\ UNCHANGED coverFile

(* required_user_actions: what the owner is asked to do.                     *)
UserActions(ev) ==
    LET observed == ev.probe \/ ev.count > 0 IN
      (IF ev.handoff /\ ~observed THEN {"configure_owner_phone_automation_tool"}
       ELSE IF ~ev.setup THEN {"fix_owner_phone_automation_setup"}
       ELSE IF ~ev.covered THEN {"complete_phone_source_adapter_configuration"}
       ELSE {})
      \cup (IF observed /\ ~ev.gate THEN {"rerun_final_privacy_gate"} ELSE {})

(* build_audit; `rest` is the conjunction of the checks on dispatch, worker  *)
(* progress, scheduler, adapters and documents.                              *)
Verdict(ev, rest) ==
    IF ~(ev.passed /\ ev.covered /\ rest) THEN "not_ready"
    ELSE IF UserActions(ev) # {} THEN "ready_owner_action_required"
    ELSE "ready"

AuditCoverage(runs, rest) ==
    LET file == Output(coverFile, runs)
        ev == [audit.ev EXCEPT !.covered = file.made /\ file.missing = {}] IN
      /\ audit.step = "coverage"
      /\ coverFile' = file
      /\ audit' = [audit EXCEPT !.step = "idle", !.ev = ev, !.failed = @ \/ ~runs,
                     !.fresh = @ /\ file.of = audit.no, !.verdict = Verdict(ev, rest)]
      /\ Noted(file, runs) /\ UNCHANGED recentFile

(* A command that takes longer than its 90 seconds ends the audit.           *)
AuditCutOff ==
    /\ audit.step # "idle"
    /\ Spend("faults")
    /\ audit' = [NoAudit EXCEPT !.no = audit.no, !.verdict = "not_ready"]
    /\ UNCHANGED <<export, inbox, known, batch, cut, session, cover, recentFile, coverFile>>

(* The owner runs the summary by hand, to the same file.                     *)
Summarize ==
    /\ Spend("summaries")
    /\ recentFile' = Report(0)
    /\ UNCHANGED <<export, inbox, known, batch, cut, session, cover, audit, coverFile>>

-----------------------------------------------------------------------------
AuditStep ==
    \/ AuditInbox \/ AuditProbe
    \/ \E outside \in BOOLEAN : AuditGate(outside) \/ AuditSetup(outside) \/ AuditHandoff(outside)
    \/ \E runs \in BOOLEAN : AuditRecent(runs)
    \/ \E runs, rest \in BOOLEAN : AuditCoverage(runs, rest)

Next ==
    \/ AdaptersNext /\ UNCHANGED scripts
    \/ \E p \in Phone, m \in Payloads, vault \in BOOLEAN : PhoneSends(p, m, vault)
    \/ \E post \in BOOLEAN : StartSession(post)
    \/ Count \/ Detect \/ Poll \/ TimeUp \/ EndSession \/ SessionAudit
    \/ \E outside \in BOOLEAN : SessionGate(outside)
    \/ StartCover \/ EndCover \/ CoverCutOff
    \/ \E p \in Phone, vault \in BOOLEAN : Rehearse(p, vault) \/ RehearsalFails(p, vault)
    \/ RunAudit \/ AuditStep \/ AuditCutOff \/ Summarize

(* A batch that has been started goes on: its imports have time limits.      *)
(* That somebody starts one is not assumed.                                  *)
Fairness == WF_phoneVars(BatchStep /\ UNCHANGED scripts)

EvidenceSpec == Init /\ [][Next]_phoneVars /\ Fairness

-----------------------------------------------------------------------------
(* A session that gives up has not overlooked anything: a capture the phone  *)
(* stored after it began and before the last count is not among the recent   *)
(* ones, or something was deleted, so that the count did not grow, or the    *)
(* latest one is in plain.  (The docstring of the session: it "waits for the *)
(* next phone automation capture".)                                          *)
MissedMeansGone ==
    [][session.step = "counted" /\ session'.step = "not_detected" =>
         \/ plan.deletes < session.deletes
         \/ \E k \in Recent : LatestPhone(k) /\ ~inbox[k].sealed
         \/ \A k \in Recent : IsPhone(k) /\ inbox[k].what \in session.seen =>
                               inbox[k].what \in session.before]_phoneVars

(* "sends synthetic payloads for missing phone adapter sources": a source    *)
(* that is still missing afterwards had a failed rehearsal, or its payload   *)
(* had been stored at an earlier time and was skipped as a duplicate, or it  *)
(* was deleted or pushed out by as many other captures meanwhile.            *)
RehearsalCovers ==
    [][cover.step = "send" /\ cover'.step = "done" =>
         \A p \in cover.before \cap cover'.after :
            \/ p \in cover.stale \cup cover.failed
            \/ plan.deletes < cover.deletes
            \/ Len(inbox) >= cover.base + Window]_phoneVars

(* An audit that says ready leaves the owner nothing to do, and unless one   *)
(* of its commands failed it took no evidence that an earlier run had left   *)
(* in the files.                                                             *)
ReadyIsCurrent ==
    audit.step = "idle" =>
      /\ audit.verdict # "ready_owner_action_required"
      /\ audit.verdict = "ready" => audit.fresh \/ audit.failed

=============================================================================
