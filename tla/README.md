# Verification of the Personal Notion Hub

TLA+ models of the parts of this repository that keep shared state: how a
capture reaches the private inbox, how a command becomes a GitHub Issue and a
Discord thread, how the many scripts that share one state file stay out of each
other's way, how a browser is paired, and what the owner is told about all that.
TLC checks the models on small instances; TLAPS proves the invariants that
matter most for every instance.

All paths below are relative to the repository.

## The system

A phone or a browser sends a *capture* to the companion server, which stores it
in a private SQLite inbox, in plaintext or sealed in the encrypted vault.  Import
scripts put exported and live data of the owner there, too.  A capture whose kind
is `project_brief`, `task_request`, `daily_command` or `urgent_approval`, or that the
owner has given an alias of such a kind, is a command.  The unattended path picks commands from the
inbox, opens a GitHub Issue for each (the ledger) and a Discord thread (the
routing), starts a worker, records its result, and closes the issue once there is
evidence.  Everything that is known about a dispatched packet is in one JSON file,
the *dispatch state*, which a dozen scripts read, change and write back.  A timer
runs jobs that report on the automation; the browser shows a panel of its own.

| component | source | state it keeps | operations |
|---|---|---|---|
| dispatch job | `scripts/pnh_dispatch_job.py`, `github_ledger_bridge.py` | dispatch state; issues; threads | load, detect duplicates, create issue, create thread, post messages, comment, a checkpoint after each |
| unattended dispatch path | `pnh_unattended_dispatch_queue_plan.py`, `pnh_dispatch_candidate_export.py`, `pnh_unattended_dispatch_pilot.py`, `pnh_auto_dispatch_from_inbox.py`, `pnh_single_command_packet.py` | wrapper lock, pilot lock, queue plan, history | plan, lock, export a candidate, run the job, append to the history, recover, unlock |
| dispatch state writers | `pnh_dispatch_status_refresh.py`, `pnh_discord_thread_status_refresh.py`, `pnh_openclaw_worker_capture.py`, `pnh_worker_result_record.py`, `pnh_dispatch_state_cleanup.py` | dispatch state, archive | read the whole file, call a service, write the whole file |
| label reconciliation and completion | `pnh_external_reconciliation_plan.py`, `pnh_github_label_reconciliation_apply.py`, `pnh_github_worker_done_closure.py`, `pnh_worker_completion_auto.py`, `companion/dispatch_summary.py` | issue labels and state | plan, edit, evaluate evidence, close |
| encrypted vault | `companion/encrypted_vault.py`, `scripts/encrypted_vault_*.py` | rows, salt, key id; backup file | init, insert, fetch, list, delete, back up, restore, rotate |
| private inbox | `companion/private_store.py` | captures, fingerprints, audit events | find fingerprint, insert, register, list |
| plaintext migration | `scripts/plaintext_migration_apply.py` | the same tables | list, move or roll back |
| private data adapters | `scripts/pnh_private_data_adapter_import.py`, `..._batch_plan.py`, `pnh_live_private_data_adapter_*.py` | inbox, fingerprints, temporary files | import a file, a live source, a batch of either |
| companion server | `companion/server.py` | pairing code, sessions | pair, restore, revoke, ingest, trigger a run, report |
| owner device sessions | `companion/owner_device_sessions.py` | file of device credentials | issue, validate, revoke |
| companion bridge | `assets/js/companion-bridge.js` | token in memory, credential in localStorage | pair, restore, revoke, send |
| orchestrator and scheduler | `pnh_unattended_orchestrator.py`, `companion/single_command_packet_runner.py`, `pnh_scheduler_tick.py` | run summaries, runtime directory | run for a capture, run from the browser, tick |
| automation reports | `pnh_unattended_dispatch_readiness.py`, `pnh_unattended_retry_backoff.py`, `pnh_unattended_automation_status.py`, `companion/command_packet_status.py` | report files | the jobs of a tick, the answer to the panel |
| worker progress | `pnh_worker_progress_parse.py`, `..._batch_import.py`, `..._backfill_from_state.py` | progress in the dispatch state | import a text, a batch, backfill |
| browser application | `assets/js/app.js` | localStorage; the panel's copies | launches, projects, tasks; import, export, reset; dry run, refresh, disconnect |
| assistant storage | `assets/js/assistant-storage.js` | IndexedDB, or a map in memory | add, update, list, clear, export, import |
| phone evidence | `pnh_owner_phone_capture_session.py`, `pnh_phone_source_coverage_session.py`, `pnh_phone_automation_*.py`, `pnh_real_data_privacy_gate.py`, `pnh_assistant_mvp_completion_audit.py` | status files | wait for a capture, rehearse missing sources, audit |

The components meet in files and tables, not in messages: the wrapper starts the
pilot as a process, the pilot starts the export and the job, and each reads and
writes files whole.  Nothing but two lock files keeps them apart, and not every
writer takes a lock.  The server serves each request in a thread without locks,
and the browser suspends at each request.  What is hard is therefore

* *overlap*: two processes, threads, pages or asynchronous functions with a
  snapshot of the same file, table or variable;
* *interruption*: every script may be killed, time out or fail between an
  external call and the record of it, and writes its files in place;
* *late requests*: a time limit ends the waiting, not the request;
* *stale decisions*: a plan, a list of existing ids, a report file of an earlier
  run or a cached status that is acted upon later.

`PROJECT.json` lists the components, and every hazard at its line.

## The modules

### Dispatch

**DispatchJob** (`scripts/pnh_dispatch_job.py`).  One slot in `job` is one run of
the script; its locals are the snapshot it loaded, the record of its packet, and
the issue the duplicate query found.  `stateFile` is the JSON file (0 stands for
an absent id), `fileOk` says whether it parses.  Each external call (`Detect`,
`CreateIssue`, `CreateThread`, `PostMessage`, `CommentIssue`) and each checkpoint
is a step.  A checkpoint writes the whole snapshot with the run's own record
changed (`Snapshot`).  `Fail` ends a run anywhere; during a checkpoint it may
leave the file cut short, and a request whose answer is lost may have been carried
out.  `ReplaceDispatchLabel` is the label reconciliation that hides an issue from
the duplicate query.  `orphans` and `muted` are observations: threads whose run
ended before recording, or before announcing, them.  `Next` lets runs overlap;
`SequentialNext` is the same with one run at a time, the discipline the queue plan
demands (`stateWritesMustBeSequential`).

**DispatchLate** adds requests that are carried out after the run that sent them
has given up or was killed; runs follow each other.  `late` observes the issues made
when nobody waited for them.

**DispatchPilot** (`pnh_single_command_packet.py` down to the job, on top of
DispatchLate).  Runners are wrappers and operators who run planner and pilot by hand.
`run[r]` is where a runner stands: taking the wrapper lock, planning, taking the pilot
lock, exporting, running the job (a slot of DispatchJob, composed through EXTENDS),
appending to the history, releasing, recovering, the worker phase, unlocking.  The
inbox is `stored`, of which `command` are commands: captures of any kind arrive while
runs are under way, and an alias makes a command of an old one.  The plan looks at the
newest PlanWindow captures (50 in the code) and takes the newest command that is not in
the state (`Eligible`, `Queue`); the export looks at ExportWindow captures (20) and
refuses a packet that is outside or in the state (`Refused`).  The finally clause that
removes a lock the pilot does not hold is modelled as it is (`ReleasePilotLock`).  A
job that is killed at its time limit may leave a request behind (`JobDies`,
`RequestLands`).  Both rate limits are computed from the history, to which only
successful runs append; `unrecorded` observes the runs that made an issue or a thread
and are not in it.

**CaptureTrigger** (on top of DispatchPilot): the thread the server starts for
every capture of the phone, the orchestrator it runs, and the runner behind the
browser's button.  Captures of adapters and imports and aliases start nothing
(`ImportCapture`, `AliasQuietly`).  A trigger that meets a taken lock is turned away
for good.  The server stops waiting after 900 s and kills the orchestrator, not its
children; the browser's runner kills the wrapper itself after 720 s and so leaves the
lock.  The steps before the worker phase have limits of 30 + 30 + 150 + 150 s, so both
limits only strike in the worker phase; the orchestrator's own limit of 1200 s is
above the server's.

**DispatchWriters** (the scripts that share the state file after a dispatch).  A
slot in `proc` works through an *agenda* of scripts: that of the wrapper, composed
of its functions (`Pilot`, `RefreshState`, `WorkerCapture`, `LabelReconciliation`,
`CompleteAgenda`), the refresh order of the runbook (which plans label edits and
applies none), the completion, or a script an operator runs.
Every script loads the whole file (`snap`), makes its calls, and writes it back:

| script | source | steps |
|---|---|---|
| dispatch | export and job, whose details are in DispatchJob | DispatchLoad, DispatchLink |
| github, newest | `pnh_dispatch_status_refresh.py` | RefreshLoad, ReadIssue or ReadFails per record, RefreshSave, RefreshOut |
| discord | `pnh_discord_thread_status_refresh.py` | DiscordLoad, DiscordSave |
| capture | `pnh_openclaw_worker_capture.py` | CaptureRun, CaptureLoad, CaptureSave |
| record | `pnh_worker_result_record.py` | RecordLoad, RecordSave |
| cleanup | `pnh_dispatch_state_cleanup.py` | CleanupLoad, CleanupSave, CleanupArchive |
| labels | `pnh_external_reconciliation_plan.py`, `pnh_github_label_reconciliation_apply.py` | LabelPlan, EditLabels per issue, LabelsEnd |
| complete | `pnh_worker_completion_auto.py`, `pnh_github_worker_done_closure.py` | CompleteLoad, CloseIssue per record, CompleteEnd |

A record holds what the scripts decide by: issue, thread, session, status,
evidence, and the cached state and labels of the issue.  `refreshed` is the output
file of the last refresh, whose labels the plan prefers.  `issues` has the real
state and labels, `results` every result produced; a session and an evidence
reference are named by the result they come from, so that a record that mixes two
results shows.  `lost` observes the issues whose record a cleanup dropped between
its two saves.  A completion takes up to `Limit` ready records, closed ones included -- any,
where the code takes those updated last --, or the one of the packet it is given, as the
wrapper does.  `Next` lets scripts overlap; `SequentialNext` lets one process work
at a time, as `docs/PNH_UNATTENDED_DISPATCH_RUNBOOK.md:202-216` asks for and nothing
enforces.

### Inbox, vault, imports

**EncryptedVault**, **CaptureStore**.  `rows` is the table, `salt` the vault's
metadata, `backup` the backup file, `known` the passphrase each process was started
with, `op` the operation it is in.  Every SQLite transaction is a step, and so is
every read that precedes one: an insert reads the salt before it inserts, a listing
selects rows before it decrypts them, a restore reads the existing ids once, deletes
and inserts one capture at a time.  A key is a passphrase and a salt, both named by
the rotation that introduced them; a row opens only with the passphrase it was
sealed with and if its salt is the one stored now.  CaptureStore is the abstract
specification: a map in which a put never overwrites.  `VaultNext` is what the code
permits; `WindowNext` adds what the owner has to do and the code does not enforce:
stop the writers during a rotation and start them with the new passphrase
afterwards.

**PrivateInbox**, **CaptureLedger** (`companion/private_store.py` and
`plaintext_migration_apply.py`).  Two tables with primary keys of their own, a table
of fingerprints that only the adapters use, audit events; requests in threads of the
server and import scripts, one step per SQLite transaction.  A migration (one at a
time) lists rows and moves the listed ones, or is rolled back as a whole if one of
their ids is taken.  A fingerprint outlives the capture it was made for.  A repeated
request meets its taken id and fails, so a trigger that was lost is not repeated.
CaptureLedger is what the inbox promises: what was reported as stored is held until
deleted.

**PrivateAdapters** (`pnh_private_data_adapter_*.py`, `pnh_live_*`).  Batches of
exported files and of live adapters, one import process after the other; a record is
looked up, then its row and its fingerprint are stored in two steps.  A record's
title may be its own or made from its place in the export, a live transcript's from
a temporary file's name; both enter the fingerprint.  A record that the inbox refuses
(`normalize_capture`: too large, without a body) ends its import at that place each
time.  An empty export stands for a missing or unreadable file.  `plan` holds all bounds of a behaviour.

**PhoneEvidence** (on top of PrivateAdapters): the capture session with its probe,
the rehearsal of missing sources, the recent summary, and the completion audit with
the files it reads, while the phone and the imports store captures.  What the audit
asks of other parts (services, documents, dispatch) is a free choice.

### Server and browser

**CompanionSessions** (`server.py`, `owner_device_sessions.py`,
`companion-bridge.js`).  A thread handles a request; reading the device file, opening
it for writing (which empties it) and filling it are steps, and what was read stays
in the thread's `copy`.  The pairing code is compared in one step and marked as used
in another.  A browser keeps its credential, and its token until it is reloaded.
Answers get lost, the server is restarted, codes, sessions and credentials expire.
A session is restored from the credential only when the owner presses a Check button
and the page has no token, and a refusal makes the browser forget the credential.
`settled` remembers what the file said at a time when no thread held a copy.

**LaunchBoard** (`app.js`): every page has the whole state in a variable and every
change writes all of it to localStorage.  Launches are submitted, started, sent,
confirmed; projects and tasks are made, edited in an inspector that may be open for
long, and deleted; files are exported and imported, the state is reset, writes fail
and answers get lost; a page that cannot read localStorage starts with the seed.  The five tasks of a start are one here.

**AssistantQueue** (`assistant-storage.js` and its callers): each request to
IndexedDB is a step, and the first one that fails moves the page to a map in memory,
empty at first and gone on reload.  A request that has succeeded may belong to a
transaction that is aborted, of which the page does not hear (`Aborted`).  `told` and
`marked` remember what was reported, `undone` the writes that an abort took back.

**AutomationReports**: the four jobs of a tick that report on the automation, with
the inbox, the state and each other's output files read at different moments, while
captures arrive, commands are dispatched, and results, progress texts and backfills
are written.  All ticks share one runtime directory, so a failed job leaves an
earlier tick's file, or one cut short.  The module also defines the summaries of a
record (`TaskStatus`, `Missing`, `Completeness`, `NextAction`, `Stage`, `StepsDone`)
as the evidence summary, the review, the completion and the panel compute them.
"running" stands for queued, running, review and qa, "failed" also for blocked.

**CommandPanel** (on top of AutomationReports): what the page holds of the server's
status and of its own dry run.  The page's functions suspend at every request and
then write its state, whatever happened meanwhile; wrappers an operator starts replace
the summary the server finds.  `seen` observes which advice was right since the dry
run began.  Ticks and page operations share no state; a `Scenario` has one or the
other.

## What TLC checks

| run | specification, bounds | what it shows |
|---|---|---|
| MCPilotWrappers | FairPilotSpec; 2 packets, 2 wrappers, 2 faults, limit 1 per hour, windows of 2 and 1 | Whatever is killed, times out or lands late, the wrapper's lock makes the jobs one after the other (the path implements LateSpec): no run that is alive makes a second issue, with n faults there are at most n + 1 issues and threads per packet, the hourly limit is exceeded only by runs that ended early, a recorded thread is announced or its run ended while announcing, no recorded id is forgotten, and every run ends. |
| MCWriteEvents | PilotSpec; 1 packet, 1 wrapper, 2 faults, limit 1; violation | The runbook's hourly maximum of external writes is exceeded by runs that fail after a write. |
| MCTrigger | TriggerSpec; 2 packets, a wrapper run, an operator, 1 fault, windows of 1, 1 capture, run or label edit aside | Every command that waits is accounted for by a request that has not started, is under way or ended in vain, or by none having been made; a summary of success is true then and later; overlapping jobs never record a link that does not exist. |
| MCWritersSequential | SequentialSpec; 2 packets, 2 issues, 2 results, 1 fault, completion limit 1 | Scripts one after the other: an issue is closed only on a done result with evidence (or an operator's word), every issue is in the state, the archive, or was lost by a killed cleanup, a complete result stays complete until it is replaced or archived, and a wrapper that comes to its end leaves its issue closed and labelled. |
| MCVaultWindow | WindowSpec; 2 clients, 2 ids, 2 contents, 1 rotation | Every row opens with the owner's passphrase, a finished restore is complete, and the vault implements CaptureStore. |
| MCVaultRace | VaultSpec; violation | An insert that overlaps a rotation becomes unreadable. |
| MCInbox | InboxSpec; 2 clients, 1 named and 3 random ids, 1 record, 2 captures, 1 fault | What was reported as stored is held until deleted (refinement of CaptureLedger), through migrations, restarts and failures; copies of a content are bounded by requests that overlap and failures; only a failure leaves anything half done. |
| MCSessions | SessionsSpec; 2 browsers, 2 threads, 1 device, 2 credentials, 1 restart, 1 lost answer | A settled revocation is final, one code admits one moment only, no save drops a device, and a browser is refused, and forgets its credential, only for a cause of its own and never because another request was rewriting the file. |
| MCLaunchBoard | BoardSpec; 2 pages, 1 launch, 5 changes, 3 ids, 1 fault | No task is made twice, links of tasks resolve, and only a page that was overtaken can lose a launch. |
| MCAssistantQueue | QueueSpec; 2 pages, 2 operations at a time, 2 captures, 6 operations, 1 failed request or aborted transaction | What was reported as stored stays, updates are not lost to others, and an import that falls back half-way loses nothing, but for what an aborted transaction took back. |
| MCPanel | FairPanelSpec; 2 captures, 1 command, 2 changes, 1 failure, 4 scenarios | The reports about a record agree, "idle" is true of the whole tick, what waits for good is noticed, and the advice after a dry run was right at some moment since it began. |
| MCPhone | MCSpec (EvidenceSpec from the listed initial states); 2 files, 2 live adapters, a refused record, 2 phone sources, window 2, 12 plans of bounds | A named record is stored once unless a failure came between row and fingerprint, a batch takes up all that failures of other sources leave in its reach, a session that gives up overlooked nothing, a rehearsal covers what it can, and "ready" rests on current evidence unless a command failed. |

MCVaultRace and MCWriteEvents are the findings: each contradicts a line of the
repository's own documentation, quoted in `PROJECT.json`.

*Bounds.*  Two of a kind -- packets, wrappers, threads, pages, clients -- show every
pairwise overlap on one file or table; the proofs below lift the safety
properties to any number.  `MaxIssues`, `MaxThreads`, `MaxFaults` and the like are
guards on otherwise unbounded counters, with room for one duplicate more than there
should be.  Pages, windows and limits (the duplicate query's 30 issues, the plan's 50
and the export's 20 captures, 50 records of an import, 50 captures of the phone's
scripts, the completion's 10 records) are constants, so that small instances reach
them: in MCPilotWrappers a command can be inside the plan's window and outside the
export's, in MCTrigger outside both, and in MCWritersSequential a ready record can
crowd another out.  The vault's contents have 3 and 6 bytes and a limit of 10, so that backups
fit, fit only as plaintext, and do not fit.  MCWritersSequential's two issues and
results are what a re-dispatch after a cleanup, a second result, or a second packet
need.  MCPanel's records have one result status (done) and
one text that mentions failed and done, enough for a result and a progress that
disagree; the other values are covered by the theorems.  MCPhone and MCPanel start
with one of several sets of bounds: each lets the operations interleave that write what
another of them reads, and leaves out combinations that would only multiply states
(all faults, deletions, sessions, rehearsals and audits at once).  BatchTakesAll speaks
of batches that begin when no edit or fault is left in the plan: with finite bounds
that is the same as a batch during which nothing happens, after any history.
MCTrigger, MCWriteEvents, MCInbox, MCSessions, MCLaunchBoard, MCAssistantQueue, MCPanel and MCPhone
switch the deadlock check off where a run's bounds stop it.  Symmetry is used only where
no liveness is checked.

*Fairness.*  A process that has been started goes on, since each call it makes has a
time limit; nothing else is assumed.  Nobody is assumed to start runs, batches or
scripts, to press a button, to remove a left-over lock or to let time pass.
FairPilotSpec: weak fairness of the steps of each run, for `RunsEnd`.  PhoneEvidence:
weak fairness of the steps of a batch, for `BatchTakesAll`.  FairReportsSpec and
FairPanelSpec: the timer, which systemd fires again and again, and the jobs of its tick
go on, and cooldowns end with time, for `HeldUpNoticed`; page operations have no
fairness.  The other specifications have none, because nothing in the code repeats what
has failed: the unattended path never returns to a packet that was dispatched
half-way, the labels are edited once in a wrapper's run, and a session is restored
only when the owner asks.  What such a step leaves behind is stated as
safety instead: what a run that comes to its end has achieved (`WrapperDelivers`), what
a script may not destroy (`CompleteUntilReplaced`), why a browser forgets its
credential (`RefusedForCause`), which commands wait and why (`TriggerInv`).

## What is proved

Each for every number of packets, processes, threads, pages, captures, and all bounds.

* `DispatchProofs`, for DispatchJob and the three modules built on it.
  + `OverlapInv` is inductive under `Next`: ids in the file, in snapshots and in running
    records exist and belong to their packet, because issues and threads are only ever
    added and a record only receives ids from calls made for its packet.  It gives
    types, `RecordedLinksExist` and `DoneMeansComplete`, also for overlapping runs.
  + `SerialInv` is inductive under `SequentialNext`: the running job's snapshot is the
    file, and each thread that is not an orphan is recorded or about to be.  It gives
    `OneRecordedThreadPerPacket`, `RecordedThreadAnnounced`, `NoLinkForgotten`.
  + `LateInv` (DispatchLate) counts: requests under way and orphaned threads are at most
    as many as runs that ended early, and so are the issues of a packet, requested ones
    included, but one; a run that is about to create one leaves room for it.  It gives
    `DuplicatesBoundedByFaults`.  `AwaitedInv` adds that a run that is about to create an
    issue was shown every issue of its packet that somebody had waited for, and gives
    `OneAwaitedIssue`.  Late requests leave records and announcements alone, so that
    `RecordedThreadAnnounced` and `NoLinkForgotten` hold of LateSpec as well.
  + `PilotInv` (DispatchPilot without operators): a wrapper that is not idle holds the
    wrapper's lock, so that only one runs, what it has planned within the limit is still
    within it but for runs that ended early, and after a dispatch without failure the
    record is complete.  Each step maps to a step of LateSpec or a stutter
    (`PilotIsLate`), so that the theorems on LateSpec carry over.  It gives
    `WritesBoundedByFaults` and `OneAwaitedIssue`.
  + `TriggerStrong` (CaptureTrigger): types and links hold with an operator at work;
    before one has been, `PilotInv` holds too, and each command that waits has a request
    of its own to its account, or was never asked for, by a count of `Waiting` against
    `Requests` through every way a trigger can end, in whatever window the command is.
    It gives `TriggerInv` and `SummaryHolds`.
* `DispatchWritersProofs`.  With scripts that overlap in any way, `WritersInv`: the
  file *and every snapshot* are sound (ids exist and belong to the record's packet,
  the status is that of the session's result), a result about to be written is of its
  packet, and records about to be closed were ready in the snapshot.  Soundness
  survives since the ledger and the results only grow (`Grows`), which is why any
  stale snapshot may be written back.  It gives types, `ClosedMeansDone`, `EvidenceIsOwn`.
  With one script at a time, `SerialWritersInv`: one process is at work, what it loaded
  and has not saved differs from the file only by what its stage changes, and a result's
  evidence is its own or an operator's.  It gives `KeptOrArchived`, `ClosedOnRecord` and
  `CompleteUntilReplaced`.
* `EncryptedVaultProofs`, under `WindowSpec`.  `WindowInv` (an insert holds the current
  salt; the rows a rotation has listed are those of the table, since it is the only
  writer) gives types, `AllReadable`, and the refinement of CaptureStore.  `RestoreInv`
  (what a restore has dealt with is in place, is what it inserts next, or was deleted by
  another) gives `RestoreMakesWhole`.
* `PrivateInboxProofs`.  What is noted in a request, fingerprinted or told is held in
  one of the tables or deleted, and a migration's listing stays valid because ids are
  never reused.  It gives types and the refinement of CaptureLedger.  `CountInv` charges
  each copy of a content to a request that is about to register it or to a failure, and
  once there is a fingerprint only the requests that have not seen it can add one.  It
  gives `CopiesBounded` and `NoneForgotten`.
* `CompanionSessionsProofs`.  The file and all copies are honest about what was settled
  before they were read; there is room for the credentials of the pairings under way;
  the rivals for a code are counted.  It gives types, `RevokedForGood`,
  `KeptOrOutlived`, `PairedAtOnce`.
* `OwnerProofs`, for two components that share nothing.
  + `BoardInv` (LaunchBoard): each of the boards there are -- stored, exported, in a
    page -- is sound by itself: an id names one task, a start task or follow-up is the
    one its launch names, which is why there is no second one, and links resolve; a page
    that is current keeps what is stored.  It gives `OneOfEach`, `LinksResolve`,
    `CurrentPageHasAll`.
  + `PhoneInv` (PhoneEvidence beside PrivateAdapters): the copies of a content are
    covered by its fingerprint, an import about to register it, and the imports that were
    cut off; while nothing has been deleted the inbox begins with what a session saw, and
    payloads that were not known are stored behind what a rehearsal began with; the audit
    has seen what its verdict says.  It gives `NamedOnce`, `ReadyIsCurrent`, and as action
    properties `MissedMeansGone` and `RehearsalCovers`.
* `AssistantQueueProofs`.  `QueueInv`: what an operation on IndexedDB relies on is
  there unless an aborted transaction took it back (Shape, Reliable), and a capture before
  its first write is unknown to everyone else (Births).  It gives types, `ToldIsKept`, `MarksKept`, `ImportKept`.
* `AutomationReportsProofs`.  `SourcesInv` (result and progress of a record differ only
  if they have two sources), a case analysis of links and results for the panel's
  rail, and `FreshInv` (a plan or retry plan made in this tick lacks nothing that has
  waited since the tick began) give types, `ReportsAgree`, `IdleIsTrue`.  PanelSpec
  implements ReportsSpec, and `FoundInv` (what a dry run found was right since it
  began) gives `AdviceWasRight`.

The proofs rest on the ASSUME of each module (sizes are natural numbers, model values
for "nothing" are no contents, and the like) and, where a theorem states them, on two
hypotheses.  `MaxIssues <= DetectWindow`: the page of the duplicate query covers the
ledger; beyond it the query misses an issue and the code does create a second one.
`Operators = {}`: nobody runs planner and pilot by hand beside the wrapper; otherwise
two plans may spend the same hour's allowance and two jobs overlap, which `OverlapInv`
and CaptureTrigger's `~operated` are about.  The theorems on DispatchWriters with one
script at a time, and on the vault with a maintenance window, are about specifications
of that discipline, which nothing in the code enforces (MCVaultRace shows the vault
without it).  The type invariants of these modules are proved rather than run, except
that of CaptureTrigger, which is part of `TriggerInv`.

Each safety property that a passing run checks is stated by a theorem, but for two that
are only model-checked: `WrapperDelivers` and `RefusedForCause`.  Left to TLC are the
liveness properties, which are out of the prover's reach, as is ENABLED: `RunsEnd`,
`HeldUpNoticed`, `BatchTakesAll`.

## Known limitations of the code

Seen while modelling; the models contain them, and the properties are stated so that
they hold in spite of them.

*Dispatch.*  A run that ends between the creation of the thread (job:178) and its
checkpoint (job:181) lets the next one create another, contrary to the docstring, and a
request that lands after its job was killed (auto:128) makes a second issue.  The
unattended path never repeats an incomplete packet: the plan skips (qp:149) and the
export refuses (exp:124) what is in the state, and so the recovery of a partial dispatch
is refused too; only an operator who runs the job completes it.  Commands in the places
21 to 50 of the inbox are planned and refused at every run, as long as no newer command
is there, and those pushed past 50 are never planned, nor are those for which a progress
text or result came before the dispatch.  An alias and an import start no run.  The
history counts successful runs only (pil:162), so that failed ones that have written
start no cooldown.  The pilot's and the scheduler loop's finally clauses remove a lock
they do not hold; the wrapper's lock outlives a killed wrapper.

*State file.*  The completion takes the ten most recently updated ready records, closed
ones included (`pnh_worker_completion_auto.py:170`), so that an open one may never come
in.  Outside the wrapper nothing applies label edits, and a plan made from an old refresh
output may ask for wrong ones.  Captures without `--run-dir` share one evidence file.
The counts in the retry history are never incremented.  A cleanup that ends between its
two saves loses the records it removes.

*Reports.*  The status says "idle" during a cooldown while commands wait.  A progress
text that failed keeps a record planned for retry after a done result.  The summary of
a failed wrapper says that nothing is queued and nothing was written
(`pnh_single_command_packet.py:499`), so a later refresh of the panel says "Queue clear"
although commands wait; runs of the orchestrator never reach the panel; its "Review ready"
counts closed records for ever and hides "Packet queued"; a dry run answered after a
disconnection shows its result on the disconnected page again; an old answer may
overwrite a newer one.

*Inbox and vault.*  A backup between three quarters of the limit and the limit cannot
be restored (`encrypted_vault.py:495`).  A conflict of one id blocks the migration of all
rows.  A batch plan ignores .json files that the registry supports, and stops at the
first failing file without writing its result; records beyond `--limit` are never
imported, nor are those after one that the inbox refuses; live transcripts are stored anew at each sync, and unnamed records when
their position changes; the batch of live syncs parses output cut to 240 characters,
so that its counts are always zero.

*Phone.*  The probe reports a new phone capture whenever the count grew and an older
phone capture is among the last 50.  The constant payload of a rehearsal is
deduplicated for ever, so a source that left the window cannot be rehearsed back.  The
audit takes an old output file of a failed command as current, and ends without a
verdict when a command runs out of time; one of its verdicts is unreachable.

*Browser.*  An import whose assistant inbox is malformed is reported as failed but has
replaced the state (app:2837).  A launch whose answer was lost can never be marked as
sent, since its id is taken.  A launch keeps the id of a deleted project (app:1644).  A
page that could not read localStorage overwrites it with the seed at its next change.  A
capture may be reported as stored whose transaction is aborted (ast:83).  A stale session
is not renewed while the page has a token, and no page checks by itself
(app:612, app:1849).  A late refusal of an old credential erases a newer one.

## Not modelled

Benchmarks, smoke checks and most readiness probes have no state of their own.  The
pairing hand-over file and its delivery, the remote status message, and the secret
stores of the operating system are single calls without a protocol.  The scheduler loop
repeats the same tick by hand.  Request parsing, previews, validation of single
fields, the wording of issues, messages and suggestions, and rendering are payload to
the properties here.

Of the dispatch state's fields, times of update and, in DispatchWriters, progress
fields and the wording of a status other than done are left out; the limit of the
label plan (50 records) is taken as not reached.  Plans with
more than one packet are not modelled: no caller passes `--max-jobs-per-run` above 1.
Cryptography is taken as ideal.  Of the browser's state, notes, routines, links and the
tags of tasks are changes without consequence.  Of the phone's scripts, the audit in
skip-refresh mode and a session with a given baseline are left out, and captures of the
same second, which the code lists plain ones before sealed ones, are in the order of
their storing.  In the inbox, the audit event of a skipped duplicate, which
nothing reads, is left out, and single captures and adapter records never have the
same content (their sources differ).

## Plan

1. Script parts that are left out of a modelled component: the pairing hand-over
   (`server.py:228-280`), `pnh_owner_live_capture_readiness.py`, the session with a
   baseline, the scheduler loop, the vault's listing and summary.
2. Plans with more than one packet, if a caller ever asks for them.
