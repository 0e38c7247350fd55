------------------------------ MODULE MCPhone ------------------------------
(***************************************************************************)
(* Either imports -- a file that may be unreadable before another, and two *)
(* live adapters of which one is a transcript, with a record that is       *)
(* refused --, or the scripts that look at the phone's captures, with a    *)
(* single import beside them.                                              *)
(***************************************************************************)
EXTENDS PhoneEvidence, TLC

CONSTANTS contacts, calendar, liveCalendar, liveNotes, r1, u1, b1, calls, photos, m1, template

MCFiles == <<contacts, calendar>>
MCLive == <<liveCalendar, liveNotes>>
MCName == [s \in Sources |-> IF s = liveCalendar THEN calendar ELSE s]
MCTranscripts == {liveNotes}
MCExports == {<< >>, <<r1>>, <<u1, r1>>, <<r1, b1>>}

None == [edits |-> 0, deletes |-> 0, faults |-> 0, batches |-> FALSE, posts |-> FALSE,
         sends |-> 0, sessions |-> 0, covers |-> 0, audits |-> 0, summaries |-> 0]

MCPlans ==
    {[None EXCEPT !.batches = TRUE],
     [None EXCEPT !.batches = TRUE, !.faults = 1],
     [None EXCEPT !.batches = TRUE, !.edits = 1],
     [None EXCEPT !.batches = TRUE, !.deletes = 1],
     [None EXCEPT !.batches = TRUE, !.sends = 2, !.sessions = 1],
     [None EXCEPT !.sends = 3, !.deletes = 1, !.sessions = 1],
     [None EXCEPT !.sends = 2, !.deletes = 1, !.sessions = 1, !.covers = 1],
     [None EXCEPT !.sends = 2, !.deletes = 1, !.sessions = 1, !.posts = TRUE, !.audits = 1],
     [None EXCEPT !.sends = 2, !.deletes = 1, !.faults = 1, !.audits = 1, !.summaries = 1],
     [None EXCEPT !.sends = 2, !.faults = 1, !.sessions = 1, !.posts = TRUE, !.audits = 1,
                  !.summaries = 1],
     [None EXCEPT !.sends = 1, !.deletes = 1, !.faults = 1, !.covers = 2],
     [None EXCEPT !.sends = 1, !.covers = 1, !.audits = 1]}

(* Beside the phone, one live adapter with one record is enough.  A batch    *)
(* meets a file and a live adapter that are empty, well or hold a refused    *)
(* record, before others that are well; an edit makes any of them so later.  *)
MCInit ==
    /\ Init
    /\ plan.sends > 0 =>
         \A s \in Sources : export[s] = IF s = liveCalendar THEN <<r1>> ELSE << >>
    /\ plan.sends = 0 => export[calendar] = <<u1, r1>> /\ export[liveNotes] = <<r1>>
    /\ plan.edits + plan.deletes > 0 /\ plan.sends = 0 =>
         export[contacts] = <<r1>> /\ export[liveCalendar] = <<u1, r1>>

MCSpec == MCInit /\ [][Next]_phoneVars /\ Fairness

=============================================================================
