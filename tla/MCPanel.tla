------------------------------ MODULE MCPanel ------------------------------
(***************************************************************************)
(* Either ticks that a failure disturbs, or a dry run of the page beside   *)
(* two of a refresh, a departure and another wrapper.                      *)
(***************************************************************************)
EXTENDS CommandPanel

CONSTANTS c1, c2

Page == [ticks |-> FALSE, captures |-> {c1}, changes |-> 1, dryRuns |-> 1,
         refreshes |-> 0, wrappers |-> 0, departures |-> 0]

MCScenarios ==
    {[Page EXCEPT !.ticks = TRUE, !.captures = {}, !.changes = 0, !.dryRuns = 0],
     [Page EXCEPT !.refreshes = 1, !.departures = 1],
     [Page EXCEPT !.refreshes = 1, !.wrappers = 1],
     [Page EXCEPT !.departures = 1, !.wrappers = 1]}

=============================================================================
