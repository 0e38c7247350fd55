-------------------------- MODULE MCAssistantQueue --------------------------
(* Two pages, two operations at a time and two captures.                     *)
EXTENDS AssistantQueue, TLC

CONSTANTS p1, p2, u1, u2, c1, c2

MCTabs == {p1, p2}
MCCalls == {u1, u2}
MCCaptures == {c1, c2}
Symmetry == Permutations(MCTabs) \cup Permutations(MCCalls) \cup Permutations(MCCaptures)

=============================================================================
