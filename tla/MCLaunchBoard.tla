---------------------------- MODULE MCLaunchBoard ----------------------------
(* Two pages and one launch; pages are not told apart.                       *)
EXTENDS LaunchBoard, TLC

Symmetry == Permutations(Tabs)

=============================================================================
