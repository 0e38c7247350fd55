------------------------------ MODULE MCInbox ------------------------------
(***************************************************************************)
(* Two requests, one id a browser would send again with either of two      *)
(* contents, one record an adapter would deliver again, and as many random *)
(* ids as it takes to store it once too often.                             *)
(***************************************************************************)
EXTENDS PrivateInbox, TLC

CONSTANTS name1, id1, id2, id3, record1, capture1, capture2, client1, client2

MCNamed == {name1}
MCFresh == {id1, id2, id3}
MCRecords == {record1}
MCCaptures == {capture1, capture2}
MCClients == {client1, client2}
Symmetry == Permutations(MCFresh) \cup Permutations(MCCaptures) \cup Permutations(MCClients)

=============================================================================
