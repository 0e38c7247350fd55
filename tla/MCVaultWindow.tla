---------------------------- MODULE MCVaultWindow ----------------------------
(***************************************************************************)
(* Two ids and two contents, of 3 and 6 bytes.  A backup of at most 10     *)
(* bytes holds two small captures or a large one (8 characters in base64), *)
(* a small and a large one fit the plaintext's limit but not the file's    *)
(* (9 bytes, 12 characters), and two large ones fit neither.               *)
(***************************************************************************)
EXTENDS EncryptedVault, TLC

CONSTANTS i1, i2, small, large, c1, c2

MCIds == {i1, i2}
MCContents == {small, large}
MCClients == {c1, c2}
MCSize == small :> 3 @@ large :> 6
MCSwollen == {large}
Symmetry == Permutations(MCIds) \cup Permutations(MCClients)

=============================================================================
