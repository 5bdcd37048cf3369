--------------------------- MODULE MCVaultStore ---------------------------
(* Small instances of VaultStore and VaultUpdates for TLC.                 *)
EXTENDS VaultUpdates, TLC

MCSymmetry == Permutations(Inodes) \cup Permutations(Vals) \cup Permutations(Names)
=============================================================================
