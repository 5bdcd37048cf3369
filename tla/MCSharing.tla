------------------------------ MODULE MCSharing ------------------------------
(* Small instances of Sharing for TLC.                                     *)
EXTENDS Sharing, TLC

MCSymmetry == Permutations(Runs) \cup Permutations(Secrets)
==============================================================================
