------------------------------ MODULE MCGrant ------------------------------
(***************************************************************************)
(* A small instance of GrantCache for TLC.                                 *)
(***************************************************************************)
EXTENDS GrantCache, TLC

BothModes == BOOLEAN

GrantSymmetry == Permutations(Procs) \cup Permutations(Gates)

=============================================================================
