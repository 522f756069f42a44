------------------------------ MODULE MCRefresh ------------------------------
(***************************************************************************)
(* Small instances of RefreshTokens for TLC.                               *)
(***************************************************************************)
EXTENDS RefreshTokens, TLC

RefreshSymmetry ==
  Permutations(Procs) \cup Permutations(Access) \cup Permutations(Refresh)

=============================================================================
