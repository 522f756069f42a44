------------------------------- MODULE MCLogins -------------------------------
(***************************************************************************)
(* A small instance of LoginParts: logins, logouts, a ban and a kick-out of *)
(* one account by two tasks, with every storage call of a rollback or a     *)
(* revocation failing where the code lets it.                               *)
(***************************************************************************)
EXTENDS LoginParts, TLC

\* Tokens are interchangeable: they are numbers, drawn in order.
TokensInOrder == \A k \in drawn' \ drawn : 1..(k - 1) \subseteq drawn'

\* Bound: one removal fails, before any task is dropped or meets another at a token.
Lossy == missed # {} \/ \E p \in Parts : lost[p] # {}
OneLoss ==
  /\ UNCHANGED failures \/ (~Lossy /\ excused = {})
  /\ Lossy => ~\E t \in Tasks : LpDropped(t)

LoginsNext == LpNext /\ TokensInOrder /\ OneLoss

LoginsInit == ControlInit /\ LpInit

LoginsSpec == LoginsInit /\ [][LoginsNext]_lpVars

TaskSymmetry == Permutations(Tasks)

=============================================================================
