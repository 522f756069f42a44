---------------------------- MODULE AccountTokens ----------------------------
(***************************************************************************)
(* What AuthService promises the application about the tokens of one        *)
(* account, without any storage key: a token is granted at most once, a     *)
(* token that stopped being live never comes back, and an exclusive account *)
(* (is_concurrent = false, whole-account range) has one live token at most. *)
(***************************************************************************)
CONSTANT Tokens

VARIABLES
  exclusive, \* whether the account may have one live token only
  granted,   \* tokens handed out by a login that passed its commit point
  live       \* those of them that authenticate requests

Init == exclusive \in BOOLEAN /\ granted = {} /\ live = {}

\* A login commits.  A concurrent logout or replacement may have hit its token
\* already, so the token is not always live when it is handed out.
Grant(t) ==
  /\ t \in Tokens \ granted
  /\ exclusive => live = {}
  /\ granted' = granted \cup {t}
  /\ live' \in {live, live \cup {t}}
  /\ UNCHANGED exclusive

\* A logout, kick-out, replacement or eviction ends one token.
Revoke(t) ==
  /\ t \in live
  /\ live' = live \ {t}
  /\ UNCHANGED <<granted, exclusive>>

Next == \E t \in Tokens : Grant(t) \/ Revoke(t)

Spec == Init /\ [][Next]_<<granted, live, exclusive>>

=============================================================================
