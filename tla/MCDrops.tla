------------------------------- MODULE MCDrops -------------------------------
(***************************************************************************)
(* AuthService in which at most one request is dropped: enough to leave the *)
(* stages of a login, or of a logout, behind for the calls that follow.     *)
(***************************************************************************)
EXTENDS MCAuth

VARIABLE dropped   \* bound: whether a request has been dropped

DropsInit == Init /\ dropped = FALSE

DropsNext ==
  /\ \/ /\ UNCHANGED dropped
        /\ \E p \in Procs :
             \/ Begin(p) \/ Step(p)
             \/ Fault(p) \/ UndoFault(p) \/ ProbeFault(p) \/ PruneFault(p)
     \/ /\ ~dropped /\ dropped' = TRUE
        /\ \E p \in Procs : Crash(p)
  /\ UNCHANGED config

DropsSpec == DropsInit /\ [][DropsNext]_<<vars, dropped>>

=============================================================================
