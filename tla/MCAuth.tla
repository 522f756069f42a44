------------------------------- MODULE MCAuth -------------------------------
(***************************************************************************)
(* Small instances of AuthService for TLC.                                 *)
(***************************************************************************)
EXTENDS AuthServiceInv, TLC

Replacing1 == [isConcurrent |-> FALSE, isShare |-> FALSE,
               replacedRange |-> "AllDeviceType", exitMode |-> "OldDevice",
               maxLoginCount |-> -1, overflowMode |-> "Logout",
               logoutRange |-> "Token"]

\* An exclusive account: the old device is replaced, or the new one refused.
OldDevice == {Replacing1}
NewDevice == {[Replacing1 EXCEPT !.exitMode = "NewDevice"]}
Exclusives == OldDevice \cup NewDevice

\* Concurrent logins.
Unlimited == {[Replacing1 EXCEPT !.isConcurrent = TRUE]}
Limited(n, m, r) == [Replacing1 EXCEPT !.isConcurrent = TRUE, !.maxLoginCount = n,
                                       !.overflowMode = m, !.logoutRange = r]

\* One configuration per policy.
Policies ==
  {Replacing1,
   [Replacing1 EXCEPT !.replacedRange = "CurrDeviceType"],
   [Replacing1 EXCEPT !.isConcurrent = TRUE, !.isShare = TRUE,
                      !.logoutRange = "Account"],
   Limited(2, "KickOut", "Token"), Limited(1, "Logout", "Token"),
   Limited(2, "Replaced", "Account")}

TaskSymmetry == Permutations(Procs)
DeviceTokenSymmetry == Permutations(Devices) \cup Permutations(Tokens)
TaskTokenSymmetry == Permutations(Procs) \cup Permutations(Tokens)

=============================================================================
