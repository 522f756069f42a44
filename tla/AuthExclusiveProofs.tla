------------------------- MODULE AuthExclusiveProofs -------------------------
(***************************************************************************)
(* An exclusive account has one live token at most, for any number of tasks*)
(* and tokens (ExclusiveInv of AuthServiceInv is inductive); and every step*)
(* of the service is, to its users, a step of AccountTokens.               *)
(***************************************************************************)
EXTENDS AuthServiceProofs

\* What has to be shown of a step besides type correctness.
Parts == TokensInv /\ ControlInv /\ BornInv /\ ReplacedInv /\ MappedInv

\* A step that leaves the storage and the logins' tokens alone keeps the parts that
\* only speak of them.
LEMMA Untouched ==
  ASSUME ExclusiveInv, UNCHANGED <<used, committed, tok, body, mapping>>
  PROVE  TokensInv' /\ MappedInv'
BY DEF ExclusiveInv, TokensInv, MappedInv

\* A step of logout_internal past the deletion of the body: to another such step
\* or back to the caller.
LEMMA LogoutMove ==
  ASSUME ExclusiveInv, TypeInv', NEW p \in Procs, pc[p] \in PostDelete,
         NEW l \in PostDelete \cup {ret[p]}, pc' = [pc EXCEPT ![p] = l],
         l = "casDelete" => mode[p] = "Logout", mapping' \in {mapping, NoToken},
         UNCHANGED <<config, body, tok, before, cur, mode, ret, targets, alive,
                     used, committed>>
  PROVE  TokensInv' /\ ControlInv' /\ BornInv' /\ ReplacedInv'
<1> USE DEF ExclusiveInv, TypeInv, TypeOK, Holding, LoginLabels, LogoutLabels,
            PostDelete, PreDelete, RenewLabels, Replacing
<1>1. Unborn' \subseteq Unborn
  BY SMTT(30) DEF Unborn, BeforeBodyLabels, ControlInv
<1>2. TokensInv' BY DEF TokensInv
<1>3. ControlInv' BY DEF ControlInv
<1>4. BornInv'
  BY <1>1 DEF BornInv, ControlInv
<1>5. ReplacedInv'
  <2>1. CASE mapping' = NoToken
    BY <2>1 DEF ReplacedInv
  <2>2. CASE mapping' = mapping
    <3>1. before[p] \in committed \cup {NoToken}
      BY DEF ReplacedInv
    <3>2. ret[p] \in {"replaceNext", "return", "accountNext"}
      BY DEF ControlInv
    <3>3. CASE ret[p] = "replaceNext"
      <4>1. before[p] = mapping /\ mapping # NoToken
              => mapping \in targets[p] \/ mapping \notin body
        BY <3>3 DEF ReplacedInv
      <4> QED BY <2>2, <3>1, <3>3, <4>1 DEF ReplacedInv
    <3>4. CASE ret[p] # "replaceNext"
      BY <2>2, <3>1, <3>2, <3>4 DEF ReplacedInv
    <3> QED BY <3>3, <3>4
  <2> QED BY <2>1, <2>2
<1> QED BY <1>2, <1>3, <1>4, <1>5

\* The commit of a login that has found no committed token with a body.
LEMMA CommitExclusive ==
  ASSUME ExclusiveConfig, ExclusiveInv, TypeInv', UNCHANGED config,
         NEW p \in Procs, pc[p] \in {"cas", "casAbsent"}, Commit(p),
         committed \cap body = {}
  PROVE  ExclusiveInv'
<1>1. /\ Finish(p) /\ mapping' = tok[p] /\ committed' = committed \cup {tok[p]}
      /\ UNCHANGED <<body, used>>
  BY DEF ExclusiveConfig, ExclusiveInv, TypeInv, TypeOK, Commit, IsConcurrent
<1>2. tok[p] \in Tokens /\ pc' = [pc EXCEPT ![p] = "idle"]
  BY <1>1 DEF ExclusiveInv, TypeInv, Holding, LoginLabels, Finish, Goto
<1>3. /\ tok' = [tok EXCEPT ![p] = NoToken] /\ before' = [before EXCEPT ![p] = NoToken]
      /\ cur' = [cur EXCEPT ![p] = NoToken] /\ mode' = [mode EXCEPT ![p] = "Logout"]
      /\ ret' = [ret EXCEPT ![p] = "return"]
      /\ targets' = [targets EXCEPT ![p] = {}] /\ alive' = [alive EXCEPT ![p] = <<>>]
  BY <1>1 DEF Finish
<1> USE DEF ExclusiveInv, TypeInv, TypeOK, Replacing, LoginLabels, LogoutLabels
<1>4. Unborn' \subseteq Unborn \ {tok[p]}
  BY ConstantsAssumption, <1>1, <1>2, <1>3 DEF Unborn, TokensInv, BeforeBodyLabels
<1>5. TokensInv'
  BY ConstantsAssumption, <1>1, <1>2, <1>3 DEF TokensInv
<1>6. ControlInv'
  BY <1>1, <1>2, <1>3 DEF ControlInv, RenewLabels
<1>7. BornInv'
  BY <1>1, <1>2, <1>3, <1>4 DEF BornInv, PostDelete, PreDelete
<1>8. ReplacedInv'
  BY ConstantsAssumption, <1>1, <1>2, <1>3 DEF ReplacedInv, TokensInv, PreDelete
<1>9. MappedInv'
  BY <1>1, <1>2 DEF MappedInv
<1> HIDE DEF TypeInv
<1> QED BY <1>5, <1>6, <1>7, <1>8, <1>9

\* logout() with logout_range = Account: on to the account-wide list, or on.
LEMMA RangeMove ==
  ASSUME ExclusiveInv, TypeInv', NEW p \in Procs, pc[p] \in {"rangeBody", "rangeId"},
         NEW l \in {"listIndex", "rangeId", "resolveBody"}, NEW r,
         pc' = [pc EXCEPT ![p] = l], ret' = [ret EXCEPT ![p] = r],
         r = IF l = "listIndex" THEN "collect" ELSE ret[p],
         UNCHANGED <<config, body, mapping, tok, before, cur, mode, targets, alive,
                     used, committed>>
  PROVE  TokensInv' /\ ControlInv' /\ BornInv' /\ ReplacedInv' /\ MappedInv'
<1> USE DEF ExclusiveInv, TypeInv, TypeOK, LoginLabels, LogoutLabels, PostDelete,
            PreDelete, RenewLabels, Replacing
<1>1. ret[p] = "return" /\ r \in {"collect", "return"}
  BY DEF ControlInv
<1>2. Unborn' \subseteq Unborn
  BY <1>1 DEF Unborn, BeforeBodyLabels
<1>3. TokensInv' /\ MappedInv'
  BY DEF TokensInv, MappedInv
<1>4. ControlInv'
  BY <1>1 DEF ControlInv
<1>5. BornInv'
  BY <1>1, <1>2 DEF BornInv
<1>6. ReplacedInv'
  BY <1>1 DEF ReplacedInv
<1> QED BY <1>3, <1>4, <1>5, <1>6

\* A login that finds a shared token to reuse gives its own token back.
LEMMA CheckShareBodyExclusive ==
  ASSUME ExclusiveInv, TypeInv', UNCHANGED config, NEW p \in Procs, CheckShareBody(p)
  PROVE  TokensInv' /\ ControlInv' /\ BornInv' /\ ReplacedInv' /\ MappedInv'
<1> USE DEF ExclusiveInv, TypeInv, TypeOK, LoginLabels, LogoutLabels, PostDelete,
            PreDelete, RenewLabels, Replacing
<1>1. pc[p] = "shareBody" /\ tok[p] \in Tokens
  BY DEF CheckShareBody, Holding
<1>2. CASE cur[p] \in body
  <2>1. /\ Finish(p) /\ used' = used \ {tok[p]}
        /\ UNCHANGED <<body, mapping, committed>>
    BY <1>2 DEF CheckShareBody, store
  <2>2. /\ pc' = [pc EXCEPT ![p] = "idle"]
        /\ tok' = [tok EXCEPT ![p] = NoToken] /\ before' = [before EXCEPT ![p] = NoToken]
        /\ cur' = [cur EXCEPT ![p] = NoToken] /\ mode' = [mode EXCEPT ![p] = "Logout"]
        /\ ret' = [ret EXCEPT ![p] = "return"]
        /\ targets' = [targets EXCEPT ![p] = {}] /\ alive' = [alive EXCEPT ![p] = <<>>]
    BY <2>1 DEF Finish, Goto
  <2>3. Unborn' \subseteq Unborn
    BY <1>1, <2>1, <2>2 DEF Unborn, BeforeBodyLabels
  <2>4. TokensInv'
    BY ConstantsAssumption, <1>1, <2>1, <2>2 DEF TokensInv
  <2>5. ControlInv'
    BY <2>2 DEF ControlInv
  <2>6. BornInv'
    BY <2>1, <2>2, <2>3 DEF BornInv
  <2>7. ReplacedInv' /\ MappedInv'
    BY <2>1, <2>2 DEF ReplacedInv, MappedInv
  <2> QED BY <2>4, <2>5, <2>6, <2>7
<1>3. CASE cur[p] \notin body
  <2>1. /\ pc' = [pc EXCEPT ![p] = "before"]
        /\ UNCHANGED <<body, mapping, tok, before, cur, mode, ret, targets, alive,
                       used, committed>>
    BY <1>3 DEF CheckShareBody, Goto, store, loginVars, logoutVars, listVars
  <2>2. Unborn' \subseteq Unborn
    BY <1>1, <2>1 DEF Unborn, BeforeBodyLabels
  <2>3. TokensInv' /\ ControlInv' /\ MappedInv'
    BY <1>1, <2>1 DEF TokensInv, ControlInv, MappedInv
  <2>4. BornInv'
    BY <1>1, <2>1, <2>2 DEF BornInv
  <2>5. ReplacedInv'
    BY <1>1, <2>1 DEF ReplacedInv
  <2> QED BY <2>3, <2>4, <2>5
<1> QED BY <1>2, <1>3

\* A call that starts keeps the invariant.
LEMMA BeginExclusive ==
  ASSUME ExclusiveConfig, ExclusiveInv, TypeInv', UNCHANGED config,
         NEW p \in Procs, Begin(p)
  PROVE  Parts'
<1> USE ConstantsAssumption DEF ExclusiveInv, Parts, Goto, Holding, TypeInv, TypeOK,
   LoginLabels, LogoutLabels, PostDelete,
            PreDelete, BeforeBodyLabels, RenewLabels, ReturnLabels, Replacing, store,
            loginVars, logoutVars, listVars, history
<1>1. CASE \E t \in Tokens, d \in Devices \cup {NoDevice} : Login(p, t, d)
  <2>1. Unborn' \subseteq Unborn
    BY <1>1 DEF Login, IsShare, Unborn, TokensInv, ControlInv
  <2>2. TokensInv'
    BY <1>1 DEF Login, IsShare, TokensInv, ControlInv
  <2>3. ControlInv'
    BY <1>1 DEF Login, IsShare, ControlInv, ExclusiveConfig, IsConcurrent
  <2>4. BornInv'
    BY <1>1, <2>1 DEF Login, IsShare, BornInv, ControlInv
  <2>5. ReplacedInv'
    BY <1>1 DEF Login, IsShare, ReplacedInv, TokensInv, ControlInv, MappedInv,
       ExclusiveConfig
  <2>6. MappedInv'
    BY <1>1 DEF Login, IsShare, MappedInv, ReplacedInv, BornInv, TokensInv,
       ControlInv
  <2> QED BY <2>2, <2>3, <2>4, <2>5, <2>6
<1>2. CASE \E t \in Tokens : Logout(p, t)
  <2>1. Unborn' \subseteq Unborn
    BY <1>2 DEF Logout, TokenCall, StartLogout, LogoutEntry, Unborn, TokensInv,
       ControlInv
  <2>2. ControlInv'
    BY <1>2 DEF Logout, TokenCall, StartLogout, LogoutEntry, ControlInv,
       ExclusiveConfig, IsConcurrent
  <2>3. BornInv'
    BY <1>2, <2>1 DEF Logout, TokenCall, StartLogout, LogoutEntry, BornInv,
       ControlInv
  <2>4. ReplacedInv'
    BY <1>2 DEF Logout, TokenCall, StartLogout, LogoutEntry, ReplacedInv,
       TokensInv, ControlInv, MappedInv, ExclusiveConfig
  <2>5. UNCHANGED <<used, committed, tok, body, mapping>>
    BY <1>2 DEF Logout, TokenCall, StartLogout, LogoutEntry
  <2> QED BY <2>2, <2>3, <2>4, <2>5, Untouched
<1>3. CASE \E t \in Tokens : KickOutByToken(p, t)
  <2>1. Unborn' \subseteq Unborn
    BY <1>3 DEF KickOutByToken, TokenCall, StartLogout, Unborn, TokensInv,
       ControlInv
  <2>2. ControlInv'
    BY <1>3 DEF KickOutByToken, TokenCall, StartLogout, ControlInv,
       ExclusiveConfig, IsConcurrent
  <2>3. BornInv'
    BY <1>3, <2>1 DEF KickOutByToken, TokenCall, StartLogout, BornInv,
       ControlInv
  <2>4. ReplacedInv'
    BY <1>3 DEF KickOutByToken, TokenCall, StartLogout, ReplacedInv, TokensInv,
       ControlInv, MappedInv, ExclusiveConfig
  <2>5. UNCHANGED <<used, committed, tok, body, mapping>>
    BY <1>3 DEF KickOutByToken, TokenCall, StartLogout
  <2> QED BY <2>2, <2>3, <2>4, <2>5, Untouched
<1>4. CASE \E t \in Tokens : ReplacedByToken(p, t)
  <2>1. Unborn' \subseteq Unborn
    BY <1>4 DEF ReplacedByToken, TokenCall, StartLogout, Unborn, TokensInv,
       ControlInv
  <2>2. ControlInv'
    BY <1>4 DEF ReplacedByToken, TokenCall, StartLogout, ControlInv,
       ExclusiveConfig, IsConcurrent
  <2>3. BornInv'
    BY <1>4, <2>1 DEF ReplacedByToken, TokenCall, StartLogout, BornInv,
       ControlInv
  <2>4. ReplacedInv'
    BY <1>4 DEF ReplacedByToken, TokenCall, StartLogout, ReplacedInv, TokensInv,
       ControlInv, MappedInv, ExclusiveConfig
  <2>5. UNCHANGED <<used, committed, tok, body, mapping>>
    BY <1>4 DEF ReplacedByToken, TokenCall, StartLogout
  <2> QED BY <2>2, <2>3, <2>4, <2>5, Untouched
<1>5. CASE \E t \in Tokens : Renew(p, t)
  BY <1>5 DEF ExclusiveConfig, ControlInv, Renew
<1>6. CASE LogoutByLoginId(p)
  <2>1. Unborn' \subseteq Unborn
    BY <1>6 DEF LogoutByLoginId, AccountCall, CollectInto, Live, Unborn,
       TokensInv, ControlInv
  <2>2. ControlInv'
    BY <1>6 DEF LogoutByLoginId, AccountCall, CollectInto, Live, ControlInv,
       ExclusiveConfig, IsConcurrent
  <2>3. BornInv'
    BY <1>6, <2>1 DEF LogoutByLoginId, AccountCall, CollectInto, Live, BornInv,
       ControlInv
  <2>4. ReplacedInv'
    BY <1>6 DEF LogoutByLoginId, AccountCall, CollectInto, Live, ReplacedInv,
       TokensInv, ControlInv, MappedInv, ExclusiveConfig
  <2>5. UNCHANGED <<used, committed, tok, body, mapping>>
    BY <1>6 DEF LogoutByLoginId, AccountCall, CollectInto, Live
  <2> QED BY <2>2, <2>3, <2>4, <2>5, Untouched
<1>7. CASE KickOut(p)
  <2>1. Unborn' \subseteq Unborn
    BY <1>7 DEF KickOut, AccountCall, CollectInto, Live, Unborn, TokensInv,
       ControlInv
  <2>2. ControlInv'
    BY <1>7 DEF KickOut, AccountCall, CollectInto, Live, ControlInv,
       ExclusiveConfig, IsConcurrent
  <2>3. BornInv'
    BY <1>7, <2>1 DEF KickOut, AccountCall, CollectInto, Live, BornInv,
       ControlInv
  <2>4. ReplacedInv'
    BY <1>7 DEF KickOut, AccountCall, CollectInto, Live, ReplacedInv, TokensInv,
       ControlInv, MappedInv, ExclusiveConfig
  <2>5. UNCHANGED <<used, committed, tok, body, mapping>>
    BY <1>7 DEF KickOut, AccountCall, CollectInto, Live
  <2> QED BY <2>2, <2>3, <2>4, <2>5, Untouched
<1> QED BY <1>1, <1>2, <1>3, <1>4, <1>5, <1>6, <1>7 DEF Begin

\* Every step of a login keeps the invariant: the commit is the step that needs
\* ReplacedInv, the writes before it are the ones that need Unborn.
LEMMA LoginStepExclusive ==
  ASSUME ExclusiveConfig, ExclusiveInv, TypeInv', UNCHANGED config,
         NEW p \in Procs, LoginStep(p)
  PROVE  Parts'
<1> USE ConstantsAssumption DEF ExclusiveInv, Parts, Goto, Holding, TypeInv, TypeOK,
   LoginLabels, LogoutLabels, PostDelete,
            PreDelete, BeforeBodyLabels, RenewLabels, ReturnLabels, Replacing, store,
            loginVars, logoutVars, listVars, history
<1>1. CASE ReadShare(p)
  <2>1. Unborn' \subseteq Unborn
    BY <1>1 DEF ReadShare, Unborn, TokensInv, ControlInv
  <2>2. ControlInv'
    BY <1>1 DEF ReadShare, ControlInv, ExclusiveConfig, IsConcurrent
  <2>3. BornInv'
    BY <1>1, <2>1 DEF ReadShare, BornInv, ControlInv
  <2>4. ReplacedInv'
    BY <1>1 DEF ReadShare, ReplacedInv, TokensInv, ControlInv, MappedInv,
       ExclusiveConfig
  <2>5. UNCHANGED <<used, committed, tok, body, mapping>>
    BY <1>1 DEF ReadShare
  <2> QED BY <2>2, <2>3, <2>4, <2>5, Untouched
<1>2. CASE CheckShareMark(p)
  <2>1. Unborn' \subseteq Unborn
    BY <1>2 DEF CheckShareMark, Marked, Unborn, TokensInv, ControlInv
  <2>2. ControlInv'
    BY <1>2 DEF CheckShareMark, Marked, ControlInv, ExclusiveConfig,
       IsConcurrent
  <2>3. BornInv'
    BY <1>2, <2>1 DEF CheckShareMark, Marked, BornInv, ControlInv
  <2>4. ReplacedInv'
    BY <1>2 DEF CheckShareMark, Marked, ReplacedInv, TokensInv, ControlInv,
       MappedInv, ExclusiveConfig
  <2>5. UNCHANGED <<used, committed, tok, body, mapping>>
    BY <1>2 DEF CheckShareMark, Marked
  <2> QED BY <2>2, <2>3, <2>4, <2>5, Untouched
<1>3. CASE CheckShareBody(p)
  BY <1>3, CheckShareBodyExclusive
<1>4. CASE ReadBefore(p)
  <2>1. Unborn' \subseteq Unborn
    BY <1>4 DEF ReadBefore, IsConcurrent, Unborn, TokensInv, ControlInv
  <2>2. ControlInv'
    BY <1>4 DEF ReadBefore, IsConcurrent, ControlInv, ExclusiveConfig,
       IsConcurrent
  <2>3. BornInv'
    BY <1>4, <2>1 DEF ReadBefore, IsConcurrent, BornInv, ControlInv
  <2>4. ReplacedInv'
    BY <1>4 DEF ReadBefore, IsConcurrent, ReplacedInv, TokensInv, ControlInv,
       MappedInv, ExclusiveConfig
  <2>5. UNCHANGED <<used, committed, tok, body, mapping>>
    BY <1>4 DEF ReadBefore, IsConcurrent
  <2> QED BY <2>2, <2>3, <2>4, <2>5, Untouched
<1>5. CASE ListTerminals(p)
  BY <1>5 DEF ExclusiveConfig, ControlInv, ListTerminals, PerDevice,
     ReplacedRange
<1>6. CASE ListTokens(p)
  <2>1. Unborn' \subseteq Unborn
    BY <1>6 DEF ListTokens, Unborn, TokensInv, ControlInv
  <2>2. ControlInv'
    BY <1>6 DEF ListTokens, ControlInv, ExclusiveConfig, IsConcurrent
  <2>3. BornInv'
    BY <1>6, <2>1 DEF ListTokens, BornInv, ControlInv
  <2>4. ReplacedInv'
    BY <1>6 DEF ListTokens, ReplacedInv, TokensInv, ControlInv, MappedInv,
       ExclusiveConfig
  <2>5. UNCHANGED <<used, committed, tok, body, mapping>>
    BY <1>6 DEF ListTokens
  <2> QED BY <2>2, <2>3, <2>4, <2>5, Untouched
<1>7. CASE AddMappingTarget(p)
  <2>1. Unborn' \subseteq Unborn
    BY <1>7 DEF AddMappingTarget, Replace, Unborn, TokensInv, ControlInv
  <2>2. ControlInv'
    BY <1>7 DEF AddMappingTarget, Replace, ControlInv, ExclusiveConfig,
       IsConcurrent
  <2>3. BornInv'
    BY <1>7, <2>1 DEF AddMappingTarget, Replace, BornInv, ControlInv
  <2>4. ReplacedInv'
    <3>1. mapping \in committed => mapping # tok[p]
      BY <1>7 DEF AddMappingTarget, TokensInv, MappedInv
    <3>2. PICK l \in {"appendIndex", "rollback", "replaceNext"} :
            pc' = [pc EXCEPT ![p] = l]
      BY <1>7 DEF AddMappingTarget, Replace
    <3>3. CASE mapping = NoToken
      BY <1>7, <3>2, <3>3 DEF AddMappingTarget, ReplacedInv
    <3>4. CASE mapping # NoToken
      <4>1. /\ mapping \in committed
            /\ mapping \in (targets[p] \cup ({mapping} \ {NoToken})) \ {tok[p]}
        BY <3>1, <3>4 DEF MappedInv
      <4>2. l # "appendIndex"
        BY <1>7, <3>2, <4>1 DEF AddMappingTarget, Replace
      <4>3. l = "replaceNext" => mapping \in targets'[p]
        BY <1>7, <3>2, <4>1 DEF AddMappingTarget, Replace, ExitMode, Config
      <4> QED BY <1>7, <3>2, <4>2, <4>3 DEF AddMappingTarget, Replace, ReplacedInv
    <3> QED BY <3>3, <3>4
  <2>5. UNCHANGED <<used, committed, tok, body, mapping>>
    BY <1>7 DEF AddMappingTarget, Replace
  <2> QED BY <2>2, <2>3, <2>4, <2>5, Untouched
<1>8. CASE \E t \in Tokens : ReplaceOne(p, t)
  <2>1. Unborn' \subseteq Unborn
    BY <1>8 DEF ReplaceOne, StartLogout, Unborn, TokensInv, ControlInv
  <2>2. ControlInv'
    BY <1>8 DEF ReplaceOne, StartLogout, ControlInv, ExclusiveConfig,
       IsConcurrent
  <2>3. BornInv'
    BY <1>8, <2>1 DEF ReplaceOne, StartLogout, BornInv, ControlInv
  <2>4. ReplacedInv'
    BY <1>8 DEF ReplaceOne, StartLogout, ReplacedInv, TokensInv, ControlInv,
       MappedInv, ExclusiveConfig
  <2>5. UNCHANGED <<used, committed, tok, body, mapping>>
    BY <1>8 DEF ReplaceOne, StartLogout
  <2> QED BY <2>2, <2>3, <2>4, <2>5, Untouched
<1>9. CASE ReplaceDone(p)
  <2>1. Unborn' \subseteq Unborn
    BY <1>9 DEF ReplaceDone, Unborn, TokensInv, ControlInv
  <2>2. ControlInv'
    BY <1>9 DEF ReplaceDone, ControlInv, ExclusiveConfig, IsConcurrent
  <2>3. BornInv'
    BY <1>9, <2>1 DEF ReplaceDone, BornInv, ControlInv
  <2>4. ReplacedInv'
    BY <1>9 DEF ReplaceDone, ReplacedInv, TokensInv, ControlInv, MappedInv,
       ExclusiveConfig
  <2>5. UNCHANGED <<used, committed, tok, body, mapping>>
    BY <1>9 DEF ReplaceDone
  <2> QED BY <2>2, <2>3, <2>4, <2>5, Untouched
<1>10. CASE AppendIndex(p)
  <2>1. Unborn' \subseteq Unborn
    BY <1>10 DEF AppendIndex, PushUnique, Register, Unborn, TokensInv,
       ControlInv
  <2>2. ControlInv'
    BY <1>10 DEF AppendIndex, PushUnique, Register, ControlInv, ExclusiveConfig,
       IsConcurrent
  <2>3. BornInv'
    BY <1>10, <2>1 DEF AppendIndex, PushUnique, Register, BornInv, ControlInv
  <2>4. ReplacedInv'
    BY <1>10 DEF AppendIndex, PushUnique, Register, ReplacedInv, TokensInv,
       ControlInv, MappedInv, ExclusiveConfig
  <2>5. UNCHANGED <<used, committed, tok, body, mapping>>
    BY <1>10 DEF AppendIndex, PushUnique, Register
  <2> QED BY <2>2, <2>3, <2>4, <2>5, Untouched
<1>11. CASE Snapshot(p)
  <2>1. Unborn' \subseteq Unborn
    BY <1>11 DEF Snapshot, Register, Unborn, TokensInv, ControlInv
  <2>2. ControlInv'
    BY <1>11 DEF Snapshot, Register, ControlInv, ExclusiveConfig, IsConcurrent
  <2>3. BornInv'
    BY <1>11, <2>1 DEF Snapshot, Register, BornInv, ControlInv
  <2>4. ReplacedInv'
    BY <1>11 DEF Snapshot, Register, ReplacedInv, TokensInv, ControlInv,
       MappedInv, ExclusiveConfig
  <2>5. UNCHANGED <<used, committed, tok, body, mapping>>
    BY <1>11 DEF Snapshot, Register
  <2> QED BY <2>2, <2>3, <2>4, <2>5, Untouched
<1>12. CASE ReadSession(p)
  <2>1. Unborn' \subseteq Unborn
    BY <1>12 DEF ReadSession, Unborn, TokensInv, ControlInv
  <2>2. ControlInv'
    BY <1>12 DEF ReadSession, ControlInv, ExclusiveConfig, IsConcurrent
  <2>3. BornInv'
    BY <1>12, <2>1 DEF ReadSession, BornInv, ControlInv
  <2>4. ReplacedInv'
    BY <1>12 DEF ReadSession, ReplacedInv, TokensInv, ControlInv, MappedInv,
       ExclusiveConfig
  <2>5. UNCHANGED <<used, committed, tok, body, mapping>>
    BY <1>12 DEF ReadSession
  <2> QED BY <2>2, <2>3, <2>4, <2>5, Untouched
<1>13. CASE SaveSession(p)
  <2>1. Unborn' \subseteq Unborn
    BY <1>13 DEF SaveSession, Unborn, TokensInv, ControlInv
  <2>2. ControlInv'
    BY <1>13 DEF SaveSession, ControlInv, ExclusiveConfig, IsConcurrent
  <2>3. BornInv'
    BY <1>13, <2>1 DEF SaveSession, BornInv, ControlInv
  <2>4. ReplacedInv'
    BY <1>13 DEF SaveSession, ReplacedInv, TokensInv, ControlInv, MappedInv,
       ExclusiveConfig
  <2>5. UNCHANGED <<used, committed, tok, body, mapping>>
    BY <1>13 DEF SaveSession
  <2> QED BY <2>2, <2>3, <2>4, <2>5, Untouched
<1>14. CASE SaveTokenId(p)
  <2>1. Unborn' \subseteq Unborn
    BY <1>14 DEF SaveTokenId, Register, Unborn, TokensInv, ControlInv
  <2>2. ControlInv'
    BY <1>14 DEF SaveTokenId, Register, ControlInv, ExclusiveConfig,
       IsConcurrent
  <2>3. BornInv'
    BY <1>14, <2>1 DEF SaveTokenId, Register, BornInv, ControlInv
  <2>4. ReplacedInv'
    BY <1>14 DEF SaveTokenId, Register, ReplacedInv, TokensInv, ControlInv,
       MappedInv, ExclusiveConfig
  <2>5. UNCHANGED <<used, committed, tok, body, mapping>>
    BY <1>14 DEF SaveTokenId, Register
  <2> QED BY <2>2, <2>3, <2>4, <2>5, Untouched
<1>15. CASE SaveBody(p)
  <2>1. Unborn' \subseteq Unborn
    BY <1>15 DEF SaveBody, Register, Unborn, TokensInv, ControlInv
  <2>2. TokensInv'
    BY <1>15 DEF SaveBody, Register, TokensInv, ControlInv
  <2>3. ControlInv'
    BY <1>15 DEF SaveBody, Register, ControlInv, ExclusiveConfig, IsConcurrent
  <2>4. BornInv'
    <3>1. tok[p] \in Unborn /\ tok[p] \notin committed
      BY <1>15 DEF SaveBody, Unborn, TokensInv
    <3>2. tok[p] \notin Unborn'
      BY <1>15 DEF SaveBody, Unborn, TokensInv
    <3> QED BY <1>15, <2>1, <3>1, <3>2 DEF SaveBody, BornInv
  <2>5. ReplacedInv'
    BY <1>15 DEF SaveBody, Register, ReplacedInv, TokensInv, ControlInv,
       MappedInv, ExclusiveConfig
  <2>6. MappedInv'
    BY <1>15 DEF SaveBody, Register, MappedInv, ReplacedInv, BornInv, TokensInv,
       ControlInv
  <2> QED BY <2>2, <2>3, <2>4, <2>5, <2>6
<1>16. CASE CommitConcurrent(p)
  BY <1>16 DEF ExclusiveConfig, ControlInv, CommitConcurrent, IsConcurrent
<1>17. CASE CommitCas(p)
  <2>1. committed \cap body = {}
    BY <1>17 DEF CommitCas, MappedInv, ReplacedInv
  <2> QED BY <1>17, <2>1, CommitExclusive DEF CommitCas
<1>18. CASE CasRefused(p)
  <2>1. Unborn' \subseteq Unborn
    BY <1>18 DEF CasRefused, Unborn, TokensInv, ControlInv
  <2>2. ControlInv'
    BY <1>18 DEF CasRefused, ControlInv, ExclusiveConfig, IsConcurrent
  <2>3. BornInv'
    BY <1>18, <2>1 DEF CasRefused, BornInv, ControlInv
  <2>4. ReplacedInv'
    BY <1>18 DEF CasRefused, ReplacedInv, TokensInv, ControlInv, MappedInv,
       ExclusiveConfig
  <2>5. UNCHANGED <<used, committed, tok, body, mapping>>
    BY <1>18 DEF CasRefused
  <2> QED BY <2>2, <2>3, <2>4, <2>5, Untouched
<1>19. CASE CommitAbsent(p)
  <2>1. committed \cap body = {}
    BY <1>19 DEF CommitAbsent, MappedInv
  <2> QED BY <1>19, <2>1, CommitExclusive DEF CommitAbsent
<1>20. CASE CasLost(p)
  <2>1. Unborn' \subseteq Unborn
    BY <1>20 DEF CasLost, Unborn, TokensInv, ControlInv
  <2>2. ControlInv'
    BY <1>20 DEF CasLost, ControlInv, ExclusiveConfig, IsConcurrent
  <2>3. BornInv'
    BY <1>20, <2>1 DEF CasLost, BornInv, ControlInv
  <2>4. ReplacedInv'
    BY <1>20 DEF CasLost, ReplacedInv, TokensInv, ControlInv, MappedInv,
       ExclusiveConfig
  <2>5. UNCHANGED <<used, committed, tok, body, mapping>>
    BY <1>20 DEF CasLost
  <2> QED BY <2>2, <2>3, <2>4, <2>5, Untouched
<1>21. CASE Rollback(p)
  <2>1. Unborn' \subseteq Unborn
    BY <1>21 DEF Rollback, Undo, Unborn, TokensInv, ControlInv
  <2>2. TokensInv'
    BY <1>21 DEF Rollback, Undo, TokensInv, ControlInv
  <2>3. ControlInv'
    BY <1>21 DEF Rollback, Undo, ControlInv, ExclusiveConfig, IsConcurrent
  <2>4. BornInv'
    BY <1>21, <2>1 DEF Rollback, Undo, BornInv, ControlInv
  <2>5. ReplacedInv'
    BY <1>21 DEF Rollback, Undo, ReplacedInv, TokensInv, ControlInv, MappedInv,
       ExclusiveConfig
  <2>6. MappedInv'
    BY <1>21 DEF Rollback, Undo, MappedInv, ReplacedInv, BornInv, TokensInv,
       ControlInv
  <2> QED BY <2>2, <2>3, <2>4, <2>5, <2>6
<1>22. CASE RolledBack(p)
  <2>1. Unborn' \subseteq Unborn
    BY <1>22 DEF RolledBack, Finish, Unborn, TokensInv, ControlInv
  <2>2. TokensInv'
    BY <1>22 DEF RolledBack, Finish, TokensInv, ControlInv
  <2>3. ControlInv'
    BY <1>22 DEF RolledBack, Finish, ControlInv, ExclusiveConfig, IsConcurrent
  <2>4. BornInv'
    BY SMTT(30), <1>22, <2>1 DEF RolledBack, Finish, BornInv, ControlInv
  <2>5. ReplacedInv'
    BY <1>22 DEF RolledBack, Finish, ReplacedInv, TokensInv, ControlInv,
       MappedInv, ExclusiveConfig
  <2>6. MappedInv'
    BY <1>22 DEF RolledBack, Finish, MappedInv, ReplacedInv, BornInv, TokensInv,
       ControlInv
  <2> QED BY <2>2, <2>3, <2>4, <2>5, <2>6
<1> QED BY <1>1, <1>2, <1>3, <1>4, <1>5, <1>6, <1>7, <1>8, <1>9, <1>10, <1>11, <1>12,
   <1>13, <1>14, <1>15, <1>16, <1>17, <1>18, <1>19, <1>20, <1>21, <1>22 DEF
   LoginStep

\* Every step of logout_internal keeps the invariant: its token has been born, so
\* a body it deletes is never written again.
LEMMA LogoutStepExclusive ==
  ASSUME ExclusiveConfig, ExclusiveInv, TypeInv', UNCHANGED config,
         NEW p \in Procs, LogoutStep(p)
  PROVE  Parts'
<1> USE ConstantsAssumption DEF ExclusiveInv, Parts, Goto, Holding, TypeInv, TypeOK,
   LoginLabels, LogoutLabels, PostDelete,
            PreDelete, BeforeBodyLabels, RenewLabels, ReturnLabels, Replacing, store,
            loginVars, logoutVars, listVars, history
<1>1. CASE RangeBody(p)
  <2>1. PICK l \in {"listIndex", "rangeId"}, r \in ReturnLabels :
          /\ pc' = [pc EXCEPT ![p] = l] /\ ret' = [ret EXCEPT ![p] = r]
          /\ r = IF l = "listIndex" THEN "collect" ELSE ret[p]
    BY <1>1 DEF RangeBody, CollectInto
  <2>2. /\ pc[p] = "rangeBody"
        /\ UNCHANGED <<body, mapping, tok, before, cur, mode, targets, alive,
                       used, committed>>
    BY <1>1 DEF RangeBody
  <2> QED BY <2>1, <2>2, RangeMove
<1>2. CASE RangeId(p)
  <2>1. PICK l \in {"listIndex", "resolveBody"}, r \in ReturnLabels :
          /\ pc' = [pc EXCEPT ![p] = l] /\ ret' = [ret EXCEPT ![p] = r]
          /\ r = IF l = "listIndex" THEN "collect" ELSE ret[p]
    BY <1>2 DEF RangeId, CollectInto
  <2>2. /\ pc[p] = "rangeId"
        /\ UNCHANGED <<body, mapping, tok, before, cur, mode, targets, alive,
                       used, committed>>
    BY <1>2 DEF RangeId
  <2> QED BY <2>1, <2>2, RangeMove
<1>3. CASE ResolveBody(p)
  <2>1. Unborn' \subseteq Unborn
    BY <1>3 DEF ResolveBody, Unborn, TokensInv, ControlInv
  <2>2. ControlInv'
    BY <1>3 DEF ResolveBody, ControlInv, ExclusiveConfig, IsConcurrent
  <2>3. BornInv'
    BY <1>3, <2>1 DEF ResolveBody, BornInv, ControlInv
  <2>4. ReplacedInv'
    BY <1>3 DEF ResolveBody, ReplacedInv, TokensInv, ControlInv, MappedInv,
       ExclusiveConfig
  <2>5. UNCHANGED <<used, committed, tok, body, mapping>>
    BY <1>3 DEF ResolveBody
  <2> QED BY <2>2, <2>3, <2>4, <2>5, Untouched
<1>4. CASE ResolveId(p)
  <2>1. Unborn' \subseteq Unborn
    BY <1>4 DEF ResolveId, Unborn, TokensInv, ControlInv
  <2>2. ControlInv'
    BY <1>4 DEF ResolveId, ControlInv, ExclusiveConfig, IsConcurrent
  <2>3. BornInv'
    BY <1>4, <2>1 DEF ResolveId, BornInv, ControlInv
  <2>4. ReplacedInv'
    BY <1>4 DEF ResolveId, ReplacedInv, TokensInv, ControlInv, MappedInv,
       ExclusiveConfig
  <2>5. UNCHANGED <<used, committed, tok, body, mapping>>
    BY <1>4 DEF ResolveId
  <2> QED BY <2>2, <2>3, <2>4, <2>5, Untouched
<1>5. CASE DeleteBody(p)
  <2>1. Unborn' \subseteq Unborn
    BY <1>5 DEF DeleteBody, Unborn, TokensInv, ControlInv
  <2>2. TokensInv'
    BY <1>5 DEF DeleteBody, TokensInv, ControlInv
  <2>3. ControlInv'
    BY <1>5 DEF DeleteBody, ControlInv, ExclusiveConfig, IsConcurrent
  <2>4. BornInv'
    BY <1>5, <2>1 DEF DeleteBody, BornInv, ControlInv
  <2>5. ReplacedInv'
    BY <1>5 DEF DeleteBody, ReplacedInv, TokensInv, ControlInv, MappedInv,
       ExclusiveConfig
  <2>6. MappedInv'
    BY <1>5 DEF DeleteBody, MappedInv, ReplacedInv, BornInv, TokensInv,
       ControlInv
  <2> QED BY <2>2, <2>3, <2>4, <2>5, <2>6
<1>6. CASE Mark(p)
  <2>1. pc[p] \in PostDelete /\ TokensInv /\ ControlInv
    BY <1>6 DEF Mark
  <2>2. PICK l \in {"removeIndex", ret[p]} :
          pc' = [pc EXCEPT ![p] = l] /\ (l = "casDelete" => mode[p] = "Logout")
    BY <1>6 DEF Mark
  <2>3. /\ mapping' \in {mapping, NoToken}
        /\ UNCHANGED <<body, tok, before, cur, mode, ret, targets, alive, used,
           committed>>
    BY <1>6 DEF Mark
  <2>4. MappedInv'
    BY <1>6, <2>3 DEF Mark, MappedInv
  <2> QED BY <2>1, <2>2, <2>3, <2>4, LogoutMove
<1>7. CASE RemoveIndex(p)
  <2>1. pc[p] \in PostDelete /\ TokensInv /\ ControlInv
    BY <1>7 DEF RemoveIndex
  <2>2. PICK l \in {"readTerminals"} :
          pc' = [pc EXCEPT ![p] = l] /\ (l = "casDelete" => mode[p] = "Logout")
    BY <1>7 DEF RemoveIndex
  <2>3. /\ mapping' \in {mapping, NoToken}
        /\ UNCHANGED <<body, tok, before, cur, mode, ret, targets, alive, used,
           committed>>
    BY <1>7 DEF RemoveIndex
  <2>4. MappedInv'
    BY <1>7, <2>3 DEF RemoveIndex, MappedInv
  <2> QED BY <2>1, <2>2, <2>3, <2>4, LogoutMove
<1>8. CASE ReadTerminals(p)
  <2>1. pc[p] \in PostDelete /\ TokensInv /\ ControlInv
    BY <1>8 DEF ReadTerminals
  <2>2. PICK l \in {"saveTerminals", "casDelete", ret[p]} :
          pc' = [pc EXCEPT ![p] = l] /\ (l = "casDelete" => mode[p] = "Logout")
    BY <1>8 DEF ReadTerminals, AfterTerminals
  <2>3. /\ mapping' \in {mapping, NoToken}
        /\ UNCHANGED <<body, tok, before, cur, mode, ret, targets, alive, used,
           committed>>
    BY <1>8 DEF ReadTerminals
  <2>4. MappedInv'
    BY <1>8, <2>3 DEF ReadTerminals, MappedInv
  <2> QED BY <2>1, <2>2, <2>3, <2>4, LogoutMove
<1>9. CASE SaveTerminals(p)
  <2>1. pc[p] \in PostDelete /\ TokensInv /\ ControlInv
    BY <1>9 DEF SaveTerminals
  <2>2. PICK l \in {"countTerminals"} :
          pc' = [pc EXCEPT ![p] = l] /\ (l = "casDelete" => mode[p] = "Logout")
    BY <1>9 DEF SaveTerminals
  <2>3. /\ mapping' \in {mapping, NoToken}
        /\ UNCHANGED <<body, tok, before, cur, mode, ret, targets, alive, used,
           committed>>
    BY <1>9 DEF SaveTerminals
  <2>4. MappedInv'
    BY <1>9, <2>3 DEF SaveTerminals, MappedInv
  <2> QED BY <2>1, <2>2, <2>3, <2>4, LogoutMove
<1>10. CASE CountTerminals(p)
  <2>1. pc[p] \in PostDelete /\ TokensInv /\ ControlInv
    BY <1>10 DEF CountTerminals
  <2>2. PICK l \in {"deleteSession", "casDelete", ret[p]} :
          pc' = [pc EXCEPT ![p] = l] /\ (l = "casDelete" => mode[p] = "Logout")
    BY <1>10 DEF CountTerminals, AfterTerminals
  <2>3. /\ mapping' \in {mapping, NoToken}
        /\ UNCHANGED <<body, tok, before, cur, mode, ret, targets, alive, used,
           committed>>
    BY <1>10 DEF CountTerminals
  <2>4. MappedInv'
    BY <1>10, <2>3 DEF CountTerminals, MappedInv
  <2> QED BY <2>1, <2>2, <2>3, <2>4, LogoutMove
<1>11. CASE DeleteSession(p)
  <2>1. pc[p] \in PostDelete /\ TokensInv /\ ControlInv
    BY <1>11 DEF DeleteSession
  <2>2. PICK l \in {"casDelete", ret[p]} :
          pc' = [pc EXCEPT ![p] = l] /\ (l = "casDelete" => mode[p] = "Logout")
    BY <1>11 DEF DeleteSession, AfterTerminals
  <2>3. /\ mapping' \in {mapping, NoToken}
        /\ UNCHANGED <<body, tok, before, cur, mode, ret, targets, alive, used,
           committed>>
    BY <1>11 DEF DeleteSession
  <2>4. MappedInv'
    BY <1>11, <2>3 DEF DeleteSession, MappedInv
  <2> QED BY <2>1, <2>2, <2>3, <2>4, LogoutMove
<1>12. CASE CasDelete(p)
  <2>1. pc[p] \in PostDelete /\ TokensInv /\ ControlInv
    BY <1>12 DEF CasDelete
  <2>2. PICK l \in {ret[p]} :
          pc' = [pc EXCEPT ![p] = l] /\ (l = "casDelete" => mode[p] = "Logout")
    BY <1>12 DEF CasDelete
  <2>3. /\ mapping' \in {mapping, NoToken}
        /\ UNCHANGED <<body, tok, before, cur, mode, ret, targets, alive, used,
           committed>>
    BY <1>12 DEF CasDelete
  <2>4. MappedInv'
    <3>1. cur[p] \notin body
      BY <1>12 DEF CasDelete, BornInv, ControlInv
    <3> QED
      BY <1>12, <3>1 DEF CasDelete, MappedInv
  <2> QED BY <2>1, <2>2, <2>3, <2>4, LogoutMove
<1> QED BY <1>1, <1>2, <1>3, <1>4, <1>5, <1>6, <1>7, <1>8, <1>9, <1>10, <1>11, <1>12 DEF
   LogoutStep

\* Appending an element from outside a set to a sequence outside it.
LEMMA AppendAvoids ==
  ASSUME NEW S, NEW s \in Seq(Tokens), NEW e \in Tokens, e \notin S,
         \A i \in DOMAIN s : s[i] \notin S
  PROVE  \A i \in DOMAIN Append(s, e) : Append(s, e)[i] \notin S
OBVIOUS

\* Every step of an account-wide call keeps the invariant: what it lists is born.
LEMMA AccountStepExclusive ==
  ASSUME ExclusiveConfig, ExclusiveInv, TypeInv', UNCHANGED config,
         NEW p \in Procs, AccountStep(p)
  PROVE  Parts'
<1> USE ConstantsAssumption DEF ExclusiveInv, Parts, Goto, Holding, TypeInv, TypeOK,
   LoginLabels, LogoutLabels, PostDelete,
            PreDelete, BeforeBodyLabels, RenewLabels, ReturnLabels, Replacing, store,
            loginVars, logoutVars, listVars, history
<1>1. CASE ListIndex(p)
  <2>1. Unborn' \subseteq Unborn
    BY <1>1 DEF ListIndex, Unborn, TokensInv, ControlInv
  <2>2. ControlInv'
    BY <1>1 DEF ListIndex, ControlInv, ExclusiveConfig, IsConcurrent
  <2>3. BornInv'
    BY <1>1, <2>1 DEF ListIndex, BornInv, ControlInv
  <2>4. ReplacedInv'
    BY <1>1 DEF ListIndex, ReplacedInv, TokensInv, ControlInv, MappedInv,
       ExclusiveConfig
  <2>5. UNCHANGED <<used, committed, tok, body, mapping>>
    BY <1>1 DEF ListIndex
  <2> QED BY <2>2, <2>3, <2>4, <2>5, Untouched
<1>2. CASE Probe(p)
  <2>1. Unborn' \subseteq Unborn
    BY <1>2 DEF Probe, Unborn, TokensInv, ControlInv
  <2>2. ControlInv'
    BY <1>2 DEF Probe, ControlInv, ExclusiveConfig, IsConcurrent
  <2>3. BornInv'
    <3>1. /\ alive[p] \in Seq(Tokens) /\ Head(probe[p]) \in Tokens
          /\ \A i \in DOMAIN alive[p] : alive[p][i] \notin Unborn
      BY <1>2 DEF Probe, BornInv
    <3>2. CASE Head(probe[p]) \in body
      <4>1. /\ alive' = [alive EXCEPT ![p] = Append(alive[p], Head(probe[p]))]
            /\ pc' = pc /\ UNCHANGED <<body, committed, cur, ret, targets>>
        BY <1>2, <3>2 DEF Probe
      <4>2. \A i \in DOMAIN Append(alive[p], Head(probe[p])) :
              Append(alive[p], Head(probe[p]))[i] \notin Unborn
        <5>1. Head(probe[p]) \notin Unborn
          BY <3>2 DEF BornInv
        <5> HIDE DEF TypeInv, ExclusiveInv
        <5> QED BY <3>1, <5>1, AppendAvoids
      <4> QED BY SMTT(30), <2>1, <4>1, <4>2 DEF BornInv
    <3>3. CASE Head(probe[p]) \notin body
      <4>1. pc' = [pc EXCEPT ![p] = "prune"] /\ pc[p] = "probe"
            /\ UNCHANGED <<body, committed, cur, ret, targets, alive>>
        BY <1>2, <3>3 DEF Probe
      <4> QED BY <2>1, <4>1 DEF BornInv
    <3> QED BY <3>2, <3>3
  <2>4. ReplacedInv'
    BY <1>2 DEF Probe, ReplacedInv, TokensInv, ControlInv, MappedInv,
       ExclusiveConfig
  <2>5. UNCHANGED <<used, committed, tok, body, mapping>>
    BY <1>2 DEF Probe
  <2> QED BY <2>2, <2>3, <2>4, <2>5, Untouched
<1>3. CASE Prune(p)
  <2>1. Unborn' \subseteq Unborn
    BY <1>3 DEF Prune, Unborn, TokensInv, ControlInv
  <2>2. ControlInv'
    BY <1>3 DEF Prune, ControlInv, ExclusiveConfig, IsConcurrent
  <2>3. BornInv'
    BY <1>3, <2>1 DEF Prune, BornInv, ControlInv
  <2>4. ReplacedInv'
    BY <1>3 DEF Prune, ReplacedInv, TokensInv, ControlInv, MappedInv,
       ExclusiveConfig
  <2>5. UNCHANGED <<used, committed, tok, body, mapping>>
    BY <1>3 DEF Prune
  <2> QED BY <2>2, <2>3, <2>4, <2>5, Untouched
<1>4. CASE PruneDone(p)
  <2>1. Unborn' \subseteq Unborn
    BY <1>4 DEF PruneDone, Unborn, TokensInv, ControlInv
  <2>2. ControlInv'
    BY <1>4 DEF PruneDone, ControlInv, ExclusiveConfig, IsConcurrent
  <2>3. BornInv'
    BY <1>4, <2>1 DEF PruneDone, BornInv, ControlInv
  <2>4. ReplacedInv'
    BY <1>4 DEF PruneDone, ReplacedInv, TokensInv, ControlInv, MappedInv,
       ExclusiveConfig
  <2>5. UNCHANGED <<used, committed, tok, body, mapping>>
    BY <1>4 DEF PruneDone
  <2> QED BY <2>2, <2>3, <2>4, <2>5, Untouched
<1>5. CASE Enforce(p)
  BY <1>5 DEF ExclusiveConfig, ControlInv, Enforce
<1>6. CASE \E t \in Tokens : EvictOne(p, t)
  BY <1>6 DEF ExclusiveConfig, ControlInv, EvictOne
<1>7. CASE EvictDone(p)
  BY <1>7 DEF ExclusiveConfig, ControlInv, EvictDone
<1>8. CASE Collect(p)
  <2>1. Unborn' \subseteq Unborn
    BY <1>8 DEF Collect, Unborn, TokensInv, ControlInv
  <2>2. ControlInv'
    BY <1>8 DEF Collect, ControlInv, ExclusiveConfig, IsConcurrent
  <2>3. BornInv'
    <3>1. targets'[p] \cap Unborn = {}
      BY <1>8 DEF Collect, BornInv, Range
    <3> QED BY <1>8, <2>1, <3>1 DEF Collect, BornInv
  <2>4. ReplacedInv'
    BY <1>8 DEF Collect, ReplacedInv, TokensInv, ControlInv, MappedInv,
       ExclusiveConfig
  <2>5. UNCHANGED <<used, committed, tok, body, mapping>>
    BY <1>8 DEF Collect
  <2> QED BY <2>2, <2>3, <2>4, <2>5, Untouched
<1>9. CASE ScanBodies(p)
  <2>1. Unborn' \subseteq Unborn
    BY <1>9 DEF ScanBodies, Unborn, TokensInv, ControlInv
  <2>2. ControlInv'
    BY <1>9 DEF ScanBodies, ControlInv, ExclusiveConfig, IsConcurrent
  <2>3. BornInv'
    BY <1>9, <2>1 DEF ScanBodies, BornInv, ControlInv
  <2>4. ReplacedInv'
    BY <1>9 DEF ScanBodies, ReplacedInv, TokensInv, ControlInv, MappedInv,
       ExclusiveConfig
  <2>5. UNCHANGED <<used, committed, tok, body, mapping>>
    BY <1>9 DEF ScanBodies
  <2> QED BY <2>2, <2>3, <2>4, <2>5, Untouched
<1>10. CASE MappingFallback(p)
  <2>1. Unborn' \subseteq Unborn
    BY <1>10 DEF MappingFallback, Unborn, TokensInv, ControlInv
  <2>2. ControlInv'
    BY <1>10 DEF MappingFallback, ControlInv, ExclusiveConfig, IsConcurrent
  <2>3. BornInv'
    <3>1. targets'[p] \cap Unborn = {}
      BY <1>10 DEF MappingFallback, BornInv, MappedInv
    <3> QED BY <1>10, <2>1, <3>1 DEF MappingFallback, BornInv
  <2>4. ReplacedInv'
    BY <1>10 DEF MappingFallback, ReplacedInv, TokensInv, ControlInv, MappedInv,
       ExclusiveConfig
  <2>5. UNCHANGED <<used, committed, tok, body, mapping>>
    BY <1>10 DEF MappingFallback
  <2> QED BY <2>2, <2>3, <2>4, <2>5, Untouched
<1>11. CASE \E t \in Tokens : AccountOne(p, t)
  <2>1. Unborn' \subseteq Unborn
    BY <1>11 DEF AccountOne, StartLogout, Unborn, TokensInv, ControlInv
  <2>2. ControlInv'
    BY <1>11 DEF AccountOne, StartLogout, ControlInv, ExclusiveConfig,
       IsConcurrent
  <2>3. BornInv'
    BY <1>11, <2>1 DEF AccountOne, StartLogout, BornInv, ControlInv
  <2>4. ReplacedInv'
    BY <1>11 DEF AccountOne, StartLogout, ReplacedInv, TokensInv, ControlInv,
       MappedInv, ExclusiveConfig
  <2>5. UNCHANGED <<used, committed, tok, body, mapping>>
    BY <1>11 DEF AccountOne, StartLogout
  <2> QED BY <2>2, <2>3, <2>4, <2>5, Untouched
<1>12. CASE AccountDone(p)
  <2>1. Unborn' \subseteq Unborn
    BY <1>12 DEF AccountDone, Unborn, TokensInv, ControlInv
  <2>2. ControlInv'
    BY <1>12 DEF AccountDone, ControlInv, ExclusiveConfig, IsConcurrent
  <2>3. BornInv'
    BY <1>12, <2>1 DEF AccountDone, BornInv, ControlInv
  <2>4. ReplacedInv'
    BY <1>12 DEF AccountDone, ReplacedInv, TokensInv, ControlInv, MappedInv,
       ExclusiveConfig
  <2>5. UNCHANGED <<used, committed, tok, body, mapping>>
    BY <1>12 DEF AccountDone
  <2> QED BY <2>2, <2>3, <2>4, <2>5, Untouched
<1>13. CASE DropSession(p)
  <2>1. Unborn' \subseteq Unborn
    BY <1>13 DEF DropSession, Unborn, TokensInv, ControlInv
  <2>2. ControlInv'
    BY <1>13 DEF DropSession, ControlInv, ExclusiveConfig, IsConcurrent
  <2>3. BornInv'
    BY <1>13, <2>1 DEF DropSession, BornInv, ControlInv
  <2>4. ReplacedInv'
    BY <1>13 DEF DropSession, ReplacedInv, TokensInv, ControlInv, MappedInv,
       ExclusiveConfig
  <2>5. UNCHANGED <<used, committed, tok, body, mapping>>
    BY <1>13 DEF DropSession
  <2> QED BY <2>2, <2>3, <2>4, <2>5, Untouched
<1> QED BY <1>1, <1>2, <1>3, <1>4, <1>5, <1>6, <1>7, <1>8, <1>9, <1>10, <1>11, <1>12,
   <1>13 DEF AccountStep

\* A storage error or a dropped task keeps the invariant.
LEMMA DisturbExclusive ==
  ASSUME ExclusiveConfig, ExclusiveInv, TypeInv', UNCHANGED config,
         NEW p \in Procs, Disturb(p)
  PROVE  Parts'
<1> USE ConstantsAssumption DEF ExclusiveInv, Parts, Goto, Holding, TypeInv, TypeOK,
   LoginLabels, LogoutLabels, PostDelete,
            PreDelete, BeforeBodyLabels, RenewLabels, ReturnLabels, Replacing, store,
            loginVars, logoutVars, listVars, history
<1>1. CASE Fault(p)
  <2> DEFINE l == OnError(p)
  <2>1. /\ pc' = [pc EXCEPT ![p] = l] /\ p \in DOMAIN pc
        /\ UNCHANGED <<store, loginVars, logoutVars, local, listVars, history>>
    BY <1>1 DEF Fault
  <2>2. \/ pc[p] \in LoginAborts /\ l = "rollback"
        \/ pc[p] \in {"shareMark", "shareBody"} /\ l = "before"
        \/ pc[p] \in {"mark", "casDelete", "rangeBody", "rangeId"} /\ l = ret[p]
        \/ /\ pc[p] \in {"removeIndex", "readTerminals", "saveTerminals",
                         "countTerminals", "deleteSession"}
           /\ l \in {"readTerminals", "deleteSession", "casDelete", ret[p]}
           /\ l = "casDelete" => mode[p] = "Logout"
        \/ pc[p] \in AccountLabels /\ l \in {"mappingFallback", "return"}
    <3>1. CASE pc[p] \in LoginAborts
      BY <3>1 DEF OnError, LoginAborts, LogoutAborts, AfterTerminals, AccountAbort
    <3>2. CASE pc[p] \in {"shareMark", "shareBody"}
      BY <3>2 DEF OnError, LoginAborts, LogoutAborts, AfterTerminals, AccountAbort
    <3>3. CASE pc[p] \in LogoutAborts
      BY <1>1, <3>3 DEF Fault, OnError, LoginAborts, LogoutAborts, AfterTerminals,
         AccountAbort, ExclusiveConfig
    <3>4. CASE pc[p] \in {"removeIndex", "readTerminals", "saveTerminals",
                          "countTerminals", "deleteSession"}
      BY <3>4 DEF OnError, LoginAborts, LogoutAborts, AfterTerminals, AccountAbort
    <3>5. CASE pc[p] \in {"listIndex", "mappingFallback", "scan", "dropSession"}
      BY <3>5 DEF OnError, LoginAborts, LogoutAborts, AfterTerminals, AccountAbort,
         AccountLabels, ControlInv
    <3> HIDE DEF l
    <3> QED BY <1>1, <3>1, <3>2, <3>3, <3>4, <3>5 DEF Fault, ControlInv, LoginAborts
  <2> HIDE DEF l
  <2>3. Unborn' \subseteq Unborn
    BY <2>1, <2>2 DEF LoginAborts, AccountLabels, Unborn, TokensInv, ControlInv
  <2>4. ControlInv'
    BY <2>1, <2>2 DEF LoginAborts, AccountLabels, ControlInv, ExclusiveConfig, IsConcurrent
  <2>5. BornInv'
    BY <2>1, <2>2, <2>3 DEF LoginAborts, AccountLabels, BornInv, ControlInv
  <2>6. ReplacedInv'
    BY <2>1, <2>2 DEF LoginAborts, AccountLabels, ReplacedInv, TokensInv, ControlInv, MappedInv
  <2>7. UNCHANGED <<used, committed, tok, body, mapping>>
    BY <2>1
  <2> QED BY <2>4, <2>5, <2>6, <2>7, Untouched
<1>2. CASE UndoFault(p)
  <2>1. Unborn' \subseteq Unborn
    BY <1>2 DEF UndoFault, Unborn, TokensInv, ControlInv
  <2>2. ControlInv'
    BY <1>2 DEF UndoFault, ControlInv, ExclusiveConfig, IsConcurrent
  <2>3. BornInv'
    BY <1>2, <2>1 DEF UndoFault, BornInv, ControlInv
  <2>4. ReplacedInv'
    BY <1>2 DEF UndoFault, ReplacedInv, TokensInv, ControlInv, MappedInv,
       ExclusiveConfig
  <2>5. UNCHANGED <<used, committed, tok, body, mapping>>
    BY <1>2 DEF UndoFault
  <2> QED BY <2>2, <2>3, <2>4, <2>5, Untouched
<1>3. CASE ProbeFault(p)
  BY <1>3 DEF ProbeFault, ExclusiveConfig
<1>4. CASE PruneFault(p)
  <2>1. Unborn' \subseteq Unborn
    BY <1>4 DEF PruneFault, Unborn, TokensInv, ControlInv
  <2>2. ControlInv'
    BY <1>4 DEF PruneFault, ControlInv, ExclusiveConfig, IsConcurrent
  <2>3. BornInv'
    BY <1>4, <2>1 DEF PruneFault, BornInv, ControlInv
  <2>4. ReplacedInv'
    BY <1>4 DEF PruneFault, ReplacedInv, TokensInv, ControlInv, MappedInv,
       ExclusiveConfig
  <2>5. UNCHANGED <<used, committed, tok, body, mapping>>
    BY <1>4 DEF PruneFault
  <2> QED BY <2>2, <2>3, <2>4, <2>5, Untouched
<1>5. CASE Crash(p)
  <2>1. Unborn' \subseteq Unborn
    BY <1>5 DEF Crash, Finish, Unborn, TokensInv, ControlInv
  <2>2. TokensInv'
    BY <1>5 DEF Crash, Finish, TokensInv, ControlInv
  <2>3. ControlInv'
    BY <1>5 DEF Crash, Finish, ControlInv, ExclusiveConfig, IsConcurrent
  <2>4. BornInv'
    <3>1. /\ UNCHANGED <<body, committed>> /\ pc' = [pc EXCEPT ![p] = "idle"]
          /\ alive' = [alive EXCEPT ![p] = <<>>] /\ targets' = [targets EXCEPT ![p] = {}]
          /\ \A q \in Procs \ {p} : UNCHANGED <<ret[q], cur[q]>>
      BY <1>5 DEF Crash, Finish
    <3>2. /\ pc'[p] = "idle" /\ alive'[p] = <<>> /\ targets'[p] = {}
          /\ \A q \in Procs \ {p} : UNCHANGED <<pc[q], alive[q], targets[q]>>
      BY <3>1
    <3>3. body' \cap Unborn' = {} /\ committed' \cap Unborn' = {}
      BY <2>1, <3>1 DEF BornInv
    <3>4. ASSUME NEW q \in Procs
          PROVE  /\ \A i \in DOMAIN alive'[q] : alive'[q][i] \notin Unborn'
                 /\ (pc[q] \in LogoutLabels \cup {"rangeBody", "rangeId"} /\ ~Replacing(q)
                      => cur[q] \notin Unborn)'
                 /\ (pc[q] \in PostDelete /\ ~Replacing(q) => cur[q] \notin body)'
                 /\ (pc[q] \notin LoginLabels /\ ~Replacing(q)
                      => targets[q] \cap Unborn = {})'
      <4>1. CASE q = p
        BY <3>2, <4>1
      <4>2. CASE q # p
        BY <2>1, <3>1, <3>2, <4>2 DEF BornInv
      <4> QED BY <4>1, <4>2
    <3> QED BY <3>3, <3>4 DEF BornInv
  <2>5. ReplacedInv'
    BY <1>5 DEF Crash, Finish, ReplacedInv, TokensInv, ControlInv, MappedInv,
       ExclusiveConfig
  <2>6. MappedInv'
    BY <1>5 DEF Crash, Finish, MappedInv, ReplacedInv, BornInv, TokensInv,
       ControlInv
  <2> QED BY <2>2, <2>3, <2>4, <2>5, <2>6
<1> QED BY <1>1, <1>2, <1>3, <1>4, <1>5 DEF Disturb

\* A call that returns keeps the invariant.
LEMMA ReturnExclusive ==
  ASSUME ExclusiveInv, TypeInv', UNCHANGED config, NEW p \in Procs, Return(p)
  PROVE  Parts'
<1> USE ConstantsAssumption DEF ExclusiveInv, Parts, Goto, Holding, TypeInv, TypeOK,
   LoginLabels, LogoutLabels, PostDelete,
            PreDelete, BeforeBodyLabels, RenewLabels, ReturnLabels, Replacing, store,
            loginVars, logoutVars, listVars, history
<1>1. Unborn' \subseteq Unborn
  BY DEF Return, Finish, Unborn
<1>2. TokensInv' /\ ControlInv'
  BY DEF Return, Finish, TokensInv, ControlInv
<1>3. BornInv'
  BY <1>1 DEF Return, Finish, BornInv
<1>4. ReplacedInv' /\ MappedInv'
  BY DEF Return, Finish, ReplacedInv, MappedInv
<1> QED BY <1>2, <1>3, <1>4

\* The invariant holds of the empty storage.
LEMMA InitExclusive == Init => ExclusiveInv
<1> SUFFICES ASSUME Init PROVE ExclusiveInv
  OBVIOUS
<1>1. TypeInv
  BY InitType
<1>2. TokensInv /\ ControlInv /\ ReplacedInv /\ MappedInv
  BY ConstantsAssumption DEF Init, TokensInv, ControlInv, ReplacedInv, MappedInv,
     LoginLabels, LogoutLabels, RenewLabels, Replacing
<1>3. BornInv
  BY DEF Init, BornInv, Unborn, LogoutLabels, LoginLabels, PostDelete, Replacing
<1> QED BY <1>1, <1>2, <1>3 DEF ExclusiveInv

\* ExclusiveInv is inductive.
LEMMA StepExclusive ==
  ASSUME ExclusiveConfig, ExclusiveInv, [Next]_vars
  PROVE  ExclusiveInv'
<1>1. TypeInv'
  BY TypeStep DEF ExclusiveInv
<1>2. CASE UNCHANGED vars
  BY <1>1, <1>2 DEF vars, store, loginVars, logoutVars, listVars, history, ExclusiveInv,
     TokensInv, ControlInv, BornInv, Unborn, Replacing, ReplacedInv, MappedInv
<1>3. CASE Next
  <2>1. PICK p \in Procs : Begin(p) \/ Step(p) \/ Disturb(p)
    BY <1>3 DEF Next
  <2>2. UNCHANGED config
    BY <1>3 DEF Next
  <2>3. CASE Begin(p) BY <1>1, <2>2, <2>3, BeginExclusive DEF Parts, ExclusiveInv
  <2>4. CASE LoginStep(p) BY <1>1, <2>2, <2>4, LoginStepExclusive DEF Parts,
     ExclusiveInv
  <2>5. CASE LogoutStep(p) BY <1>1, <2>2, <2>5, LogoutStepExclusive DEF Parts,
     ExclusiveInv
  <2>6. CASE AccountStep(p) BY <1>1, <2>2, <2>6, AccountStepExclusive DEF Parts,
     ExclusiveInv
  <2>7. CASE RenewStep(p)
    BY <2>7 DEF RenewStep, RenewCheckMark, RenewReadBody, RenewWriteBody, RenewLabels,
       ExclusiveInv, ControlInv
  <2>8. CASE Return(p) BY <1>1, <2>2, <2>8, ReturnExclusive DEF Parts, ExclusiveInv
  <2>9. CASE Disturb(p) BY <1>1, <2>2, <2>9, DisturbExclusive DEF Parts, ExclusiveInv
  <2> QED BY <2>1, <2>3, <2>4, <2>5, <2>6, <2>7, <2>8, <2>9 DEF Step
<1> QED BY <1>2, <1>3

\* Two tokens of an exclusive account are never live at the same time, and the
\* live one is the one login:token names: whatever logins, logouts and kick-outs
\* race, at any number of tasks, with login futures dropped half-way.
THEOREM ExclusiveCorrect ==
  ASSUME ExclusiveConfig
  PROVE  Spec => [](AtMostOneLive /\ LiveIsMapped)
<1>1. Init => ExclusiveInv
  BY InitExclusive
<1>2. ExclusiveInv /\ [Next]_vars => ExclusiveInv'
  BY StepExclusive
<1>3. ExclusiveInv => AtMostOneLive /\ LiveIsMapped
  BY DEF ExclusiveInv, MappedInv, AtMostOneLive, LiveIsMapped, Live, Usable
<1> QED BY <1>1, <1>2, <1>3, PTL DEF Spec

-----------------------------------------------------------------------------
(***************************************************************************)
(* The account as its users see it: AccountTokens, step by step.           *)
(***************************************************************************)

\* A step that neither commits a login nor writes a body or a token-id.
Quietly == UNCHANGED <<body, tokenId, committed>>

\* A call that starts changes no token.
LEMMA BeginQuietly ==
  ASSUME NEW p \in Procs, Begin(p)
  PROVE  Quietly
BY DEF Quietly, Begin, Login, Logout, KickOutByToken, ReplacedByToken, TokenCall,
   Renew, LogoutByLoginId, KickOut, AccountCall, store, history

\* Committed tokens that are not usable stay so: a login writes only its own token,
\* and a logout takes a marker away only after it has deleted the body.
LEMMA LoginRevives ==
  ASSUME ExclusiveInv, NEW p \in Procs, LoginStep(p), committed' = committed
  PROVE  \A t \in committed : Usable(t)' => Usable(t)
<1> USE DEF ExclusiveInv, TypeInv, TypeOK, Holding, LoginLabels
<1>1. CASE SaveTokenId(p) \/ SaveBody(p) \/ Rollback(p)
  <2>1. tok[p] \in Tokens \ committed
    <3>1. pc[p] \in {"saveTokenId", "saveBody", "rollback"}
      BY <1>1 DEF SaveTokenId, SaveBody, Rollback
    <3>2. tok[p] \in Tokens
      BY <3>1
    <3> QED BY <3>2, ConstantsAssumption DEF TokensInv
  <2>2. /\ body' \ {tok[p]} \subseteq body
        /\ \A t \in Tokens \ {tok[p]} : tokenId'[t] = tokenId[t]
    BY <1>1, <2>1 DEF SaveTokenId, SaveBody, Rollback, Undo
  <2> QED BY <2>1, <2>2 DEF Usable, Marked, TokensInv
<1>2. CASE CommitConcurrent(p) \/ CommitCas(p) \/ CommitAbsent(p)
  BY <1>2 DEF CommitConcurrent, CommitCas, CommitAbsent, Commit, Usable, Marked
<1>3. CASE \/ ReadShare(p) \/ CheckShareMark(p) \/ CheckShareBody(p)
           \/ ReadBefore(p) \/ ListTerminals(p) \/ ListTokens(p) \/ AddMappingTarget(p)
           \/ (\E t \in Tokens : ReplaceOne(p, t)) \/ ReplaceDone(p)
  BY <1>3 DEF ReadShare, CheckShareMark, CheckShareBody, ReadBefore, ListTerminals,
     ListTokens, AddMappingTarget, ReplaceOne, ReplaceDone, store, Usable, Marked
<1>4. CASE \/ AppendIndex(p) \/ Snapshot(p) \/ ReadSession(p) \/ SaveSession(p)
           \/ CasRefused(p) \/ CasLost(p) \/ RolledBack(p)
  BY <1>4 DEF AppendIndex, Snapshot, ReadSession, SaveSession, CasRefused, CasLost,
     RolledBack, store, Usable, Marked
<1> QED BY <1>1, <1>2, <1>3, <1>4 DEF LoginStep

\* A logout step makes no committed token usable.
LEMMA LogoutRevives ==
  ASSUME ExclusiveInv, NEW p \in Procs, LogoutStep(p)
  PROVE  /\ committed' = committed
         /\ \A t \in committed : Usable(t)' => Usable(t)
<1> USE DEF ExclusiveInv, TypeInv, TypeOK
<1>1. CASE Mark(p)
  <2>1. /\ pc[p] = "mark" /\ UNCHANGED <<body, committed>>
        /\ tokenId' = [tokenId EXCEPT ![cur[p]] =
                         IF mode[p] = "Logout" THEN "none" ELSE mode[p]]
    BY <1>1 DEF Mark, history
  <2>2. mode[p] = "Logout" => cur[p] \notin body
    BY <2>1 DEF ControlInv, BornInv, Replacing, PostDelete, PreDelete, LogoutLabels
  <2>3. mode[p] \in LogoutModes
    OBVIOUS
  <2>4. committed \subseteq Tokens
    OBVIOUS
  <2> QED BY <2>1, <2>2, <2>3, <2>4 DEF Usable, Marked, LogoutModes
<1>2. CASE DeleteBody(p)
  BY <1>2 DEF DeleteBody, history, Usable, Marked
<1>3. CASE \/ RangeBody(p) \/ RangeId(p) \/ ResolveBody(p) \/ ResolveId(p)
           \/ RemoveIndex(p) \/ ReadTerminals(p) \/ SaveTerminals(p)
           \/ CountTerminals(p) \/ DeleteSession(p) \/ CasDelete(p)
  BY <1>3 DEF RangeBody, RangeId, ResolveBody, ResolveId, RemoveIndex, ReadTerminals,
     SaveTerminals, CountTerminals, DeleteSession, CasDelete, store, history, Usable,
     Marked
<1> QED BY <1>1, <1>2, <1>3 DEF LogoutStep

\* What a kick-out of the account does besides its logouts changes no token.
LEMMA AccountQuietly ==
  ASSUME NEW p \in Procs, AccountStep(p) \/ Return(p) \/ Disturb(p)
  PROVE  Quietly
<1> USE DEF Quietly, store, history
<1>1. CASE AccountStep(p)
  BY <1>1 DEF AccountStep, ListIndex, Probe, Prune, PruneDone, Enforce, EvictOne,
     EvictDone, Collect, ScanBodies, MappingFallback, AccountOne, AccountDone, DropSession
<1>2. CASE Return(p) \/ Disturb(p)
  BY <1>2 DEF Return, Disturb, Fault, UndoFault, ProbeFault, PruneFault, Crash
<1> QED BY <1>1, <1>2

\* A login commits one token, and nothing of the account is live then.
LEMMA Commits ==
  ASSUME ExclusiveConfig, ExclusiveInv, NEW p \in Procs, LoginStep(p),
         committed' # committed
  PROVE  /\ tok[p] \in Tokens \ committed /\ committed' = committed \cup {tok[p]}
         /\ Live = {} /\ UNCHANGED <<body, tokenId>>
<1> USE DEF ExclusiveInv, TypeInv, TypeOK, Holding, LoginLabels
<1>1. pc[p] \in {"cas", "casAbsent"} /\ Commit(p) /\ (CommitCas(p) \/ CommitAbsent(p))
  BY DEF LoginStep, ReadShare, CheckShareMark, CheckShareBody, ReadBefore, ListTerminals,
     ListTokens, AddMappingTarget, ReplaceOne, ReplaceDone, AppendIndex, Snapshot,
     ReadSession, SaveSession, SaveTokenId, SaveBody, CasRefused, CasLost, Rollback,
     RolledBack, CommitConcurrent, CommitCas, CommitAbsent, IsConcurrent, ExclusiveConfig,
     history
<1>2. committed \cap body = {}
  <2>1. CASE CommitCas(p)
    <3>1. /\ pc[p] = "cas" /\ before[p] = mapping
          /\ \A t \in committed \cap body : mapping = t
      BY <2>1 DEF CommitCas, MappedInv
    <3>2. mapping = NoToken \/ mapping \notin body
      BY <3>1 DEF ReplacedInv
    <3>3. NoToken \notin committed
      BY ConstantsAssumption
    <3> QED BY <3>1, <3>2, <3>3
  <2>2. CASE CommitAbsent(p)
    BY <2>2, ConstantsAssumption DEF CommitAbsent, MappedInv
  <2> QED BY <1>1, <2>1, <2>2
<1>3. Live = {}
  BY <1>2 DEF Live, Usable
<1> QED BY <1>1, <1>3, ConstantsAssumption DEF Commit, TokensInv

\* A step of the code is a grant, a revocation, or nothing one can see.
LEMMA AccountStepwise ==
  ASSUME ExclusiveConfig, ExclusiveInv, [Next]_vars
  PROVE  /\ [Account!Next]_<<committed, Live, Exclusive>>
         /\ \A t \in committed : ~Usable(t) => ~Usable(t)'
<1>1. UNCHANGED Exclusive
  BY DEF Next, vars, Exclusive, IsConcurrent, ReplacedRange
<1>2. ASSUME committed' = committed, \A t \in committed : Usable(t)' => Usable(t)
      PROVE  [Account!Next]_<<committed, Live, Exclusive>>
  <2>1. Live' \subseteq Live
    BY <1>2 DEF Live
  <2>2. \A t, u \in Live : t = u
    BY DEF ExclusiveInv, MappedInv, Live, Usable
  <2>3. Live \subseteq Tokens
    BY DEF ExclusiveInv, TypeInv, TypeOK, Live
  <2>4. Live' = Live \/ \E t \in Tokens : t \in Live /\ Live' = Live \ {t}
    BY <2>1, <2>2, <2>3
  <2> QED BY <1>1, <1>2, <2>4 DEF Account!Next, Account!Revoke
<1>3. ASSUME Quietly
      PROVE  /\ [Account!Next]_<<committed, Live, Exclusive>>
             /\ \A t \in committed : ~Usable(t) => ~Usable(t)'
  BY <1>2, <1>3 DEF Quietly, Usable, Marked
<1>4. CASE UNCHANGED vars
  BY <1>3, <1>4 DEF vars, store, history, Quietly
<1>5. ASSUME NEW p \in Procs, Begin(p) \/ Step(p) \/ Disturb(p)
      PROVE  /\ [Account!Next]_<<committed, Live, Exclusive>>
             /\ \A t \in committed : ~Usable(t) => ~Usable(t)'
  <2>1. CASE Begin(p)
    BY <1>3, <2>1, BeginQuietly
  <2>2. CASE AccountStep(p) \/ Return(p) \/ Disturb(p)
    BY <1>3, <2>2, AccountQuietly
  <2>3. CASE LogoutStep(p)
    BY <1>2, <2>3, LogoutRevives
  <2>4. CASE RenewStep(p)
    BY <2>4 DEF RenewStep, RenewCheckMark, RenewReadBody, RenewWriteBody, RenewLabels,
       ExclusiveInv, ControlInv
  <2>5. CASE LoginStep(p) /\ committed' = committed
    BY <1>2, <2>5, LoginRevives
  <2>6. CASE LoginStep(p) /\ committed' # committed
    <3>1. /\ tok[p] \in Tokens \ committed /\ committed' = committed \cup {tok[p]}
          /\ Live = {} /\ UNCHANGED <<body, tokenId>>
      BY <2>6, Commits
    <3>2. Live' \in {Live, Live \cup {tok[p]}}
      BY <3>1 DEF Live, Usable, Marked
    <3>3. Account!Grant(tok[p])
      BY <1>1, <3>1, <3>2 DEF Account!Grant
    <3> QED BY <3>1, <3>3 DEF Account!Next, Usable, Marked
  <2> QED BY <1>5, <2>1, <2>2, <2>3, <2>4, <2>5, <2>6 DEF Step
<1> QED BY <1>4, <1>5 DEF Next

\* For an exclusive account the staged logins, replacements and logouts implement
\* AccountTokens: a token is granted once, alone, and one that stopped
\* authenticating never does again.
THEOREM AccountCorrect ==
  ASSUME ExclusiveConfig
  PROVE  Spec => RevokedForever /\ ImplementsAccount
<1>1. Init => Account!Init
  BY DEF Init, Account!Init, Exclusive, IsConcurrent, ReplacedRange, Live, Usable, Config
<1>2. ExclusiveInv /\ [Next]_vars =>
        /\ [Account!Next]_<<committed, Live, Exclusive>>
        /\ [\A t \in committed : ~Usable(t) => ~Usable(t)']_vars
  BY AccountStepwise
<1> QED
  BY InitExclusive, StepExclusive, <1>1, <1>2, PTL
  DEF Spec, ImplementsAccount, Account!Spec, RevokedForever

=============================================================================
