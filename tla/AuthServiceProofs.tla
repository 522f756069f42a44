------------------------- MODULE AuthServiceProofs -------------------------
(***************************************************************************)
(* What AuthService promises whatever the account's configuration.  Type   *)
(* correctness: TypeInv (TypeOK with what a task holds at each label) is   *)
(* inductive.  A failed login leaves nothing behind unless undoing its     *)
(* writes fails too and, where nothing logs out, the marker of a kick-out  *)
(* stays: both rest on OwnedInv (a token is drawn once, belongs to one     *)
(* task, and is committed or given back but never both).  One lemma per    *)
(* group of actions, one step per action.                                  *)
(***************************************************************************)
EXTENDS AuthServiceInv, TLAPS, SequenceTheorems

\* What the list helpers return: list_remove and dropping the last element keep a
\* sequence of tokens one.

LEMMA WithoutType ==
  ASSUME NEW S, NEW s \in Seq(S), NEW t
  PROVE  Without(s, t) \in Seq(S)
<1>1. CASE \E i \in DOMAIN s : s[i] = t
  <2>1. PICK i \in DOMAIN s : Without(s, t) = RemoveAt(s, i)
    BY <1>1, Zenon DEF Without
  <2>2. /\ Len(s) \in Nat /\ i \in 1..Len(s)
        /\ \A k \in 1..Len(s) : s[k] \in S
    OBVIOUS
  <2>3. SubSeq(s, 1, i-1) \in Seq(S)
    BY <2>2, SubSeqProperties
  <2>4. SubSeq(s, i+1, Len(s)) \in Seq(S)
    BY <2>2, SubSeqProperties
  <2> QED BY <2>1, <2>3, <2>4, ConcatProperties DEF RemoveAt
<1>2. CASE ~ \E i \in DOMAIN s : s[i] = t
  BY <1>2 DEF Without
<1> QED BY <1>1, <1>2

\* The compensator pops its last registered write.
LEMMA FrontType ==
  ASSUME NEW S, NEW s \in Seq(S), s # <<>>
  PROVE  Front(s) \in Seq(S) /\ Last(s) \in S
BY DEF Front, Last

\* The tokens of an index are tokens.
LEMMA RangeType ==
  ASSUME NEW S, NEW s \in Seq(S)
  PROVE  Range(s) \subseteq S
BY DEF Range

\* The empty storage and the idle tasks are well typed.
LEMMA InitType == Init => TypeInv
BY ConstantsAssumption DEF Init, TypeInv, TypeOK, Holding, NoSession, SessionType,
   Labels, LoginLabels, LogoutLabels, AccountLabels, RenewLabels, ReturnLabels,
      LogoutModes

\* The commit of a login, whichever primitive it went through, keeps the types.
LEMMA CommitType ==
  ASSUME TypeInv, UNCHANGED config, NEW p \in Procs, Commit(p),
         pc[p] \in LoginLabels
  PROVE  TypeInv'
<1> USE DEF TypeInv, TypeOK, Holding, MaxLoginCount, Goto, Labels, LoginLabels,
   LogoutLabels,
             AccountLabels, RenewLabels, ReturnLabels, LogoutModes, store, loginVars,
             logoutVars, listVars, history
<1>1. tok[p] \in Tokens /\ mapping' = tok[p] /\ committed' = committed \cup {tok[p]}
  BY DEF Commit
<1>2. UNCHANGED <<body, tokenId, index, session, used, device, rolledBack>>
  BY DEF Commit
<1>3. CASE IsConcurrent /\ MaxLoginCount > 0
  <2>1. /\ ret' = [ret EXCEPT ![p] = "enforce"]
        /\ pc' = [pc EXCEPT ![p] = "listIndex"]
        /\ UNCHANGED <<loginVars, cur, mode, ident, local, listVars, must>>
    BY <1>3 DEF Commit
  <2>2. TypeOK' BY <1>1, <1>2, <2>1
  <2>3. Holding' BY <1>1, <1>2, <1>3, <2>1
  <2> QED BY <2>2, <2>3
<1>4. CASE ~(IsConcurrent /\ MaxLoginCount > 0)
  <2>1. Finish(p)
    BY <1>4 DEF Commit
  <2>2. TypeOK' BY <1>1, <1>2, <2>1 DEF Finish, NoSession, SessionType
  <2>3. Holding' BY <1>1, <1>2, <2>1 DEF Finish, NoSession, SessionType
  <2> QED BY <2>2, <2>3
<1> QED BY <1>3, <1>4

\* Every step of a login keeps the types.
LEMMA LoginStepType ==
  ASSUME TypeInv, UNCHANGED config, NEW p \in Procs, LoginStep(p)
  PROVE  TypeInv'
<1> USE DEF TypeInv, TypeOK, Holding, MaxLoginCount, Goto, Labels, LoginLabels,
   LogoutLabels,
             AccountLabels, RenewLabels, ReturnLabels, LogoutModes, store, loginVars,
             logoutVars, listVars, history
<1>1. CASE ReadShare(p)
  BY <1>1 DEF ReadShare
<1>2. CASE CheckShareMark(p)
  BY <1>2 DEF CheckShareMark, Marked
<1>3. CASE CheckShareBody(p)
  <2>1. CASE cur[p] \in body
    <3>1. Finish(p) /\ UNCHANGED <<store, committed, rolledBack>>
      BY <1>3, <2>1 DEF CheckShareBody
    <3>2. used' \subseteq Tokens /\ device' \in [Tokens -> Devices \cup {NoDevice}]
      BY <1>3, <2>1 DEF CheckShareBody
    <3>3. TypeOK' BY <3>1, <3>2 DEF Finish, NoSession, SessionType
    <3>4. Holding' BY <3>1 DEF Finish, NoSession, SessionType
    <3> QED BY <3>3, <3>4
  <2>2. CASE cur[p] \notin body
    <3>1. /\ pc' = [pc EXCEPT ![p] = "before"]
          /\ UNCHANGED <<store, loginVars, logoutVars, local, listVars, history>>
      BY <1>3, <2>2 DEF CheckShareBody
    <3>2. pc[p] = "shareBody"
      BY <1>3 DEF CheckShareBody
    <3> QED BY <3>1, <3>2
  <2> QED BY <2>1, <2>2
<1>4. CASE ReadBefore(p)
  BY <1>4 DEF ReadBefore, IsConcurrent
<1>5. CASE ListTerminals(p)
  BY <1>5 DEF ListTerminals, Replace, SameDevice, SessionType
<1>6. CASE ListTokens(p)
  BY <1>6, RangeType DEF ListTokens
<1>7. CASE AddMappingTarget(p)
  BY <1>7 DEF AddMappingTarget, Replace
<1>8. CASE \E t \in Tokens : ReplaceOne(p, t)
  BY <1>8 DEF ReplaceOne, StartLogout
<1>9. CASE ReplaceDone(p)
  BY <1>9 DEF ReplaceDone
<1>10. CASE AppendIndex(p)
  BY <1>10 DEF AppendIndex, PushUnique, Register, Kinds
<1>11. CASE Snapshot(p)
  BY <1>11 DEF Snapshot, Register, Kinds
<1>12. CASE ReadSession(p)
  BY <1>12 DEF ReadSession, SessionType
<1>13. CASE SaveSession(p)
  BY <1>13 DEF SaveSession, SessionType
<1>14. CASE SaveTokenId(p)
  BY <1>14 DEF SaveTokenId, Register, Kinds
<1>15. CASE SaveBody(p)
  BY <1>15 DEF SaveBody, Register, Kinds
<1>16. CASE CommitConcurrent(p)
  BY <1>16, CommitType DEF CommitConcurrent
<1>17. CASE CommitCas(p)
  BY <1>17, CommitType DEF CommitCas
<1>18. CASE CasRefused(p)
  BY <1>18 DEF CasRefused
<1>19. CASE CommitAbsent(p)
  BY <1>19, CommitType DEF CommitAbsent
<1>20. CASE CasLost(p)
  BY <1>20 DEF CasLost
<1>21. CASE Rollback(p)
  BY <1>21, FrontType, WithoutType DEF Rollback, Undo, SessionType
<1>22. CASE RolledBack(p)
  BY <1>22 DEF RolledBack, Finish, NoSession, SessionType
<1> QED BY <1>1, <1>2, <1>3, <1>4, <1>5, <1>6, <1>7, <1>8, <1>9, <1>10, <1>11, <1>12,
   <1>13, <1>14, <1>15, <1>16, <1>17, <1>18, <1>19, <1>20, <1>21, <1>22 DEF LoginStep

\* Every step of logout_internal keeps the types.
LEMMA LogoutStepType ==
  ASSUME TypeInv, UNCHANGED config, NEW p \in Procs, LogoutStep(p)
  PROVE  TypeInv'
<1> USE DEF TypeInv, TypeOK, Holding, MaxLoginCount, Goto, Labels, LoginLabels,
   LogoutLabels,
             AccountLabels, RenewLabels, ReturnLabels, LogoutModes, store, loginVars,
             logoutVars, listVars, history
<1>1. CASE RangeBody(p)
  <2>1. TypeOK'
    BY ZenonT(30), <1>1 DEF RangeBody, CollectInto
  <2>2. Holding'
    BY <1>1 DEF RangeBody, CollectInto
  <2> QED BY <2>1, <2>2
<1>2. CASE RangeId(p)
  <2>1. TypeOK'
    BY ZenonT(30), <1>2 DEF RangeId, CollectInto
  <2>2. Holding'
    BY <1>2 DEF RangeId, CollectInto
  <2> QED BY <2>1, <2>2
<1>3. CASE ResolveBody(p)
  BY <1>3 DEF ResolveBody
<1>4. CASE ResolveId(p)
  BY <1>4 DEF ResolveId
<1>5. CASE DeleteBody(p)
  BY <1>5 DEF DeleteBody
<1>6. CASE Mark(p)
  <2>1. pc[p] = "mark" /\ ret[p] \in ReturnLabels
    BY <1>6 DEF Mark
  <2>2. /\ tokenId' \in [Tokens -> {"none", "identity", "KickOut", "Replaced"}]
        /\ UNCHANGED <<body, index, session, mapping, loginVars, logoutVars,
                       local, listVars, history>>
    BY <1>6 DEF Mark
  <2>3. PICK l \in {"removeIndex", ret[p]} : pc' = [pc EXCEPT ![p] = l]
    BY <1>6 DEF Mark
  <2>4. l \in Labels
    BY <2>1, <2>3
  <2>5. TypeOK' BY <2>2, <2>3, <2>4
  <2>6. Holding' BY <2>1, <2>2, <2>3
  <2> QED BY <2>5, <2>6
<1>7. CASE RemoveIndex(p)
  BY <1>7, WithoutType DEF RemoveIndex
<1>8. CASE ReadTerminals(p)
  <2>1. pc[p] = "readTerminals" /\ ret[p] \in ReturnLabels
    BY <1>8 DEF ReadTerminals
  <2>2. UNCHANGED <<store, loginVars, logoutVars, listVars, history>>
    BY <1>8 DEF ReadTerminals
  <2>3. local' \in [Procs -> SUBSET Tokens]
    <3>1. \/ local' = [local EXCEPT ![p] = session.terminals \ {cur[p]}]
          \/ local' = local
      BY <1>8 DEF ReadTerminals
    <3>2. session.terminals \ {cur[p]} \in SUBSET Tokens
      BY DEF SessionType
    <3>3. CASE local' = [local EXCEPT ![p] = session.terminals \ {cur[p]}]
      BY <3>2, <3>3
    <3> QED BY <3>1, <3>3
  <2>4. PICK l \in {"saveTerminals", "casDelete", ret[p]} : pc' = [pc EXCEPT ![p] = l]
    BY <1>8 DEF ReadTerminals, AfterTerminals
  <2>5. l \in Labels
    BY <2>1, <2>4
  <2>6. TypeOK' BY <2>2, <2>3, <2>4, <2>5
  <2>7. Holding' BY <2>1, <2>2, <2>4
  <2> QED BY <2>6, <2>7
<1>9. CASE SaveTerminals(p)
  BY <1>9 DEF SaveTerminals, SessionType
<1>10. CASE CountTerminals(p)
  BY <1>10 DEF CountTerminals, AfterTerminals
<1>11. CASE DeleteSession(p)
  BY <1>11 DEF DeleteSession, AfterTerminals, NoSession, SessionType
<1>12. CASE CasDelete(p)
  BY <1>12 DEF CasDelete
<1> QED BY <1>1, <1>2, <1>3, <1>4, <1>5, <1>6, <1>7, <1>8, <1>9, <1>10, <1>11,
   <1>12 DEF LogoutStep

\* Every step of prune_index, the eviction and the account-wide calls keeps them.
LEMMA AccountStepType ==
  ASSUME TypeInv, UNCHANGED config, NEW p \in Procs, AccountStep(p)
  PROVE  TypeInv'
<1> USE DEF TypeInv, TypeOK, Holding, MaxLoginCount, Goto, Labels, LoginLabels,
   LogoutLabels,
             AccountLabels, RenewLabels, ReturnLabels, LogoutModes, store, loginVars,
             logoutVars, listVars, history
<1>1. CASE ListIndex(p)
  BY <1>1 DEF ListIndex
<1>2. CASE Probe(p)
  <2>1. probe[p] \in Seq(Tokens) /\ probe[p] # <<>> /\ alive[p] \in Seq(Tokens)
    BY <1>2 DEF Probe
  <2>2. /\ Head(probe[p]) \in Tokens /\ Tail(probe[p]) \in Seq(Tokens)
        /\ Append(alive[p], Head(probe[p])) \in Seq(Tokens)
    BY <2>1
  <2>3. CASE Head(probe[p]) \in body
    BY ZenonT(30), <1>2, <2>2, <2>3 DEF Probe
  <2>4. CASE Head(probe[p]) \notin body
    <3>1. /\ pc' = [pc EXCEPT ![p] = "prune"]
          /\ UNCHANGED <<store, loginVars, logoutVars, local, listVars, history>>
      BY <1>2, <2>4 DEF Probe
    <3>2. pc[p] = "probe"
      BY <1>2 DEF Probe
    <3> QED BY <2>1, <3>1, <3>2
  <2> QED BY <2>3, <2>4
<1>3. CASE Prune(p)
  BY <1>3, WithoutType DEF Prune
<1>4. CASE PruneDone(p)
  BY <1>4 DEF PruneDone
<1>5. CASE Enforce(p)
  <2>1. MaxLoginCount \in Int
    BY ConstantsAssumption DEF MaxLoginCount, Config
  <2>2. {alive[p][i] : i \in 1..(Len(alive[p]) - MaxLoginCount)} \subseteq Tokens
    BY <1>5, <2>1 DEF Enforce
  <2>3. TypeOK' BY <1>5, <2>2 DEF Enforce
  <2>4. Holding' BY <1>5 DEF Enforce
  <2> QED BY <2>3, <2>4
<1>6. CASE \E t \in Tokens : EvictOne(p, t)
  <2> SUFFICES ASSUME NEW t \in Tokens, EvictOne(p, t) PROVE TypeInv'
    BY <1>6
  <2>1. Without(index, t) \in Seq(Tokens)
    BY WithoutType
  <2>2. OverflowMode \in LogoutModes
    BY ConstantsAssumption DEF OverflowMode, Config
  <2>3. PICK l \in {"rangeBody", "resolveBody"} : pc' = [pc EXCEPT ![p] = l]
    BY DEF EvictOne, LogoutEntry
  <2>4. TypeOK' BY <2>1, <2>2, <2>3 DEF EvictOne, StartLogout
  <2>5. Holding' BY <2>3 DEF EvictOne, StartLogout
  <2> QED BY <2>4, <2>5
<1>7. CASE EvictDone(p)
  BY <1>7 DEF EvictDone, Finish, NoSession, SessionType
<1>8. CASE Collect(p)
  BY <1>8, RangeType DEF Collect
<1>9. CASE ScanBodies(p)
  BY <1>9 DEF ScanBodies
<1>10. CASE MappingFallback(p)
  BY <1>10 DEF MappingFallback
<1>11. CASE \E t \in Tokens : AccountOne(p, t)
  BY <1>11 DEF AccountOne, StartLogout
<1>12. CASE AccountDone(p)
  BY <1>12 DEF AccountDone
<1>13. CASE DropSession(p)
  BY <1>13 DEF DropSession, NoSession, SessionType
<1> QED BY <1>1, <1>2, <1>3, <1>4, <1>5, <1>6, <1>7, <1>8, <1>9, <1>10, <1>11, <1>12,
   <1>13 DEF AccountStep

\* A renewal keeps the types.
LEMMA RenewStepType ==
  ASSUME TypeInv, UNCHANGED config, NEW p \in Procs, RenewStep(p)
  PROVE  TypeInv'
<1> USE DEF TypeInv, TypeOK, Holding, MaxLoginCount, Goto, Labels, LoginLabels,
   LogoutLabels,
             AccountLabels, RenewLabels, ReturnLabels, LogoutModes, store, loginVars,
             logoutVars, listVars, history
<1>1. CASE RenewCheckMark(p)
  BY <1>1 DEF RenewCheckMark
<1>2. CASE RenewReadBody(p)
  BY <1>2 DEF RenewReadBody
<1>3. CASE RenewWriteBody(p)
  BY <1>3 DEF RenewWriteBody
<1> QED BY <1>1, <1>2, <1>3 DEF RenewStep

\* A call that starts keeps the types.
LEMMA BeginType ==
  ASSUME TypeInv, UNCHANGED config, NEW p \in Procs, Begin(p)
  PROVE  TypeInv'
<1> USE DEF TypeInv, TypeOK, Holding, MaxLoginCount, Goto, Labels, LoginLabels,
   LogoutLabels,
             AccountLabels, RenewLabels, ReturnLabels, LogoutModes, store, loginVars,
             logoutVars, listVars, history
<1>1. CASE \E t \in Tokens, d \in Devices \cup {NoDevice} : Login(p, t, d)
  BY <1>1, ConstantsAssumption DEF Login, IsShare
<1>2. CASE \E t \in Tokens : Logout(p, t)
  BY <1>2 DEF Logout, TokenCall, StartLogout, LogoutEntry
<1>3. CASE \E t \in Tokens : KickOutByToken(p, t)
  BY <1>3 DEF KickOutByToken, TokenCall, StartLogout
<1>4. CASE \E t \in Tokens : ReplacedByToken(p, t)
  BY <1>4 DEF ReplacedByToken, TokenCall, StartLogout
<1>5. CASE \E t \in Tokens : Renew(p, t)
  BY <1>5 DEF Renew
<1>6. CASE LogoutByLoginId(p)
  BY <1>6 DEF LogoutByLoginId, AccountCall, CollectInto, Live
<1>7. CASE KickOut(p)
  BY <1>7 DEF KickOut, AccountCall, CollectInto, Live
<1> QED BY <1>1, <1>2, <1>3, <1>4, <1>5, <1>6, <1>7 DEF Begin

\* A storage error or a dropped task keeps the types.
LEMMA DisturbType ==
  ASSUME TypeInv, UNCHANGED config, NEW p \in Procs, Disturb(p)
  PROVE  TypeInv'
<1> USE DEF TypeInv, TypeOK, Holding, MaxLoginCount, Goto, Labels, LoginLabels,
   LogoutLabels,
             AccountLabels, RenewLabels, ReturnLabels, LogoutModes, store, loginVars,
             logoutVars, listVars, history
<1>1. CASE Fault(p)
  <2>1. UNCHANGED <<store, loginVars, logoutVars, local, listVars, history>>
    BY <1>1 DEF Fault
  <2>2. PICK l : l = OnError(p) /\ pc' = [pc EXCEPT ![p] = l]
    BY <1>1 DEF Fault
  <2>3. \/ l = "rollback" /\ pc[p] \in LoginAborts
        \/ l = "before" /\ pc[p] \in {"shareMark", "shareBody"}
        \/ l = ret[p] /\ pc[p] \in LogoutAborts \cup LogoutLabels
        \/ l \in {"readTerminals", "casDelete",
           "deleteSession"} /\ pc[p] \in LogoutLabels
        \/ l \in {"evictNext", "return", "mappingFallback"}
    BY <2>2 DEF OnError, AccountAbort, AfterTerminals
  <2>4. TypeOK' BY <2>1, <2>2, <2>3 DEF LoginAborts, LogoutAborts
  <2>5. Holding' BY <2>1, <2>2, <2>3 DEF LoginAborts, LogoutAborts
  <2> QED BY <2>4, <2>5
<1>2. CASE UndoFault(p)
  BY <1>2, FrontType DEF UndoFault
<1>3. CASE ProbeFault(p)
  BY <1>3 DEF ProbeFault
<1>4. CASE PruneFault(p)
  BY <1>4 DEF PruneFault
<1>5. CASE Crash(p)
  BY <1>5 DEF Crash, Finish, NoSession, SessionType
<1> QED BY <1>1, <1>2, <1>3, <1>4, <1>5 DEF Disturb

\* A call that returns keeps the types.
LEMMA ReturnType ==
  ASSUME TypeInv, UNCHANGED config, NEW p \in Procs, Return(p)
  PROVE  TypeInv'
BY DEF Return, Finish, NoSession, SessionType, TypeInv, TypeOK, Holding,
   MaxLoginCount, Goto, Labels, LoginLabels, LogoutLabels,
             AccountLabels, RenewLabels, ReturnLabels, LogoutModes, store, loginVars,
             logoutVars, listVars, history

\* TypeInv is inductive.
LEMMA TypeStep ==
  ASSUME TypeInv, [Next]_vars
  PROVE  TypeInv'
<1>1. CASE UNCHANGED vars
  BY <1>1 DEF vars, TypeInv, TypeOK, Holding, MaxLoginCount, store, loginVars,
     logoutVars, listVars, history
<1>2. CASE Next
  BY <1>2, BeginType, LoginStepType, LogoutStepType, AccountStepType,
     RenewStepType, ReturnType, DisturbType DEF Next, Step
<1> QED BY <1>1, <1>2

\* Every variable keeps its type, in every configuration: in particular a login
\* step always has a token, an eviction only runs with a positive limit, and
\* prune_index never takes the head of an empty list.
THEOREM TypeCorrect == Spec => []TypeOK
<1>1. TypeInv => TypeOK
  BY DEF TypeInv
<1> QED BY InitType, TypeStep, <1>1, PTL DEF Spec

-----------------------------------------------------------------------------
(***************************************************************************)
(* The tokens of logins, whatever the configuration                         *)
(***************************************************************************)

\* The locals of a call that returns.
LEMMA Finished ==
  ASSUME TypeOK, NEW p \in Procs, Finish(p)
  PROVE  /\ pc' = [pc EXCEPT ![p] = "idle"] /\ tok' = [tok EXCEPT ![p] = NoToken]
         /\ cur' = [cur EXCEPT ![p] = NoToken] /\ ret' = [ret EXCEPT ![p] = "return"]
         /\ mode' = [mode EXCEPT ![p] = "Logout"] /\ comp' = [comp EXCEPT ![p] = <<>>]
BY DEF Finish, Goto

\* The steps that neither start nor end a call, nor commit or roll a login back:
\* they leave what OwnedInv speaks of alone, but for cas_delete.
Inner(p) ==
  \/ LogoutStep(p) \/ RenewStep(p)
  \/ ReadShare(p) \/ CheckShareMark(p) \/ ReadBefore(p) \/ ListTerminals(p)
  \/ ListTokens(p) \/ AddMappingTarget(p) \/ (\E t \in Tokens : ReplaceOne(p, t))
  \/ ReplaceDone(p) \/ AppendIndex(p) \/ Snapshot(p) \/ ReadSession(p) \/ SaveSession(p)
  \/ SaveTokenId(p) \/ SaveBody(p) \/ CasRefused(p) \/ CasLost(p) \/ Rollback(p)
  \/ ListIndex(p) \/ Probe(p) \/ Prune(p) \/ PruneDone(p) \/ Enforce(p)
  \/ (\E t \in Tokens : EvictOne(p, t)) \/ Collect(p) \/ ScanBodies(p)
  \/ MappingFallback(p) \/ (\E t \in Tokens : AccountOne(p, t)) \/ AccountDone(p)
  \/ DropSession(p)
  \/ Fault(p) \/ UndoFault(p) \/ ProbeFault(p) \/ PruneFault(p)

\* They change neither the tokens drawn, committed and given back nor whose they are.
LEMMA InnerOwned ==
  ASSUME TypeInv, NEW p \in Procs, Inner(p)
  PROVE  /\ UNCHANGED <<used, committed, rolledBack, tok, device>>
         /\ mapping' \in {mapping, NoToken}
<1> USE DEF store, history, loginVars
<1>1. CASE LogoutStep(p) \/ RenewStep(p)
  BY <1>1 DEF LogoutStep, RangeBody, RangeId, ResolveBody, ResolveId, DeleteBody, Mark,
     RemoveIndex, ReadTerminals, SaveTerminals, CountTerminals, DeleteSession, CasDelete,
     RenewStep, RenewCheckMark, RenewReadBody, RenewWriteBody
<1>2. CASE ReadShare(p) \/ CheckShareMark(p) \/ ReadBefore(p) \/ ListTerminals(p)
  \/ ListTokens(p) \/ AddMappingTarget(p) \/ (\E t \in Tokens : ReplaceOne(p, t))
  \/ ReplaceDone(p) \/ AppendIndex(p) \/ Snapshot(p) \/ ReadSession(p) \/ SaveSession(p)
  \/ SaveTokenId(p) \/ SaveBody(p) \/ CasRefused(p) \/ CasLost(p) \/ Rollback(p)
  BY <1>2 DEF ReadShare, CheckShareMark, ReadBefore, ListTerminals, ListTokens,
     AddMappingTarget, ReplaceOne, ReplaceDone, AppendIndex, Snapshot, ReadSession,
     SaveSession, SaveTokenId, SaveBody, CasRefused, CasLost, Rollback
<1>3. CASE ListIndex(p) \/ Probe(p) \/ Prune(p) \/ PruneDone(p) \/ Enforce(p)
  \/ (\E t \in Tokens : EvictOne(p, t)) \/ Collect(p) \/ ScanBodies(p)
  \/ MappingFallback(p) \/ (\E t \in Tokens : AccountOne(p, t)) \/ AccountDone(p)
  \/ DropSession(p)
  BY <1>3 DEF ListIndex, Probe, Prune, PruneDone, Enforce, EvictOne, Collect, ScanBodies,
     MappingFallback, AccountOne, AccountDone, DropSession
<1>4. CASE Fault(p) \/ UndoFault(p) \/ ProbeFault(p) \/ PruneFault(p)
  BY <1>4 DEF Fault, UndoFault, ProbeFault, PruneFault
<1> QED BY <1>1, <1>2, <1>3, <1>4 DEF Inner

\* None of them takes a task into a login it was not in, nor into a share or a
\* renewal, and a renewal stays with its token.
Stays(q) ==
  /\ LoggingIn(q)' => LoggingIn(q)
  /\ (pc[q] \in ShareLabels)' => pc[q] \in ShareLabels
  /\ (pc[q] \in RenewLabels)' => pc[q] \in RenewLabels /\ UNCHANGED cur[q]

\* The locals of the other tasks are their own.
Others(p) == \A q \in Procs \ {p} : UNCHANGED <<pc[q], ret[q], cur[q]>>

\* A step of p that stays, and leaves the locals of the others alone, has all stay.
LEMMA OthersStay ==
  ASSUME NEW p \in Procs, Others(p), Stays(p)
  PROVE  \A q \in Procs : Stays(q)
BY DEF Others, Stays, LoggingIn, Replacing

\* The steps above are such steps; one step of the proof per action.
LEMMA InnerStays ==
  ASSUME TypeInv, NEW p \in Procs, Inner(p)
  PROVE  \A q \in Procs : Stays(q)
<1>1. /\ pc \in [Procs -> Labels] /\ ret \in [Procs -> ReturnLabels]
      /\ cur \in [Procs -> Tokens \cup {NoToken}]
      /\ pc[p] \in {"rangeBody", "rangeId"} => ret[p] # "replaceNext"
      /\ pc[p] \in {"listIndex", "probe", "prune"} => ret[p] \in {"enforce", "collect"}
  BY DEF TypeInv, TypeOK, Holding
<1> USE <1>1 DEF Goto, logoutVars
<1> SUFFICES Others(p) /\ Stays(p)
  BY OthersStay
<1>2. CASE RangeBody(p)
  <2>1. Others(p)
    BY <1>2 DEF Others, RangeBody, CollectInto
  <2>2. Stays(p)
    BY <1>2 DEF Stays, LoggingIn, Replacing, ShareLabels, LoginLabels, LogoutLabels,
       RenewLabels, ReturnLabels, RangeBody, CollectInto
  <2> QED BY <2>1, <2>2
<1>3. CASE RangeId(p)
  <2>1. Others(p)
    BY <1>3 DEF Others, RangeId, CollectInto
  <2>2. Stays(p)
    BY <1>3 DEF Stays, LoggingIn, Replacing, ShareLabels, LoginLabels, LogoutLabels,
       RenewLabels, ReturnLabels, RangeId, CollectInto
  <2> QED BY <2>1, <2>2
<1>4. CASE ResolveBody(p)
  <2>1. Others(p)
    BY <1>4 DEF Others, ResolveBody
  <2>2. Stays(p)
    BY <1>4 DEF Stays, LoggingIn, Replacing, ShareLabels, LoginLabels, LogoutLabels,
       RenewLabels, ReturnLabels, ResolveBody
  <2> QED BY <2>1, <2>2
<1>5. CASE ResolveId(p)
  <2>1. Others(p)
    BY <1>5 DEF Others, ResolveId
  <2>2. Stays(p)
    BY <1>5 DEF Stays, LoggingIn, Replacing, ShareLabels, LoginLabels, LogoutLabels,
       RenewLabels, ReturnLabels, ResolveId
  <2> QED BY <2>1, <2>2
<1>6. CASE DeleteBody(p)
  <2>1. Others(p)
    BY <1>6 DEF Others, DeleteBody
  <2>2. Stays(p)
    BY <1>6 DEF Stays, LoggingIn, Replacing, ShareLabels, LoginLabels, LogoutLabels,
       RenewLabels, ReturnLabels, DeleteBody
  <2> QED BY <2>1, <2>2
<1>7. CASE Mark(p)
  <2>1. Others(p)
    BY <1>7 DEF Others, Mark
  <2>2. Stays(p)
    BY <1>7 DEF Stays, LoggingIn, Replacing, ShareLabels, LoginLabels, LogoutLabels,
       RenewLabels, ReturnLabels, Mark
  <2> QED BY <2>1, <2>2
<1>8. CASE RemoveIndex(p)
  <2>1. Others(p)
    BY <1>8 DEF Others, RemoveIndex
  <2>2. Stays(p)
    BY <1>8 DEF Stays, LoggingIn, Replacing, ShareLabels, LoginLabels, LogoutLabels,
       RenewLabels, ReturnLabels, RemoveIndex
  <2> QED BY <2>1, <2>2
<1>9. CASE ReadTerminals(p)
  <2>1. Others(p)
    BY <1>9 DEF Others, ReadTerminals, AfterTerminals
  <2>2. Stays(p)
    BY <1>9 DEF Stays, LoggingIn, Replacing, ShareLabels, LoginLabels, LogoutLabels,
       RenewLabels, ReturnLabels, ReadTerminals, AfterTerminals
  <2> QED BY <2>1, <2>2
<1>10. CASE SaveTerminals(p)
  <2>1. Others(p)
    BY <1>10 DEF Others, SaveTerminals
  <2>2. Stays(p)
    BY <1>10 DEF Stays, LoggingIn, Replacing, ShareLabels, LoginLabels, LogoutLabels,
       RenewLabels, ReturnLabels, SaveTerminals
  <2> QED BY <2>1, <2>2
<1>11. CASE CountTerminals(p)
  <2>1. Others(p)
    BY <1>11 DEF Others, CountTerminals, AfterTerminals
  <2>2. Stays(p)
    BY <1>11 DEF Stays, LoggingIn, Replacing, ShareLabels, LoginLabels, LogoutLabels,
       RenewLabels, ReturnLabels, CountTerminals, AfterTerminals
  <2> QED BY <2>1, <2>2
<1>12. CASE DeleteSession(p)
  <2>1. Others(p)
    BY <1>12 DEF Others, DeleteSession, AfterTerminals
  <2>2. Stays(p)
    BY <1>12 DEF Stays, LoggingIn, Replacing, ShareLabels, LoginLabels, LogoutLabels,
       RenewLabels, ReturnLabels, DeleteSession, AfterTerminals
  <2> QED BY <2>1, <2>2
<1>13. CASE CasDelete(p)
  <2>1. Others(p)
    BY <1>13 DEF Others, CasDelete
  <2>2. Stays(p)
    BY <1>13 DEF Stays, LoggingIn, Replacing, ShareLabels, LoginLabels, LogoutLabels,
       RenewLabels, ReturnLabels, CasDelete
  <2> QED BY <2>1, <2>2
<1>14. CASE RenewCheckMark(p)
  <2>1. Others(p)
    BY <1>14 DEF Others, RenewCheckMark
  <2>2. Stays(p)
    BY <1>14 DEF Stays, LoggingIn, Replacing, ShareLabels, LoginLabels, LogoutLabels,
       RenewLabels, ReturnLabels, RenewCheckMark
  <2> QED BY <2>1, <2>2
<1>15. CASE RenewReadBody(p)
  <2>1. Others(p)
    BY <1>15 DEF Others, RenewReadBody
  <2>2. Stays(p)
    BY <1>15 DEF Stays, LoggingIn, Replacing, ShareLabels, LoginLabels, LogoutLabels,
       RenewLabels, ReturnLabels, RenewReadBody
  <2> QED BY <2>1, <2>2
<1>16. CASE RenewWriteBody(p)
  <2>1. Others(p)
    BY <1>16 DEF Others, RenewWriteBody
  <2>2. Stays(p)
    BY <1>16 DEF Stays, LoggingIn, Replacing, ShareLabels, LoginLabels, LogoutLabels,
       RenewLabels, ReturnLabels, RenewWriteBody
  <2> QED BY <2>1, <2>2
<1>17. CASE ReadShare(p)
  <2>1. Others(p)
    BY <1>17 DEF Others, ReadShare
  <2>2. Stays(p)
    BY <1>17 DEF Stays, LoggingIn, Replacing, ShareLabels, LoginLabels, LogoutLabels,
       RenewLabels, ReturnLabels, ReadShare
  <2> QED BY <2>1, <2>2
<1>18. CASE CheckShareMark(p)
  <2>1. Others(p)
    BY <1>18 DEF Others, CheckShareMark
  <2>2. Stays(p)
    BY <1>18 DEF Stays, LoggingIn, Replacing, ShareLabels, LoginLabels, LogoutLabels,
       RenewLabels, ReturnLabels, CheckShareMark
  <2> QED BY <2>1, <2>2
<1>19. CASE ReadBefore(p)
  <2>1. Others(p)
    BY <1>19 DEF Others, ReadBefore
  <2>2. Stays(p)
    BY <1>19 DEF Stays, LoggingIn, Replacing, ShareLabels, LoginLabels, LogoutLabels,
       RenewLabels, ReturnLabels, ReadBefore
  <2> QED BY <2>1, <2>2
<1>20. CASE ListTerminals(p)
  <2>1. Others(p)
    BY <1>20 DEF Others, ListTerminals, Replace
  <2>2. Stays(p)
    BY <1>20 DEF Stays, LoggingIn, Replacing, ShareLabels, LoginLabels, LogoutLabels,
       RenewLabels, ReturnLabels, ListTerminals, Replace
  <2> QED BY <2>1, <2>2
<1>21. CASE ListTokens(p)
  <2>1. Others(p)
    BY <1>21 DEF Others, ListTokens
  <2>2. Stays(p)
    BY <1>21 DEF Stays, LoggingIn, Replacing, ShareLabels, LoginLabels, LogoutLabels,
       RenewLabels, ReturnLabels, ListTokens
  <2> QED BY <2>1, <2>2
<1>22. CASE AddMappingTarget(p)
  <2>1. Others(p)
    BY <1>22 DEF Others, AddMappingTarget, Replace
  <2>2. Stays(p)
    BY <1>22 DEF Stays, LoggingIn, Replacing, ShareLabels, LoginLabels, LogoutLabels,
       RenewLabels, ReturnLabels, AddMappingTarget, Replace
  <2> QED BY <2>1, <2>2
<1>23. CASE \E t \in Tokens : ReplaceOne(p, t)
  <2>1. Others(p)
    BY <1>23 DEF Others, ReplaceOne, StartLogout
  <2>2. Stays(p)
    BY <1>23 DEF Stays, LoggingIn, Replacing, ShareLabels, LoginLabels, LogoutLabels,
       RenewLabels, ReturnLabels, ReplaceOne, StartLogout
  <2> QED BY <2>1, <2>2
<1>24. CASE ReplaceDone(p)
  <2>1. Others(p)
    BY <1>24 DEF Others, ReplaceDone
  <2>2. Stays(p)
    BY <1>24 DEF Stays, LoggingIn, Replacing, ShareLabels, LoginLabels, LogoutLabels,
       RenewLabels, ReturnLabels, ReplaceDone
  <2> QED BY <2>1, <2>2
<1>25. CASE AppendIndex(p)
  <2>1. Others(p)
    BY <1>25 DEF Others, AppendIndex
  <2>2. Stays(p)
    BY <1>25 DEF Stays, LoggingIn, Replacing, ShareLabels, LoginLabels, LogoutLabels,
       RenewLabels, ReturnLabels, AppendIndex
  <2> QED BY <2>1, <2>2
<1>26. CASE Snapshot(p)
  <2>1. Others(p)
    BY <1>26 DEF Others, Snapshot
  <2>2. Stays(p)
    BY <1>26 DEF Stays, LoggingIn, Replacing, ShareLabels, LoginLabels, LogoutLabels,
       RenewLabels, ReturnLabels, Snapshot
  <2> QED BY <2>1, <2>2
<1>27. CASE ReadSession(p)
  <2>1. Others(p)
    BY <1>27 DEF Others, ReadSession
  <2>2. Stays(p)
    BY <1>27 DEF Stays, LoggingIn, Replacing, ShareLabels, LoginLabels, LogoutLabels,
       RenewLabels, ReturnLabels, ReadSession
  <2> QED BY <2>1, <2>2
<1>28. CASE SaveSession(p)
  <2>1. Others(p)
    BY <1>28 DEF Others, SaveSession
  <2>2. Stays(p)
    BY <1>28 DEF Stays, LoggingIn, Replacing, ShareLabels, LoginLabels, LogoutLabels,
       RenewLabels, ReturnLabels, SaveSession
  <2> QED BY <2>1, <2>2
<1>29. CASE SaveTokenId(p)
  <2>1. Others(p)
    BY <1>29 DEF Others, SaveTokenId
  <2>2. Stays(p)
    BY <1>29 DEF Stays, LoggingIn, Replacing, ShareLabels, LoginLabels, LogoutLabels,
       RenewLabels, ReturnLabels, SaveTokenId
  <2> QED BY <2>1, <2>2
<1>30. CASE SaveBody(p)
  <2>1. Others(p)
    BY <1>30 DEF Others, SaveBody
  <2>2. Stays(p)
    BY <1>30 DEF Stays, LoggingIn, Replacing, ShareLabels, LoginLabels, LogoutLabels,
       RenewLabels, ReturnLabels, SaveBody
  <2> QED BY <2>1, <2>2
<1>31. CASE CasRefused(p)
  <2>1. Others(p)
    BY <1>31 DEF Others, CasRefused
  <2>2. Stays(p)
    BY <1>31 DEF Stays, LoggingIn, Replacing, ShareLabels, LoginLabels, LogoutLabels,
       RenewLabels, ReturnLabels, CasRefused
  <2> QED BY <2>1, <2>2
<1>32. CASE CasLost(p)
  <2>1. Others(p)
    BY <1>32 DEF Others, CasLost
  <2>2. Stays(p)
    BY <1>32 DEF Stays, LoggingIn, Replacing, ShareLabels, LoginLabels, LogoutLabels,
       RenewLabels, ReturnLabels, CasLost
  <2> QED BY <2>1, <2>2
<1>33. CASE Rollback(p)
  <2>1. Others(p)
    BY <1>33 DEF Others, Rollback
  <2>2. Stays(p)
    BY <1>33 DEF Stays, LoggingIn, Replacing, ShareLabels, LoginLabels, LogoutLabels,
       RenewLabels, ReturnLabels, Rollback
  <2> QED BY <2>1, <2>2
<1>34. CASE ListIndex(p)
  <2>1. Others(p)
    BY <1>34 DEF Others, ListIndex
  <2>2. Stays(p)
    BY <1>34 DEF Stays, LoggingIn, Replacing, ShareLabels, LoginLabels, LogoutLabels,
       RenewLabels, ReturnLabels, ListIndex
  <2> QED BY <2>1, <2>2
<1>35. CASE Probe(p)
  <2>1. Others(p)
    BY <1>35 DEF Others, Probe
  <2>2. Stays(p)
    BY <1>35 DEF Stays, LoggingIn, Replacing, ShareLabels, LoginLabels, LogoutLabels,
       RenewLabels, ReturnLabels, Probe
  <2> QED BY <2>1, <2>2
<1>36. CASE Prune(p)
  <2>1. Others(p)
    BY <1>36 DEF Others, Prune
  <2>2. Stays(p)
    BY <1>36 DEF Stays, LoggingIn, Replacing, ShareLabels, LoginLabels, LogoutLabels,
       RenewLabels, ReturnLabels, Prune
  <2> QED BY <2>1, <2>2
<1>37. CASE PruneDone(p)
  <2>1. Others(p)
    BY <1>37 DEF Others, PruneDone
  <2>2. Stays(p)
    BY <1>37 DEF Stays, LoggingIn, Replacing, ShareLabels, LoginLabels, LogoutLabels,
       RenewLabels, ReturnLabels, PruneDone
  <2> QED BY <2>1, <2>2
<1>38. CASE Enforce(p)
  <2>1. Others(p)
    BY <1>38 DEF Others, Enforce
  <2>2. Stays(p)
    BY <1>38 DEF Stays, LoggingIn, Replacing, ShareLabels, LoginLabels, LogoutLabels,
       RenewLabels, ReturnLabels, Enforce
  <2> QED BY <2>1, <2>2
<1>39. CASE \E t \in Tokens : EvictOne(p, t)
  <2>1. Others(p)
    BY <1>39 DEF Others, EvictOne, StartLogout, LogoutEntry
  <2>2. Stays(p)
    BY <1>39 DEF Stays, LoggingIn, Replacing, ShareLabels, LoginLabels, LogoutLabels,
       RenewLabels, ReturnLabels, EvictOne, StartLogout, LogoutEntry
  <2> QED BY <2>1, <2>2
<1>40. CASE Collect(p)
  <2>1. Others(p)
    BY <1>40 DEF Others, Collect
  <2>2. Stays(p)
    BY <1>40 DEF Stays, LoggingIn, Replacing, ShareLabels, LoginLabels, LogoutLabels,
       RenewLabels, ReturnLabels, Collect
  <2> QED BY <2>1, <2>2
<1>41. CASE ScanBodies(p)
  <2>1. Others(p)
    BY <1>41 DEF Others, ScanBodies
  <2>2. Stays(p)
    BY <1>41 DEF Stays, LoggingIn, Replacing, ShareLabels, LoginLabels, LogoutLabels,
       RenewLabels, ReturnLabels, ScanBodies
  <2> QED BY <2>1, <2>2
<1>42. CASE MappingFallback(p)
  <2>1. Others(p)
    BY <1>42 DEF Others, MappingFallback
  <2>2. Stays(p)
    BY <1>42 DEF Stays, LoggingIn, Replacing, ShareLabels, LoginLabels, LogoutLabels,
       RenewLabels, ReturnLabels, MappingFallback
  <2> QED BY <2>1, <2>2
<1>43. CASE \E t \in Tokens : AccountOne(p, t)
  <2>1. Others(p)
    BY <1>43 DEF Others, AccountOne, StartLogout
  <2>2. Stays(p)
    BY <1>43 DEF Stays, LoggingIn, Replacing, ShareLabels, LoginLabels, LogoutLabels,
       RenewLabels, ReturnLabels, AccountOne, StartLogout
  <2> QED BY <2>1, <2>2
<1>44. CASE AccountDone(p)
  <2>1. Others(p)
    BY <1>44 DEF Others, AccountDone
  <2>2. Stays(p)
    BY <1>44 DEF Stays, LoggingIn, Replacing, ShareLabels, LoginLabels, LogoutLabels,
       RenewLabels, ReturnLabels, AccountDone
  <2> QED BY <2>1, <2>2
<1>45. CASE DropSession(p)
  <2>1. Others(p)
    BY <1>45 DEF Others, DropSession
  <2>2. Stays(p)
    BY <1>45 DEF Stays, LoggingIn, Replacing, ShareLabels, LoginLabels, LogoutLabels,
       RenewLabels, ReturnLabels, DropSession
  <2> QED BY <2>1, <2>2
<1>46. CASE Fault(p)
  <2>1. pc' = [pc EXCEPT ![p] = OnError(p)] /\ UNCHANGED <<cur, ret>>
    BY <1>46 DEF Fault
  <2>2. /\ OnError(p) \notin ShareLabels \cup RenewLabels
        /\ OnError(p) \in LoginLabels => LoggingIn(p)
        /\ OnError(p) \in LogoutLabels /\ ret[p] = "replaceNext" => LoggingIn(p)
    BY <1>46 DEF Fault, OnError, LoginAborts, LogoutAborts, AccountAbort, AfterTerminals,
       LoggingIn, Replacing, ShareLabels, LoginLabels, LogoutLabels, RenewLabels,
       ReturnLabels
  <2>3. Others(p)
    BY <2>1 DEF Others
  <2>4. Stays(p)
    BY <2>1, <2>2 DEF Stays, LoggingIn, Replacing
  <2> QED BY <2>3, <2>4
<1>47. CASE UndoFault(p)
  <2>1. Others(p)
    BY <1>47 DEF Others, UndoFault
  <2>2. Stays(p)
    BY <1>47 DEF Stays, LoggingIn, Replacing, ShareLabels, LoginLabels, LogoutLabels,
       RenewLabels, ReturnLabels, UndoFault
  <2> QED BY <2>1, <2>2
<1>48. CASE ProbeFault(p)
  <2>1. Others(p)
    BY <1>48 DEF Others, ProbeFault
  <2>2. Stays(p)
    BY <1>48 DEF Stays, LoggingIn, Replacing, ShareLabels, LoginLabels, LogoutLabels,
       RenewLabels, ReturnLabels, ProbeFault
  <2> QED BY <2>1, <2>2
<1>49. CASE PruneFault(p)
  <2>1. Others(p)
    BY <1>49 DEF Others, PruneFault
  <2>2. Stays(p)
    BY <1>49 DEF Stays, LoggingIn, Replacing, ShareLabels, LoginLabels, LogoutLabels,
       RenewLabels, ReturnLabels, PruneFault
  <2> QED BY <2>1, <2>2
<1> QED BY <1>2, <1>3, <1>4, <1>5, <1>6, <1>7, <1>8, <1>9, <1>10, <1>11, <1>12, <1>13,
    <1>14, <1>15, <1>16, <1>17, <1>18, <1>19, <1>20, <1>21, <1>22, <1>23, <1>24, <1>25,
    <1>26, <1>27, <1>28, <1>29, <1>30, <1>31, <1>32, <1>33, <1>34, <1>35, <1>36, <1>37,
    <1>38, <1>39, <1>40, <1>41, <1>42, <1>43, <1>44, <1>45, <1>46, <1>47, <1>48, <1>49 DEF
    Inner, LogoutStep, RenewStep

\* No token is drawn at first.
LEMMA InitOwned == Init => OwnedInv
BY ConstantsAssumption DEF Init, OwnedInv, LoggingIn, Replacing, LoginLabels,
   LogoutLabels, RenewLabels

\* A call that returns, with its token among the committed, the rolled back, the
\* unused ones again, or left behind.
LEMMA FinishOwned ==
  ASSUME TypeInv, OwnedInv, NEW p \in Procs, Finish(p), used' \in {used, used \ {tok[p]}},
         used' # used => tok[p] \notin committed,
         \/ UNCHANGED <<mapping, committed, rolledBack>>
         \/ tok[p] \in Tokens \ committed /\ UNCHANGED <<mapping, committed, used>>
              /\ rolledBack' = rolledBack \cup {tok[p]}
         \/ tok[p] \in Tokens /\ UNCHANGED <<rolledBack, used>> /\ mapping' = tok[p]
              /\ committed' = committed \cup {tok[p]}
  PROVE  OwnedInv'
<1>1. /\ pc' = [pc EXCEPT ![p] = "idle"] /\ tok' = [tok EXCEPT ![p] = NoToken]
      /\ cur' = [cur EXCEPT ![p] = NoToken] /\ ret' = [ret EXCEPT ![p] = "return"]
  BY Finished DEF TypeInv
<1>2. /\ pc \in [Procs -> Labels] /\ tok \in [Procs -> Tokens \cup {NoToken}]
      /\ ret \in [Procs -> ReturnLabels] /\ cur \in [Procs -> Tokens \cup {NoToken}]
      /\ committed \subseteq Tokens /\ rolledBack \subseteq Tokens
  BY DEF TypeInv, TypeOK
<1>3. NoToken \notin committed \cup rolledBack \cup Tokens
  BY <1>2, ConstantsAssumption
<1>4. tok[p] \in Tokens => tok[p] \in used \ rolledBack
  BY <1>3 DEF OwnedInv
<1>5. /\ committed' \subseteq used' /\ rolledBack' \subseteq used' \ committed'
      /\ mapping' \in committed' \cup {NoToken}
  BY <1>2, <1>3, <1>4 DEF OwnedInv
<1>6. \A q \in Procs : tok'[q] # NoToken => q # p /\ tok'[q] = tok[q] /\ tok[q] # tok[p]
  BY <1>1, <1>2 DEF OwnedInv
<1>7. \A q \in Procs : tok'[q] # NoToken => tok'[q] \in used' \ rolledBack'
  BY <1>6 DEF OwnedInv
<1>8. \A q, r \in Procs : tok'[q] = tok'[r] /\ tok'[q] # NoToken => q = r
  BY <1>6 DEF OwnedInv
<1>9. \A q \in Procs : LoggingIn(q)' => tok'[q] \notin committed'
  <2>1. TAKE q \in Procs
  <2>2. CASE q = p
    BY <1>1, <1>2, <2>2 DEF LoggingIn, Replacing, LoginLabels, LogoutLabels
  <2>3. CASE q # p
    <3>1. LoggingIn(q)' => LoggingIn(q)
      BY <1>1, <1>2, <2>3 DEF LoggingIn, Replacing
    <3>2. tok'[q] = tok[q] /\ (tok[q] = NoToken \/ tok[q] # tok[p])
      BY <1>1, <1>2, <2>3 DEF OwnedInv
    <3> QED BY <1>3, <3>1, <3>2 DEF OwnedInv
  <2> QED BY <2>2, <2>3
<1>10. \A q \in Procs : pc'[q] \in RenewLabels => cur'[q] \in committed'
  BY <1>1, <1>2 DEF OwnedInv, RenewLabels
<1> QED BY <1>5, <1>7, <1>8, <1>9, <1>10 DEF OwnedInv

\* A commit adds the token of the login to the committed ones.
LEMMA CommitOwned ==
  ASSUME TypeInv, OwnedInv, NEW p \in Procs, Commit(p), pc[p] \in LoginLabels
  PROVE  OwnedInv'
<1>1. /\ tok[p] \in Tokens /\ mapping' = tok[p] /\ committed' = committed \cup {tok[p]}
      /\ UNCHANGED <<used, rolledBack>>
  BY DEF Commit, TypeInv, Holding
<1>2. CASE ~(IsConcurrent /\ MaxLoginCount > 0)
  <2>1. Finish(p)
    BY <1>2 DEF Commit
  <2> QED BY <1>1, <2>1, FinishOwned
<1>3. CASE IsConcurrent /\ MaxLoginCount > 0
  <2>1. /\ pc' = [pc EXCEPT ![p] = "listIndex"] /\ ret' = [ret EXCEPT ![p] = "enforce"]
        /\ UNCHANGED <<tok, cur>>
    BY <1>3 DEF Commit, Goto, loginVars
  <2>2. /\ pc \in [Procs -> Labels] /\ tok \in [Procs -> Tokens \cup {NoToken}]
        /\ ret \in [Procs -> ReturnLabels] /\ committed \subseteq Tokens
        /\ NoToken \notin Tokens
    BY ConstantsAssumption DEF TypeInv, TypeOK
  <2>3. tok[p] \in used \ rolledBack
    BY <1>1, <2>2 DEF OwnedInv
  <2>4. /\ committed' \subseteq used' /\ rolledBack' \subseteq used' \ committed'
        /\ mapping' \in committed' \cup {NoToken}
    BY <1>1, <2>3 DEF OwnedInv
  <2>5. \A q \in Procs : LoggingIn(q)' => q # p /\ LoggingIn(q)
    BY <2>1, <2>2 DEF LoggingIn, Replacing, LoginLabels, LogoutLabels
  <2>6. \A q \in Procs : LoggingIn(q)' => tok'[q] \notin committed'
    BY <1>1, <2>1, <2>2, <2>5 DEF OwnedInv
  <2>7. \A q \in Procs : pc'[q] \in RenewLabels => cur'[q] \in committed'
    BY <1>1, <2>1, <2>2 DEF OwnedInv, RenewLabels
  <2> QED BY <1>1, <2>1, <2>4, <2>6, <2>7 DEF OwnedInv
<1> QED BY <1>2, <1>3

\* A login draws a token nobody has drawn; the other calls hold committed tokens.
LEMMA BeginOwned ==
  ASSUME TypeInv, OwnedInv, NEW p \in Procs, Begin(p)
  PROVE  OwnedInv'
<1>1. /\ pc \in [Procs -> Labels] /\ tok \in [Procs -> Tokens \cup {NoToken}]
      /\ ret \in [Procs -> ReturnLabels] /\ cur \in [Procs -> Tokens \cup {NoToken}]
      /\ committed \subseteq Tokens /\ NoToken \notin Tokens
  BY ConstantsAssumption DEF TypeInv, TypeOK
<1>2. ASSUME NEW t \in Tokens, NEW d \in Devices \cup {NoDevice}, Login(p, t, d)
      PROVE  OwnedInv'
  <2>1. /\ t \notin used /\ tok' = [tok EXCEPT ![p] = t] /\ used' = used \cup {t}
        /\ UNCHANGED <<mapping, committed, rolledBack, cur, ret>>
        /\ \E l \in {"share", "before"} : pc' = [pc EXCEPT ![p] = l]
    BY <1>2 DEF Login, Goto, logoutVars, store
  <2>2. \A q \in Procs : tok'[q] # NoToken =>
          \/ q = p /\ tok'[q] = t
          \/ q # p /\ tok'[q] = tok[q] /\ tok[q] \in used \ rolledBack
    BY <1>1, <2>1 DEF OwnedInv
  <2>3. \A q \in Procs : tok'[q] # NoToken => tok'[q] \in used' \ rolledBack'
    BY <2>1, <2>2 DEF OwnedInv
  <2>4. \A q, r \in Procs : tok'[q] = tok'[r] /\ tok'[q] # NoToken => q = r
    BY <2>1, <2>2 DEF OwnedInv
  <2>5. \A q \in Procs : LoggingIn(q)' => tok'[q] \notin committed'
    BY <1>1, <2>1 DEF LoggingIn, Replacing, LoginLabels, LogoutLabels, OwnedInv
  <2>6. \A q \in Procs : pc'[q] \in RenewLabels => cur'[q] \in committed'
    BY <1>1, <2>1 DEF OwnedInv, RenewLabels
  <2>7. /\ committed' \subseteq used' /\ rolledBack' \subseteq used' \ committed'
        /\ mapping' \in committed' \cup {NoToken}
    BY <2>1 DEF OwnedInv
  <2> QED BY <2>3, <2>4, <2>5, <2>6, <2>7 DEF OwnedInv
<1>3. ASSUME UNCHANGED <<used, mapping, committed, rolledBack, tok>>,
             NEW l \in {"rangeBody", "resolveBody", "listIndex", "renewMark"},
             NEW t \in Tokens \cup {NoToken},
             pc' = [pc EXCEPT ![p] = l], cur' = [cur EXCEPT ![p] = t],
             l # "renewMark" => ret'[p] \in {"return", "collect"},
             l = "renewMark" => t \in committed,
             \A q \in Procs \ {p} : ret'[q] = ret[q]
      PROVE  OwnedInv'
  <2>1. \A q \in Procs : LoggingIn(q)' => LoggingIn(q)
    BY <1>1, <1>3 DEF LoggingIn, Replacing, LoginLabels, LogoutLabels
  <2>2. \A q \in Procs : pc'[q] \in RenewLabels => cur'[q] \in committed'
    BY <1>1, <1>3 DEF OwnedInv, RenewLabels
  <2> QED BY <1>3, <2>1, <2>2 DEF OwnedInv
<1>4. ASSUME NEW t \in Tokens, NEW m, NEW c, NEW l \in {"rangeBody", "resolveBody"},
             TokenCall(p, t, m, c, l)
      PROVE  OwnedInv'
  <2>1. /\ UNCHANGED <<used, mapping, committed, rolledBack, tok>>
        /\ pc' = [pc EXCEPT ![p] = l] /\ cur' = [cur EXCEPT ![p] = t]
        /\ ret' = [ret EXCEPT ![p] = "return"]
    BY <1>4 DEF TokenCall, StartLogout, Goto, store, history, loginVars
  <2> QED BY <1>1, <1>3, <2>1
<1>5. ASSUME NEW m, NEW c, AccountCall(p, m, c)
      PROVE  OwnedInv'
  <2>1. /\ UNCHANGED <<used, mapping, committed, rolledBack, tok>>
        /\ pc' = [pc EXCEPT ![p] = "listIndex"] /\ UNCHANGED cur
        /\ ret' = [ret EXCEPT ![p] = "collect"]
    BY <1>5 DEF AccountCall, CollectInto, Goto, store, loginVars
  <2> QED BY <1>1, <1>3, <2>1
<1>6. ASSUME NEW t \in Tokens, Renew(p, t)
      PROVE  OwnedInv'
  <2>1. /\ UNCHANGED <<used, mapping, committed, rolledBack, tok, ret>> /\ t \in committed
        /\ pc' = [pc EXCEPT ![p] = "renewMark"] /\ cur' = [cur EXCEPT ![p] = t]
    BY <1>6 DEF Renew, Goto, store, loginVars, history
  <2> QED BY <1>1, <1>3, <2>1
<1>7. LogoutEntry \in {"rangeBody", "resolveBody"}
  BY DEF LogoutEntry
<1> QED
  BY <1>2, <1>4, <1>5, <1>6, <1>7
  DEF Begin, Logout, KickOutByToken, ReplacedByToken, LogoutByLoginId, KickOut

\* What a step is, as far as the tokens of logins go.
LEMMA StepKinds ==
  ASSUME NEW p \in Procs, Step(p) \/ Disturb(p)
  PROVE  \/ Inner(p)
         \/ CheckShareBody(p) \/ CommitConcurrent(p) \/ CommitCas(p) \/ CommitAbsent(p)
         \/ RolledBack(p) \/ EvictDone(p) \/ Return(p) \/ Crash(p)
BY DEF Step, Disturb, LoginStep, AccountStep, Inner

\* OwnedInv is inductive, for every configuration.
LEMMA StepOwned ==
  TypeInv /\ OwnedInv /\ [Next]_vars => OwnedInv'
<1> SUFFICES ASSUME TypeInv, OwnedInv, [Next]_vars PROVE OwnedInv'
  OBVIOUS
<1>1. CASE UNCHANGED vars
  BY <1>1 DEF OwnedInv, LoggingIn, Replacing, vars, store, loginVars, logoutVars, history
<1>2. ASSUME NEW p \in Procs, Begin(p)
      PROVE  OwnedInv'
  BY <1>2, BeginOwned
<1>3. ASSUME NEW p \in Procs, Step(p) \/ Disturb(p)
      PROVE  OwnedInv'
  <2>1. CASE Inner(p)
    <3>1. \A q \in Procs : Stays(q)
      BY <2>1, InnerStays
    <3>2. UNCHANGED <<used, committed, rolledBack, tok>> /\ mapping' \in {mapping, NoToken}
      BY <2>1, InnerOwned
    <3>3. \A q \in Procs : LoggingIn(q)' => tok'[q] \notin committed'
      BY <3>1, <3>2 DEF Stays, OwnedInv
    <3>4. \A q \in Procs : pc'[q] \in RenewLabels => cur'[q] \in committed'
      BY <3>1, <3>2 DEF Stays, OwnedInv
    <3> QED BY <3>2, <3>3, <3>4 DEF OwnedInv
  <2>2. CASE CheckShareBody(p)
    <3>1. CASE cur[p] \in body
      <4>1. /\ Finish(p) /\ used' = used \ {tok[p]}
            /\ UNCHANGED <<mapping, committed, rolledBack>> /\ pc[p] = "shareBody"
        BY <2>2, <3>1 DEF CheckShareBody, store
      <4>2. tok[p] \notin committed
        BY <4>1 DEF OwnedInv, LoggingIn, LoginLabels
      <4> QED BY <4>1, <4>2, FinishOwned
    <3>2. CASE cur[p] \notin body
      <4>1. /\ pc[p] = "shareBody" /\ pc' = [pc EXCEPT ![p] = "before"]
            /\ UNCHANGED <<used, mapping, committed, rolledBack, tok, ret, cur>>
        BY <2>2, <3>2 DEF CheckShareBody, Goto, store, loginVars, logoutVars
      <4>2. \A q \in Procs : LoggingIn(q)' => LoggingIn(q)
        BY <4>1 DEF LoggingIn, Replacing, LoginLabels, TypeInv, TypeOK
      <4>3. \A q \in Procs : pc'[q] \in RenewLabels => pc[q] \in RenewLabels
        BY <4>1 DEF RenewLabels, TypeInv, TypeOK
      <4> QED BY <4>1, <4>2, <4>3 DEF OwnedInv
    <3> QED BY <3>1, <3>2
  <2>3. CASE CommitConcurrent(p) \/ CommitCas(p) \/ CommitAbsent(p)
    BY <2>3, CommitOwned DEF CommitConcurrent, CommitCas, CommitAbsent, LoginLabels
  <2>4. CASE RolledBack(p)
    <3>1. /\ Finish(p) /\ rolledBack' = rolledBack \cup {tok[p]} /\ pc[p] = "rollback"
          /\ UNCHANGED <<mapping, committed, used>>
      BY <2>4 DEF RolledBack, store
    <3>2. tok[p] \in Tokens \ committed
      BY <3>1 DEF OwnedInv, LoggingIn, LoginLabels, TypeInv, Holding
    <3> QED BY <3>1, <3>2, FinishOwned
  <2>5. CASE EvictDone(p) \/ Return(p) \/ Crash(p)
    BY <2>5, FinishOwned DEF EvictDone, Return, Crash, store
  <2> QED BY <1>3, <2>1, <2>2, <2>3, <2>4, <2>5, StepKinds
<1> QED BY <1>1, <1>2, <1>3 DEF Next

-----------------------------------------------------------------------------
(***************************************************************************)
(* A failed login leaves nothing behind                                     *)
(***************************************************************************)

\* list_remove takes the one occurrence of t out, and puts nothing in.
LEMMA WithoutRange ==
  ASSUME NEW S, NEW s \in Seq(S), NEW t, NoRepeats(s)
  PROVE  NoRepeats(Without(s, t)) /\ Range(Without(s, t)) \subseteq Range(s) \ {t}
<1>1. CASE \E i \in DOMAIN s : s[i] = t
  <2>1. PICK i \in DOMAIN s : s[i] = t /\ Without(s, t) = RemoveAt(s, i)
    BY <1>1, Zenon DEF Without
  <2> DEFINE w == RemoveAt(s, i)
             a == SubSeq(s, 1, i-1)
             b == SubSeq(s, i+1, Len(s))
  <2>2. /\ Len(s) \in Nat /\ i \in 1..Len(s) /\ DOMAIN s = 1..Len(s)
        /\ \A k \in 1..Len(s) : s[k] \in S
    OBVIOUS
  <2>3. /\ a \in Seq(S) /\ Len(a) = i-1 /\ \A k \in 1..(i-1) : a[k] = s[k]
    BY <2>2, SubSeqProperties
  <2>4. /\ b \in Seq(S) /\ Len(b) = Len(s) - i
        /\ \A k \in 1..(Len(s) - i) : b[k] = s[i + k]
    BY <2>2, SubSeqProperties
  <2>5. w = a \o b
    BY DEF RemoveAt
  <2> HIDE DEF a, b, w
  <2>6. /\ w \in Seq(S) /\ Len(w) = Len(s) - 1
        /\ \A k \in 1..(Len(s) - 1) : w[k] = IF k < i THEN s[k] ELSE s[k+1]
    <3>1. /\ w \in Seq(S) /\ Len(w) = Len(a) + Len(b)
          /\ \A k \in 1..(Len(a) + Len(b)) :
               w[k] = IF k <= Len(a) THEN a[k] ELSE b[k - Len(a)]
      BY <2>3, <2>4, <2>5, ConcatProperties
    <3>2. ASSUME NEW k \in 1..(Len(s) - 1)
          PROVE  w[k] = IF k < i THEN s[k] ELSE s[k+1]
      <4>1. CASE k < i
        BY SMTT(30), <2>2, <2>3, <2>4, <3>1, <4>1
      <4>2. CASE ~(k < i)
        <5>1. /\ k \in 1..(Len(a) + Len(b)) /\ ~(k <= Len(a))
              /\ k - Len(a) \in 1..(Len(s) - i) /\ i + (k - Len(a)) = k + 1
          BY <2>2, <2>3, <2>4, <4>2
        <5>2. w[k] = b[k - Len(a)]
          BY <3>1, <5>1
        <5> QED BY <2>4, <4>2, <5>1, <5>2
      <4> QED BY <4>1, <4>2
    <3> QED BY <2>2, <2>3, <2>4, <3>1, <3>2
  <2>7. NoRepeats(w)
    <3> SUFFICES ASSUME NEW k \in 1..(Len(s) - 1), NEW l \in 1..(Len(s) - 1), w[k] = w[l]
                 PROVE  k = l
      BY SMTT(30), <2>6 DEF NoRepeats
    <3> DEFINE at(m) == IF m < i THEN m ELSE m + 1
    <3>1. at(k) \in 1..Len(s) /\ at(l) \in 1..Len(s) /\ (at(k) = at(l) => k = l)
      BY <2>2
    <3>2. w[k] = s[at(k)] /\ w[l] = s[at(l)]
      BY <2>6
    <3> QED BY <2>2, <3>1, <3>2 DEF NoRepeats
  <2>8. \A k \in DOMAIN w : w[k] \in Range(s) /\ w[k] # t
    BY SMTT(30), <2>1, <2>2, <2>6 DEF NoRepeats, Range
  <2>9. Without(s, t) = w
    BY <2>1 DEF w
  <2> QED BY <2>7, <2>8, <2>9 DEF Range
<1>2. CASE ~ \E i \in DOMAIN s : s[i] = t
  BY <1>2 DEF Without, Range
<1> QED BY <1>1, <1>2

\* list_push_unique adds t once.
LEMMA PushUniqueRange ==
  ASSUME NEW S, NEW s \in Seq(S), NEW t \in S, NoRepeats(s)
  PROVE  NoRepeats(PushUnique(s, t)) /\ Range(PushUnique(s, t)) \subseteq Range(s) \cup {t}
BY DEF PushUnique, NoRepeats, Range

\* The compensator pops the write it undoes, and registers one at the end.
LEMMA FrontRange ==
  ASSUME NEW S, NEW s \in Seq(S), s # <<>>
  PROVE  Range(s) \subseteq Range(Front(s)) \cup {Last(s)}
<1>1. /\ Front(s) = [k \in 1..(Len(s) - 1) |-> s[k]] /\ Last(s) = s[Len(s)]
      /\ Len(s) \in Nat /\ Len(s) > 0 /\ DOMAIN s = 1..Len(s)
  BY DEF Front, Last
<1>2. \A n \in Nat : \A k \in 1..n : k \in 1..(n - 1) \/ k = n
  OBVIOUS
<1> QED BY <1>1, <1>2 DEF Range

\* Appending adds one element.
LEMMA AppendRange ==
  ASSUME NEW S, NEW s \in Seq(S), NEW e \in S
  PROVE  Range(s) \subseteq Range(Append(s, e)) /\ e \in Range(Append(s, e))
<1>1. /\ Append(s, e) \in Seq(S) /\ Len(Append(s, e)) = Len(s) + 1 /\ Len(s) \in Nat
      /\ \A k \in 1..Len(s) : Append(s, e)[k] = s[k]
      /\ Append(s, e)[Len(s) + 1] = e
  BY AppendProperties
<1> QED BY <1>1 DEF Range

\* Nothing is written at first.
LEMMA InitRollback == Init => RollbackInv
BY DEF Init, RollbackInv, NoRepeats, Clean, Range, LoggingIn, Replacing, ShareLabels,
   LoginLabels, LogoutLabels

\* A step that writes for nobody but the login it belongs to, if it does at all.
LEMMA KeptClean ==
  ASSUME TypeInv, OwnedInv, RollbackInv, TypeInv', NEW W \in SUBSET Tokens,
         NoRepeats(index'),
         \A t \in Tokens \ W : /\ t \in body' => t \in body
                               /\ t \in Range(index') => t \in Range(index)
                               /\ tokenId'[t] = "identity" => tokenId[t] = "identity",
         W \cap ((Tokens \ used) \cup rolledBack) = {},
         UNCHANGED <<tok, used, rolledBack>>,
         \A q \in Procs : Stays(q),
         \A q \in Procs : pc[q] \in ShareLabels => tok[q] \notin W,
         \A q \in Procs : LoggingIn(q)' =>
           \/ tok[q] \notin W /\ Range(comp[q]) \subseteq Range(comp'[q])
           \/ Compensated(q)'
  PROVE  RollbackInv'
<1>1. \A t \in (Tokens \ used') \cup rolledBack' : Clean(t)'
  <2>1. \A t \in (Tokens \ used) \cup rolledBack : t \in Tokens \ W /\ Clean(t)
    BY DEF RollbackInv, TypeInv, TypeOK
  <2> QED BY <2>1 DEF Clean
<1>2. \A q \in Procs : (pc[q] \in ShareLabels)' => Clean(tok[q])'
  <2>1. \A q \in Procs : (pc[q] \in ShareLabels)' =>
          tok[q] \in Tokens \ W /\ Clean(tok[q])
    BY DEF Stays, RollbackInv, TypeInv, Holding, ShareLabels, LoginLabels
  <2> QED BY <2>1 DEF Clean
<1>3. \A q \in Procs : LoggingIn(q)' => Compensated(q)'
  <2>1. TAKE q \in Procs
  <2>2. HAVE LoggingIn(q)'
  <2>3. tok[q] \in Tokens /\ Compensated(q) /\ tok'[q] = tok[q]
    BY <2>2 DEF Stays, RollbackInv, TypeInv, Holding, LoggingIn, Replacing
  <2>4. CASE tok[q] \notin W /\ Range(comp[q]) \subseteq Range(comp'[q])
    BY <2>3, <2>4 DEF Compensated
  <2> QED BY <2>2, <2>4
<1> QED BY <1>1, <1>2, <1>3 DEF RollbackInv

\* A step that leaves what is stored of the tokens alone, and may end a call.
LEMMA KeptStore ==
  ASSUME TypeInv, RollbackInv, UNCHANGED <<body, index, tokenId>>,
         \A t \in (Tokens \ used') \cup rolledBack' :
           t \in (Tokens \ used) \cup rolledBack \/ Clean(t),
         \A q \in Procs : (pc[q] \in ShareLabels)' => Clean(tok'[q]),
         \A q \in Procs : LoggingIn(q)' =>
           \/ LoggingIn(q) /\ UNCHANGED <<tok[q], comp[q]>>
           \/ Clean(tok'[q])
  PROVE  RollbackInv'
<1>1. \A t \in (Tokens \ used') \cup rolledBack' : Clean(t)'
  BY DEF RollbackInv, Clean
<1>2. \A q \in Procs : (pc[q] \in ShareLabels)' => Clean(tok[q])'
  BY DEF Clean
<1>3. \A q \in Procs : LoggingIn(q)' => Compensated(q)'
  BY DEF RollbackInv, Clean, Compensated
<1> QED BY <1>1, <1>2, <1>3 DEF RollbackInv

\* The steps among them that write neither a body, nor the index, nor a token-id.
Reading(p) ==
  \/ RangeBody(p) \/ RangeId(p) \/ ResolveBody(p) \/ ResolveId(p) \/ ReadTerminals(p)
  \/ SaveTerminals(p) \/ CountTerminals(p) \/ DeleteSession(p) \/ CasDelete(p)
  \/ RenewCheckMark(p) \/ RenewReadBody(p)
  \/ ReadShare(p) \/ CheckShareMark(p) \/ ReadBefore(p) \/ ListTerminals(p)
  \/ ListTokens(p) \/ AddMappingTarget(p) \/ (\E t \in Tokens : ReplaceOne(p, t))
  \/ ReplaceDone(p) \/ ReadSession(p) \/ SaveSession(p) \/ CasRefused(p) \/ CasLost(p)
  \/ ListIndex(p) \/ Probe(p) \/ PruneDone(p) \/ Enforce(p) \/ Collect(p) \/ ScanBodies(p)
  \/ MappingFallback(p) \/ (\E t \in Tokens : AccountOne(p, t)) \/ AccountDone(p)
  \/ DropSession(p) \/ Fault(p) \/ ProbeFault(p) \/ PruneFault(p)

\* The steps among them that take a body, a marker or an index entry away, and those that
\* write or undo for a login.
Removing(p) == DeleteBody(p) \/ Mark(p) \/ RemoveIndex(p) \/ Prune(p)
                 \/ (\E t \in Tokens : EvictOne(p, t))

\* And those that write for a login, or undo what it has written.
Writing(p) == Snapshot(p) \/ AppendIndex(p) \/ SaveTokenId(p) \/ SaveBody(p) \/ Rollback(p)

\* There is nothing else but the renewal of a body and a failing undo.
LEMMA InnerKinds ==
  ASSUME NEW p \in Procs, Inner(p)
  PROVE  Reading(p) \/ Removing(p) \/ Writing(p) \/ RenewWriteBody(p) \/ UndoFault(p)
BY DEF Inner, LogoutStep, RenewStep, Reading, Removing, Writing

\* The first write nothing.
LEMMA ReadingKeeps ==
  ASSUME NEW p \in Procs, Reading(p)
  PROVE  UNCHANGED <<body, index, tokenId, comp>>
<1> USE DEF store, loginVars
<1>1. CASE RangeBody(p) \/ RangeId(p) \/ ResolveBody(p) \/ ResolveId(p) \/ ReadTerminals(p)
  \/ SaveTerminals(p) \/ CountTerminals(p) \/ DeleteSession(p) \/ CasDelete(p)
  \/ RenewCheckMark(p) \/ RenewReadBody(p)
  BY <1>1 DEF RangeBody, RangeId, ResolveBody, ResolveId, ReadTerminals, SaveTerminals,
     CountTerminals, DeleteSession, CasDelete, RenewCheckMark, RenewReadBody
<1>2. CASE ReadShare(p) \/ CheckShareMark(p) \/ ReadBefore(p) \/ ListTerminals(p)
  \/ ListTokens(p) \/ AddMappingTarget(p) \/ (\E t \in Tokens : ReplaceOne(p, t))
  \/ ReplaceDone(p) \/ ReadSession(p) \/ SaveSession(p) \/ CasRefused(p) \/ CasLost(p)
  BY <1>2 DEF ReadShare, CheckShareMark, ReadBefore, ListTerminals, ListTokens,
     AddMappingTarget, ReplaceOne, ReplaceDone, ReadSession, SaveSession, CasRefused,
     CasLost
<1>3. CASE ListIndex(p) \/ Probe(p) \/ PruneDone(p) \/ Enforce(p) \/ Collect(p)
  \/ ScanBodies(p) \/ MappingFallback(p) \/ (\E t \in Tokens : AccountOne(p, t))
  \/ AccountDone(p) \/ DropSession(p) \/ Fault(p) \/ ProbeFault(p) \/ PruneFault(p)
  BY <1>3 DEF ListIndex, Probe, PruneDone, Enforce, Collect, ScanBodies, MappingFallback,
     AccountOne, AccountDone, DropSession, Fault, ProbeFault, PruneFault
<1> QED BY <1>1, <1>2, <1>3 DEF Reading

\* Logouts, prunings and evictions only take away.
LEMMA RemovingKeeps ==
  ASSUME TypeInv, RollbackInv, NEW p \in Procs, Removing(p)
  PROVE  /\ NoRepeats(index') /\ Range(index') \subseteq Range(index)
         /\ body' \subseteq body /\ UNCHANGED comp
         /\ \A t \in Tokens : tokenId'[t] = "identity" => tokenId[t] = "identity"
<1>1. index \in Seq(Tokens) /\ NoRepeats(index)
  BY DEF TypeInv, TypeOK, RollbackInv
<1>2. CASE DeleteBody(p)
  BY <1>1, <1>2 DEF DeleteBody, loginVars
<1>3. CASE Mark(p)
  <2>1. /\ UNCHANGED <<index, body, comp>> /\ mode[p] \in LogoutModes
        /\ tokenId' = [tokenId EXCEPT ![cur[p]] =
                         IF mode[p] = "Logout" THEN "none" ELSE mode[p]]
        /\ tokenId \in [Tokens -> {"none", "identity", "KickOut", "Replaced"}]
    BY <1>3 DEF Mark, loginVars, TypeInv, TypeOK
  <2> QED BY <1>1, <2>1 DEF LogoutModes
<1>4. CASE RemoveIndex(p)
  <2>1. index' = Without(index, cur[p]) /\ UNCHANGED <<body, tokenId, comp>>
    BY <1>4 DEF RemoveIndex, loginVars
  <2> QED BY <1>1, <2>1, WithoutRange
<1>5. CASE Prune(p)
  <2>1. index' = Without(index, Head(probe[p])) /\ UNCHANGED <<body, tokenId, comp>>
    BY <1>5 DEF Prune, loginVars
  <2> QED BY <1>1, <2>1, WithoutRange
<1>6. CASE \E t \in Tokens : EvictOne(p, t)
  <2>1. PICK t \in Tokens : index' = Without(index, t) /\ UNCHANGED <<body, tokenId, comp>>
    BY <1>6 DEF EvictOne, loginVars
  <2> QED BY <1>1, <2>1, WithoutRange
<1> QED BY <1>2, <1>3, <1>4, <1>5, <1>6 DEF Removing

\* A write of a login is registered, and its compensation takes it back.
LEMMA WritingKeeps ==
  ASSUME TypeInv, OwnedInv, RollbackInv, NEW p \in Procs, Writing(p)
  PROVE  /\ NoRepeats(index') /\ tok[p] \in Tokens
         /\ \A t \in Tokens \ {tok[p]} : /\ t \in body' => t \in body
                                         /\ t \in Range(index') => t \in Range(index)
                                         /\ tokenId'[t] = tokenId[t]
         /\ pc[p] \notin ShareLabels /\ UNCHANGED tok /\ Compensated(p)'
         /\ \A q \in Procs \ {p} : comp'[q] = comp[q]
<1>1. /\ index \in Seq(Tokens) /\ NoRepeats(index) /\ comp \in [Procs -> Seq(Kinds)]
      /\ tokenId \in [Tokens -> {"none", "identity", "KickOut", "Replaced"}]
      /\ comp[p] \in Seq(Kinds)
  BY DEF TypeInv, TypeOK, RollbackInv
<1>2. /\ pc[p] \in LoginLabels \ ShareLabels /\ tok[p] \in Tokens /\ UNCHANGED tok
      /\ Compensated(p)
  BY DEF Writing, Snapshot, AppendIndex, SaveTokenId, SaveBody, Rollback, LoginLabels,
     ShareLabels, TypeInv, Holding, RollbackInv, LoggingIn
<1>3. ASSUME NEW k \in Kinds, comp' = [comp EXCEPT ![p] = Append(@, k)]
      PROVE  /\ Range(comp[p]) \subseteq Range(comp'[p]) /\ k \in Range(comp'[p])
             /\ \A q \in Procs \ {p} : comp'[q] = comp[q]
  <2>1. comp'[p] = Append(comp[p], k)
    BY <1>1, <1>3
  <2> QED BY <1>1, <1>3, <2>1, AppendRange
<1>4. CASE Snapshot(p)
  <2>1. comp' = [comp EXCEPT ![p] = Append(@, "session")] /\ UNCHANGED <<body, index, tokenId>>
    BY <1>4 DEF Snapshot, Register, store
  <2>2. "session" \in Kinds
    BY DEF Kinds
  <2> QED BY <1>1, <1>2, <1>3, <2>1, <2>2 DEF Compensated
<1>5. CASE AppendIndex(p)
  <2>1. /\ comp' = [comp EXCEPT ![p] = Append(@, "index")] /\ UNCHANGED <<body, tokenId>>
        /\ index' = PushUnique(index, tok[p])
    BY <1>5 DEF AppendIndex, Register
  <2>2. "index" \in Kinds
    BY DEF Kinds
  <2>3. NoRepeats(index') /\ Range(index') \subseteq Range(index) \cup {tok[p]}
    BY <1>1, <1>2, <2>1, PushUniqueRange
  <2> QED BY <1>1, <1>2, <1>3, <2>1, <2>2, <2>3 DEF Compensated
<1>6. CASE SaveTokenId(p)
  <2>1. /\ comp' = [comp EXCEPT ![p] = Append(@, "tokenId")] /\ UNCHANGED <<body, index>>
        /\ tokenId' = [tokenId EXCEPT ![tok[p]] = "identity"]
    BY <1>6 DEF SaveTokenId, Register
  <2>2. "tokenId" \in Kinds
    BY DEF Kinds
  <2> QED BY <1>1, <1>2, <1>3, <2>1, <2>2 DEF Compensated
<1>7. CASE SaveBody(p)
  <2>1. /\ comp' = [comp EXCEPT ![p] = Append(@, "body")] /\ UNCHANGED <<tokenId, index>>
        /\ body' = body \cup {tok[p]}
    BY <1>7 DEF SaveBody, Register
  <2>2. "body" \in Kinds
    BY DEF Kinds
  <2> QED BY <1>1, <1>2, <1>3, <2>1, <2>2 DEF Compensated
<1>8. CASE Rollback(p)
  <2> DEFINE k == Last(comp[p])
  <2>1. /\ comp' = [comp EXCEPT ![p] = Front(@)] /\ comp[p] # <<>>
        /\ index' = IF k = "index" THEN Without(index, tok[p]) ELSE index
        /\ tokenId' = IF k = "tokenId" THEN [tokenId EXCEPT ![tok[p]] = "none"] ELSE tokenId
        /\ body' = IF k = "body" THEN body \ {tok[p]} ELSE body
    BY <1>8 DEF Rollback, Undo
  <2>2. NoRepeats(Without(index, tok[p]))
        /\ Range(Without(index, tok[p])) \subseteq Range(index) \ {tok[p]}
    BY <1>1, WithoutRange
  <2>3. comp'[p] = Front(comp[p]) /\ \A q \in Procs \ {p} : comp'[q] = comp[q]
    BY <1>1, <2>1
  <2> HIDE DEF k
  <2>4. Range(comp[p]) \subseteq Range(comp'[p]) \cup {k}
    BY <1>1, <2>1, <2>3, FrontRange DEF k
  <2>5. /\ NoRepeats(index') /\ Range(index') \subseteq Range(index)
        /\ k = "index" => tok[p] \notin Range(index')
    BY <1>1, <2>1, <2>2
  <2>6. Compensated(p)'
    BY <1>1, <1>2, <2>1, <2>4, <2>5 DEF Compensated
  <2> QED BY <1>1, <1>2, <2>1, <2>3, <2>5, <2>6
<1> QED BY <1>4, <1>5, <1>6, <1>7, <1>8 DEF Writing

\* Unless undo may fail, these steps keep every write of a login registered.
LEMMA InnerRollback ==
  ASSUME "rollback" \notin MayFail, TypeInv, OwnedInv, RollbackInv, TypeInv',
         NEW p \in Procs, Inner(p)
  PROVE  RollbackInv'
<1>1. /\ \A q \in Procs : Stays(q)
      /\ UNCHANGED <<used, rolledBack, tok>>
  BY InnerStays, InnerOwned
<1>2. NoRepeats(index)
  BY DEF RollbackInv
<1>3. CASE Reading(p)
  <2>1. UNCHANGED <<body, index, tokenId, comp>>
    BY <1>3, ReadingKeeps
  <2>2. {} \in SUBSET Tokens
    OBVIOUS
  <2> QED BY <1>1, <1>2, <2>1, <2>2, KeptClean
<1>4. CASE Removing(p)
  <2>1. /\ NoRepeats(index') /\ Range(index') \subseteq Range(index)
        /\ body' \subseteq body /\ UNCHANGED comp
        /\ \A t \in Tokens : tokenId'[t] = "identity" => tokenId[t] = "identity"
    BY <1>4, RemovingKeeps
  <2>2. {} \in SUBSET Tokens
    OBVIOUS
  <2> QED BY <1>1, <2>1, <2>2, KeptClean
<1>5. CASE Writing(p)
  <2>1. /\ NoRepeats(index') /\ tok[p] \in Tokens
        /\ \A t \in Tokens \ {tok[p]} : /\ t \in body' => t \in body
                                        /\ t \in Range(index') => t \in Range(index)
                                        /\ tokenId'[t] = tokenId[t]
        /\ pc[p] \notin ShareLabels /\ Compensated(p)'
        /\ \A q \in Procs \ {p} : comp'[q] = comp[q]
    BY <1>5, WritingKeeps
  <2>2. {tok[p]} \in SUBSET Tokens /\ NoToken \notin Tokens
    BY <2>1, ConstantsAssumption
  <2>3. \A q \in Procs \ {p} : tok[q] # tok[p]
    BY <2>1, <2>2 DEF OwnedInv
  <2>4. tok[p] \in used \ rolledBack
    BY <2>1, <2>2 DEF OwnedInv
  <2>5. \A q \in Procs : pc[q] \in ShareLabels => tok[q] \notin {tok[p]}
    BY <2>1, <2>3
  <2>6. \A q \in Procs : LoggingIn(q)' =>
           \/ tok[q] \notin {tok[p]} /\ Range(comp[q]) \subseteq Range(comp'[q])
           \/ Compensated(q)'
    BY <2>1, <2>3
  <2>7. {tok[p]} \cap ((Tokens \ used) \cup rolledBack) = {}
    BY <2>4
  <2> QED BY <1>1, <2>1, <2>2, <2>5, <2>6, <2>7, KeptClean
<1>6. CASE RenewWriteBody(p)
  <2>1. /\ body' = body \cup {cur[p]} /\ UNCHANGED <<tokenId, index, comp>>
        /\ cur[p] \in committed
    BY <1>6 DEF RenewWriteBody, loginVars, OwnedInv, RenewLabels
  <2>2. {cur[p]} \in SUBSET Tokens
    BY <2>1 DEF TypeInv, TypeOK
  <2>3. \A q \in Procs : LoggingIn(q) => tok[q] \notin {cur[p]}
    BY <2>1 DEF OwnedInv
  <2>4. {cur[p]} \cap ((Tokens \ used) \cup rolledBack) = {}
    BY <2>1 DEF OwnedInv
  <2>5. \A q \in Procs : pc[q] \in ShareLabels => tok[q] \notin {cur[p]}
    BY <2>3 DEF LoggingIn, ShareLabels, LoginLabels
  <2>6. \A q \in Procs : LoggingIn(q)' => tok[q] \notin {cur[p]}
    BY <1>1, <2>3 DEF Stays
  <2> QED BY <1>1, <1>2, <2>1, <2>2, <2>4, <2>5, <2>6, KeptClean
<1>7. ~UndoFault(p)
  BY DEF UndoFault
<1> QED BY <1>3, <1>4, <1>5, <1>6, <1>7, InnerKinds

\* A call that ends, with its token kept, given back or rolled back.
LEMMA FinishRollback ==
  ASSUME TypeInv, OwnedInv, RollbackInv, NEW p \in Procs, Finish(p),
         UNCHANGED <<body, index, tokenId>>,
         \/ UNCHANGED <<used, rolledBack>>
         \/ Clean(tok[p]) /\ used' = used \ {tok[p]} /\ UNCHANGED rolledBack
         \/ Clean(tok[p]) /\ UNCHANGED used /\ rolledBack' = rolledBack \cup {tok[p]}
  PROVE  RollbackInv'
<1>1. /\ pc' = [pc EXCEPT ![p] = "idle"] /\ tok' = [tok EXCEPT ![p] = NoToken]
      /\ ret' = [ret EXCEPT ![p] = "return"] /\ comp' = [comp EXCEPT ![p] = <<>>]
  BY Finished DEF TypeInv
<1>2. /\ pc \in [Procs -> Labels] /\ tok \in [Procs -> Tokens \cup {NoToken}]
      /\ ret \in [Procs -> ReturnLabels] /\ comp \in [Procs -> Seq(Kinds)]
  BY DEF TypeInv, TypeOK
<1>3. \A q \in Procs : (pc[q] \in ShareLabels)' => Clean(tok'[q])
  BY <1>1, <1>2 DEF RollbackInv, ShareLabels
<1>4. \A q \in Procs : LoggingIn(q)' => LoggingIn(q) /\ UNCHANGED <<tok[q], comp[q]>>
  BY <1>1, <1>2 DEF LoggingIn, Replacing, LoginLabels, LogoutLabels
<1>5. \A t \in (Tokens \ used') \cup rolledBack' :
        t \in (Tokens \ used) \cup rolledBack \/ Clean(t)
  OBVIOUS
<1> QED BY <1>3, <1>4, <1>5, KeptStore

\* From the commit on the writes of a login stand.
LEMMA CommitRollback ==
  ASSUME TypeInv, OwnedInv, RollbackInv, NEW p \in Procs, Commit(p)
  PROVE  RollbackInv'
<1>1. UNCHANGED <<body, index, tokenId, used, rolledBack>>
  BY DEF Commit
<1>2. CASE ~(IsConcurrent /\ MaxLoginCount > 0)
  BY <1>1, <1>2, FinishRollback DEF Commit
<1>3. CASE IsConcurrent /\ MaxLoginCount > 0
  <2>1. /\ pc' = [pc EXCEPT ![p] = "listIndex"] /\ ret' = [ret EXCEPT ![p] = "enforce"]
        /\ UNCHANGED <<tok, comp>>
    BY <1>3 DEF Commit, Goto, loginVars
  <2>2. pc \in [Procs -> Labels] /\ ret \in [Procs -> ReturnLabels]
    BY DEF TypeInv, TypeOK
  <2>3. \A q \in Procs : (pc[q] \in ShareLabels)' => Clean(tok'[q])
    BY <2>1, <2>2 DEF RollbackInv, ShareLabels
  <2>4. \A q \in Procs : LoggingIn(q)' => LoggingIn(q) /\ UNCHANGED <<tok[q], comp[q]>>
    BY <2>1, <2>2 DEF LoggingIn, Replacing, LoginLabels, LogoutLabels
  <2> QED BY <1>1, <2>3, <2>4, KeptStore
<1> QED BY <1>2, <1>3

\* A call that begins has written nothing yet: a login draws a clean token.
LEMMA BeginRollback ==
  ASSUME TypeInv, OwnedInv, RollbackInv, NEW p \in Procs, Begin(p)
  PROVE  RollbackInv'
<1>1. /\ pc \in [Procs -> Labels] /\ tok \in [Procs -> Tokens \cup {NoToken}]
      /\ ret \in [Procs -> ReturnLabels]
  BY DEF TypeInv, TypeOK
<1>2. ASSUME NEW t \in Tokens, NEW d \in Devices \cup {NoDevice}, Login(p, t, d)
      PROVE  RollbackInv'
  <2>1. /\ t \notin used /\ tok' = [tok EXCEPT ![p] = t] /\ used' = used \cup {t}
        /\ UNCHANGED <<body, index, tokenId, rolledBack, ret, comp>>
        /\ \E l \in {"share", "before"} : pc' = [pc EXCEPT ![p] = l]
    BY <1>2 DEF Login, Goto, logoutVars, store
  <2>2. Clean(t)
    BY <2>1 DEF RollbackInv
  <2>3. \A q \in Procs : (pc[q] \in ShareLabels)' => Clean(tok'[q])
    BY <1>1, <2>1, <2>2 DEF RollbackInv
  <2>4. \A q \in Procs : LoggingIn(q)' =>
          \/ LoggingIn(q) /\ UNCHANGED <<tok[q], comp[q]>>
          \/ Clean(tok'[q])
    BY <1>1, <2>1, <2>2 DEF LoggingIn, Replacing
  <2> QED BY <2>1, <2>3, <2>4, KeptStore
<1>3. ASSUME UNCHANGED <<body, index, tokenId, used, rolledBack, tok, comp>>,
             NEW l \in {"rangeBody", "resolveBody", "listIndex", "renewMark"},
             pc' = [pc EXCEPT ![p] = l],
             l # "renewMark" => ret'[p] \in {"return", "collect"},
             \A q \in Procs \ {p} : ret'[q] = ret[q]
      PROVE  RollbackInv'
  <2>1. \A q \in Procs : LoggingIn(q)' => LoggingIn(q) /\ UNCHANGED <<tok[q], comp[q]>>
    BY <1>1, <1>3 DEF LoggingIn, Replacing, LoginLabels, LogoutLabels
  <2>2. \A q \in Procs : (pc[q] \in ShareLabels)' => Clean(tok'[q])
    BY <1>1, <1>3 DEF RollbackInv, ShareLabels
  <2> QED BY <1>3, <2>1, <2>2, KeptStore
<1>4. ASSUME NEW t \in Tokens, NEW m, NEW c, NEW l \in {"rangeBody", "resolveBody"},
             TokenCall(p, t, m, c, l)
      PROVE  RollbackInv'
  <2>1. /\ UNCHANGED <<body, index, tokenId, used, rolledBack, tok, comp>>
        /\ pc' = [pc EXCEPT ![p] = l] /\ ret' = [ret EXCEPT ![p] = "return"]
    BY <1>4 DEF TokenCall, StartLogout, Goto, store, history, loginVars
  <2> QED BY <1>1, <1>3, <2>1
<1>5. ASSUME NEW m, NEW c, AccountCall(p, m, c)
      PROVE  RollbackInv'
  <2>1. /\ UNCHANGED <<body, index, tokenId, used, rolledBack, tok, comp>>
        /\ pc' = [pc EXCEPT ![p] = "listIndex"] /\ ret' = [ret EXCEPT ![p] = "collect"]
    BY <1>5 DEF AccountCall, CollectInto, Goto, store, loginVars
  <2> QED BY <1>1, <1>3, <2>1
<1>6. ASSUME NEW t \in Tokens, Renew(p, t)
      PROVE  RollbackInv'
  <2>1. /\ UNCHANGED <<body, index, tokenId, used, rolledBack, tok, comp, ret>>
        /\ pc' = [pc EXCEPT ![p] = "renewMark"]
    BY <1>6 DEF Renew, Goto, store, loginVars, history
  <2> QED BY <1>1, <1>3, <2>1
<1>7. LogoutEntry \in {"rangeBody", "resolveBody"}
  BY DEF LogoutEntry
<1> QED
  BY <1>2, <1>4, <1>5, <1>6, <1>7
  DEF Begin, Logout, KickOutByToken, ReplacedByToken, LogoutByLoginId, KickOut

\* RollbackInv is inductive where undo does not fail.
LEMMA StepRollback ==
  ASSUME "rollback" \notin MayFail
  PROVE  TypeInv /\ OwnedInv /\ RollbackInv /\ TypeInv' /\ [Next]_vars => RollbackInv'
<1> SUFFICES ASSUME TypeInv, OwnedInv, RollbackInv, TypeInv', [Next]_vars
             PROVE  RollbackInv'
  OBVIOUS
<1>1. CASE UNCHANGED vars
  BY <1>1 DEF RollbackInv, Clean, Compensated, LoggingIn, Replacing, vars, store,
     loginVars, logoutVars, history
<1>2. ASSUME NEW p \in Procs, Begin(p)
      PROVE  RollbackInv'
  BY <1>2, BeginRollback
<1>3. ASSUME NEW p \in Procs, Step(p) \/ Disturb(p)
      PROVE  RollbackInv'
  <2>1. CASE Inner(p)
    BY <2>1, InnerRollback
  <2>2. CASE CheckShareBody(p)
    <3>1. pc[p] = "shareBody" /\ Clean(tok[p]) /\ UNCHANGED <<body, index, tokenId, rolledBack>>
      BY <2>2 DEF CheckShareBody, store, RollbackInv, ShareLabels
    <3>2. CASE cur[p] \in body
      <4>1. Finish(p) /\ used' = used \ {tok[p]}
        BY <2>2, <3>2 DEF CheckShareBody
      <4> QED BY <3>1, <4>1, FinishRollback
    <3>3. CASE cur[p] \notin body
      <4>1. /\ pc' = [pc EXCEPT ![p] = "before"]
            /\ UNCHANGED <<used, tok, ret, comp>>
        BY <2>2, <3>3 DEF CheckShareBody, Goto, loginVars, logoutVars
      <4>2. \A q \in Procs : LoggingIn(q)' => LoggingIn(q) /\ UNCHANGED <<tok[q], comp[q]>>
        BY <3>1, <4>1 DEF LoggingIn, Replacing, LoginLabels, TypeInv, TypeOK
      <4>3. \A q \in Procs : (pc[q] \in ShareLabels)' => Clean(tok'[q])
        BY <4>1 DEF RollbackInv, ShareLabels, TypeInv, TypeOK
      <4> QED BY <3>1, <4>1, <4>2, <4>3, KeptStore
    <3> QED BY <3>2, <3>3
  <2>3. CASE CommitConcurrent(p) \/ CommitCas(p) \/ CommitAbsent(p)
    BY <2>3, CommitRollback DEF CommitConcurrent, CommitCas, CommitAbsent
  <2>4. CASE RolledBack(p)
    <3>1. /\ Finish(p) /\ rolledBack' = rolledBack \cup {tok[p]} /\ pc[p] = "rollback"
          /\ comp[p] = <<>> /\ UNCHANGED <<body, index, tokenId, used>>
      BY <2>4 DEF RolledBack, store
    <3>2. Compensated(p)
      BY <3>1 DEF RollbackInv, LoggingIn, LoginLabels
    <3>3. Range(comp[p]) = {}
      BY <3>1 DEF Range
    <3>4. Clean(tok[p])
      BY <3>2, <3>3 DEF Compensated, Clean
    <3> QED BY <3>1, <3>4, FinishRollback
  <2>5. CASE EvictDone(p) \/ Return(p) \/ Crash(p)
    BY <2>5, FinishRollback DEF EvictDone, Return, Crash, store
  <2> QED BY <1>3, <2>1, <2>2, <2>3, <2>4, <2>5, StepKinds
<1> QED BY <1>1, <1>2, <1>3 DEF Next

\* When the compensations themselves do not fail, a login that failed leaves no
\* body, no identity, no index entry and no mapping behind, in every configuration
\* and whatever logins, logouts, renewals and crashes go on around it.
THEOREM RollbackCorrect ==
  ASSUME "rollback" \notin MayFail
  PROVE  Spec => []CleanRollback
<1>1. Init => TypeInv /\ OwnedInv /\ RollbackInv
  BY InitType, InitOwned, InitRollback
<1>2. TypeInv /\ OwnedInv /\ RollbackInv /\ [Next]_vars => (TypeInv /\ OwnedInv /\ RollbackInv)'
  BY TypeStep, StepOwned, StepRollback
<1>3. TypeInv /\ OwnedInv /\ RollbackInv => CleanRollback
  BY ConstantsAssumption DEF TypeInv, TypeOK, OwnedInv, RollbackInv, Clean, CleanRollback
<1> QED BY <1>1, <1>2, <1>3, PTL DEF Spec

-----------------------------------------------------------------------------
(***************************************************************************)
(* A marker stays where nothing is logged out                               *)
(***************************************************************************)

\* MarkingInv, of one task.
Marks(p) ==
  /\ pc[p] \notin {"rangeBody", "rangeId"}
  /\ pc[p] \in EvictLabels \/ ret[p] \in EvictLabels => HasLimit
  /\ tok[p] # NoToken => LoggingIn(p) \/ HasLimit
  /\ pc[p] \in LogoutLabels \cup CollectLabels => mode[p] # "Logout"
  /\ pc[p] \in {"listIndex", "probe", "prune"} /\ ret[p] = "collect"
       => mode[p] # "Logout"

\* The other tasks keep theirs.
LEMMA OthersMark ==
  ASSUME MarkingInv, UNCHANGED config, NEW p \in Procs, Marks(p)',
         \A q \in Procs \ {p} : UNCHANGED <<pc[q], ret[q], mode[q], tok[q]>>
  PROVE  MarkingInv'
<1>1. \A q \in Procs \ {p} : Marks(q)'
  BY DEF MarkingInv, Marks, HasLimit, IsConcurrent, MaxLoginCount, LoggingIn, Replacing
<1> QED BY <1>1 DEF MarkingInv, Marks

\* These steps keep what MarkingInv says; one step of the proof per action.
LEMMA InnerMarks ==
  ASSUME MarkingConfig, TypeInv, MarkingInv, UNCHANGED config, NEW p \in Procs, Inner(p)
  PROVE  MarkingInv'
<1>1. /\ pc \in [Procs -> Labels] /\ ret \in [Procs -> ReturnLabels]
      /\ mode \in [Procs -> LogoutModes] /\ tok \in [Procs -> Tokens \cup {NoToken}]
      /\ pc[p] \in {"listIndex", "probe", "prune"} => ret[p] \in {"enforce", "collect"}
  BY DEF TypeInv, TypeOK, Holding
<1>2. /\ Marks(p) /\ (HasLimit => HasLimit') /\ UNCHANGED tok
      /\ HasLimit => OverflowMode # "Logout"
  BY InnerOwned DEF MarkingInv, Marks, HasLimit, IsConcurrent, MaxLoginCount,
     OverflowMode, MarkingConfig, TypeInv, TypeOK
<1> HIDE DEF HasLimit, OverflowMode
<1> SUFFICES Marks(p)' /\ \A q \in Procs \ {p} : UNCHANGED <<pc[q], ret[q], mode[q]>>
  BY <1>2, OthersMark
<1> USE <1>1, <1>2 DEF Goto, logoutVars
<1>3. CASE ResolveBody(p)
  <2>1. \A q \in Procs \ {p} : UNCHANGED <<pc[q], ret[q], mode[q]>>
    BY <1>3 DEF ResolveBody
  <2>2. Marks(p)'
    BY <1>3 DEF Marks, LoggingIn, Replacing, LoginLabels, LogoutLabels,
       EvictLabels, CollectLabels, RenewLabels, ReturnLabels, ResolveBody
  <2> QED BY <2>1, <2>2
<1>4. CASE ResolveId(p)
  <2>1. \A q \in Procs \ {p} : UNCHANGED <<pc[q], ret[q], mode[q]>>
    BY <1>4 DEF ResolveId
  <2>2. Marks(p)'
    BY <1>4 DEF Marks, LoggingIn, Replacing, LoginLabels, LogoutLabels,
       EvictLabels, CollectLabels, RenewLabels, ReturnLabels, ResolveId
  <2> QED BY <2>1, <2>2
<1>5. CASE DeleteBody(p)
  <2>1. \A q \in Procs \ {p} : UNCHANGED <<pc[q], ret[q], mode[q]>>
    BY <1>5 DEF DeleteBody
  <2>2. Marks(p)'
    BY <1>5 DEF Marks, LoggingIn, Replacing, LoginLabels, LogoutLabels,
       EvictLabels, CollectLabels, RenewLabels, ReturnLabels, DeleteBody
  <2> QED BY <2>1, <2>2
<1>6. CASE Mark(p)
  <2>1. \A q \in Procs \ {p} : UNCHANGED <<pc[q], ret[q], mode[q]>>
    BY <1>6 DEF Mark
  <2>2. Marks(p)'
    BY <1>6 DEF Marks, LoggingIn, Replacing, LoginLabels, LogoutLabels,
       EvictLabels, CollectLabels, RenewLabels, ReturnLabels, Mark
  <2> QED BY <2>1, <2>2
<1>7. CASE RemoveIndex(p)
  <2>1. \A q \in Procs \ {p} : UNCHANGED <<pc[q], ret[q], mode[q]>>
    BY <1>7 DEF RemoveIndex
  <2>2. Marks(p)'
    BY <1>7 DEF Marks, LoggingIn, Replacing, LoginLabels, LogoutLabels,
       EvictLabels, CollectLabels, RenewLabels, ReturnLabels, RemoveIndex
  <2> QED BY <2>1, <2>2
<1>8. CASE ReadTerminals(p)
  <2>1. \A q \in Procs \ {p} : UNCHANGED <<pc[q], ret[q], mode[q]>>
    BY <1>8 DEF ReadTerminals, AfterTerminals
  <2>2. Marks(p)'
    BY <1>8 DEF Marks, LoggingIn, Replacing, LoginLabels, LogoutLabels, EvictLabels,
       CollectLabels, RenewLabels, ReturnLabels, ReadTerminals, AfterTerminals
  <2> QED BY <2>1, <2>2
<1>9. CASE SaveTerminals(p)
  <2>1. \A q \in Procs \ {p} : UNCHANGED <<pc[q], ret[q], mode[q]>>
    BY <1>9 DEF SaveTerminals
  <2>2. Marks(p)'
    BY <1>9 DEF Marks, LoggingIn, Replacing, LoginLabels, LogoutLabels,
       EvictLabels, CollectLabels, RenewLabels, ReturnLabels, SaveTerminals
  <2> QED BY <2>1, <2>2
<1>10. CASE CountTerminals(p)
  <2>1. \A q \in Procs \ {p} : UNCHANGED <<pc[q], ret[q], mode[q]>>
    BY <1>10 DEF CountTerminals, AfterTerminals
  <2>2. Marks(p)'
    BY <1>10 DEF Marks, LoggingIn, Replacing, LoginLabels, LogoutLabels, EvictLabels,
       CollectLabels, RenewLabels, ReturnLabels, CountTerminals, AfterTerminals
  <2> QED BY <2>1, <2>2
<1>11. CASE DeleteSession(p)
  <2>1. \A q \in Procs \ {p} : UNCHANGED <<pc[q], ret[q], mode[q]>>
    BY <1>11 DEF DeleteSession, AfterTerminals
  <2>2. Marks(p)'
    BY <1>11 DEF Marks, LoggingIn, Replacing, LoginLabels, LogoutLabels, EvictLabels,
       CollectLabels, RenewLabels, ReturnLabels, DeleteSession, AfterTerminals
  <2> QED BY <2>1, <2>2
<1>12. CASE CasDelete(p)
  <2>1. \A q \in Procs \ {p} : UNCHANGED <<pc[q], ret[q], mode[q]>>
    BY <1>12 DEF CasDelete
  <2>2. Marks(p)'
    BY <1>12 DEF Marks, LoggingIn, Replacing, LoginLabels, LogoutLabels,
       EvictLabels, CollectLabels, RenewLabels, ReturnLabels, CasDelete
  <2> QED BY <2>1, <2>2
<1>13. CASE RenewCheckMark(p)
  <2>1. \A q \in Procs \ {p} : UNCHANGED <<pc[q], ret[q], mode[q]>>
    BY <1>13 DEF RenewCheckMark
  <2>2. Marks(p)'
    BY <1>13 DEF Marks, LoggingIn, Replacing, LoginLabels, LogoutLabels,
       EvictLabels, CollectLabels, RenewLabels, ReturnLabels, RenewCheckMark
  <2> QED BY <2>1, <2>2
<1>14. CASE RenewReadBody(p)
  <2>1. \A q \in Procs \ {p} : UNCHANGED <<pc[q], ret[q], mode[q]>>
    BY <1>14 DEF RenewReadBody
  <2>2. Marks(p)'
    BY <1>14 DEF Marks, LoggingIn, Replacing, LoginLabels, LogoutLabels,
       EvictLabels, CollectLabels, RenewLabels, ReturnLabels, RenewReadBody
  <2> QED BY <2>1, <2>2
<1>15. CASE RenewWriteBody(p)
  <2>1. \A q \in Procs \ {p} : UNCHANGED <<pc[q], ret[q], mode[q]>>
    BY <1>15 DEF RenewWriteBody
  <2>2. Marks(p)'
    BY <1>15 DEF Marks, LoggingIn, Replacing, LoginLabels, LogoutLabels,
       EvictLabels, CollectLabels, RenewLabels, ReturnLabels, RenewWriteBody
  <2> QED BY <2>1, <2>2
<1>16. CASE ReadShare(p)
  <2>1. \A q \in Procs \ {p} : UNCHANGED <<pc[q], ret[q], mode[q]>>
    BY <1>16 DEF ReadShare
  <2>2. Marks(p)'
    BY <1>16 DEF Marks, LoggingIn, Replacing, LoginLabels, LogoutLabels,
       EvictLabels, CollectLabels, RenewLabels, ReturnLabels, ReadShare
  <2> QED BY <2>1, <2>2
<1>17. CASE CheckShareMark(p)
  <2>1. \A q \in Procs \ {p} : UNCHANGED <<pc[q], ret[q], mode[q]>>
    BY <1>17 DEF CheckShareMark
  <2>2. Marks(p)'
    BY <1>17 DEF Marks, LoggingIn, Replacing, LoginLabels, LogoutLabels,
       EvictLabels, CollectLabels, RenewLabels, ReturnLabels, CheckShareMark
  <2> QED BY <2>1, <2>2
<1>18. CASE ReadBefore(p)
  <2>1. \A q \in Procs \ {p} : UNCHANGED <<pc[q], ret[q], mode[q]>>
    BY <1>18 DEF ReadBefore
  <2>2. Marks(p)'
    BY <1>18 DEF Marks, LoggingIn, Replacing, LoginLabels, LogoutLabels,
       EvictLabels, CollectLabels, RenewLabels, ReturnLabels, ReadBefore
  <2> QED BY <2>1, <2>2
<1>19. CASE ListTerminals(p)
  <2>1. \A q \in Procs \ {p} : UNCHANGED <<pc[q], ret[q], mode[q]>>
    BY <1>19 DEF ListTerminals, Replace
  <2>2. Marks(p)'
    BY <1>19 DEF Marks, LoggingIn, Replacing, LoginLabels, LogoutLabels,
       EvictLabels, CollectLabels, RenewLabels, ReturnLabels, ListTerminals, Replace
  <2> QED BY <2>1, <2>2
<1>20. CASE ListTokens(p)
  <2>1. \A q \in Procs \ {p} : UNCHANGED <<pc[q], ret[q], mode[q]>>
    BY <1>20 DEF ListTokens
  <2>2. Marks(p)'
    BY <1>20 DEF Marks, LoggingIn, Replacing, LoginLabels, LogoutLabels,
       EvictLabels, CollectLabels, RenewLabels, ReturnLabels, ListTokens
  <2> QED BY <2>1, <2>2
<1>21. CASE AddMappingTarget(p)
  <2>1. \A q \in Procs \ {p} : UNCHANGED <<pc[q], ret[q], mode[q]>>
    BY <1>21 DEF AddMappingTarget, Replace
  <2>2. Marks(p)'
    BY <1>21 DEF Marks, LoggingIn, Replacing, LoginLabels, LogoutLabels,
       EvictLabels, CollectLabels, RenewLabels, ReturnLabels, AddMappingTarget, Replace
  <2> QED BY <2>1, <2>2
<1>22. CASE \E t \in Tokens : ReplaceOne(p, t)
  <2>1. \A q \in Procs \ {p} : UNCHANGED <<pc[q], ret[q], mode[q]>>
    BY <1>22 DEF ReplaceOne, StartLogout
  <2>2. Marks(p)'
    BY <1>22 DEF Marks, LoggingIn, Replacing, LoginLabels, LogoutLabels, EvictLabels,
       CollectLabels, RenewLabels, ReturnLabels, ReplaceOne, StartLogout, LogoutModes
  <2> QED BY <2>1, <2>2
<1>23. CASE ReplaceDone(p)
  <2>1. \A q \in Procs \ {p} : UNCHANGED <<pc[q], ret[q], mode[q]>>
    BY <1>23 DEF ReplaceDone
  <2>2. Marks(p)'
    BY <1>23 DEF Marks, LoggingIn, Replacing, LoginLabels, LogoutLabels,
       EvictLabels, CollectLabels, RenewLabels, ReturnLabels, ReplaceDone
  <2> QED BY <2>1, <2>2
<1>24. CASE AppendIndex(p)
  <2>1. \A q \in Procs \ {p} : UNCHANGED <<pc[q], ret[q], mode[q]>>
    BY <1>24 DEF AppendIndex
  <2>2. Marks(p)'
    BY <1>24 DEF Marks, LoggingIn, Replacing, LoginLabels, LogoutLabels,
       EvictLabels, CollectLabels, RenewLabels, ReturnLabels, AppendIndex
  <2> QED BY <2>1, <2>2
<1>25. CASE Snapshot(p)
  <2>1. \A q \in Procs \ {p} : UNCHANGED <<pc[q], ret[q], mode[q]>>
    BY <1>25 DEF Snapshot
  <2>2. Marks(p)'
    BY <1>25 DEF Marks, LoggingIn, Replacing, LoginLabels, LogoutLabels,
       EvictLabels, CollectLabels, RenewLabels, ReturnLabels, Snapshot
  <2> QED BY <2>1, <2>2
<1>26. CASE ReadSession(p)
  <2>1. \A q \in Procs \ {p} : UNCHANGED <<pc[q], ret[q], mode[q]>>
    BY <1>26 DEF ReadSession
  <2>2. Marks(p)'
    BY <1>26 DEF Marks, LoggingIn, Replacing, LoginLabels, LogoutLabels,
       EvictLabels, CollectLabels, RenewLabels, ReturnLabels, ReadSession
  <2> QED BY <2>1, <2>2
<1>27. CASE SaveSession(p)
  <2>1. \A q \in Procs \ {p} : UNCHANGED <<pc[q], ret[q], mode[q]>>
    BY <1>27 DEF SaveSession
  <2>2. Marks(p)'
    BY <1>27 DEF Marks, LoggingIn, Replacing, LoginLabels, LogoutLabels,
       EvictLabels, CollectLabels, RenewLabels, ReturnLabels, SaveSession
  <2> QED BY <2>1, <2>2
<1>28. CASE SaveTokenId(p)
  <2>1. \A q \in Procs \ {p} : UNCHANGED <<pc[q], ret[q], mode[q]>>
    BY <1>28 DEF SaveTokenId
  <2>2. Marks(p)'
    BY <1>28 DEF Marks, LoggingIn, Replacing, LoginLabels, LogoutLabels,
       EvictLabels, CollectLabels, RenewLabels, ReturnLabels, SaveTokenId
  <2> QED BY <2>1, <2>2
<1>29. CASE SaveBody(p)
  <2>1. \A q \in Procs \ {p} : UNCHANGED <<pc[q], ret[q], mode[q]>>
    BY <1>29 DEF SaveBody
  <2>2. Marks(p)'
    BY <1>29 DEF Marks, LoggingIn, Replacing, LoginLabels, LogoutLabels,
       EvictLabels, CollectLabels, RenewLabels, ReturnLabels, SaveBody
  <2> QED BY <2>1, <2>2
<1>30. CASE CasRefused(p)
  <2>1. \A q \in Procs \ {p} : UNCHANGED <<pc[q], ret[q], mode[q]>>
    BY <1>30 DEF CasRefused
  <2>2. Marks(p)'
    BY <1>30 DEF Marks, LoggingIn, Replacing, LoginLabels, LogoutLabels,
       EvictLabels, CollectLabels, RenewLabels, ReturnLabels, CasRefused
  <2> QED BY <2>1, <2>2
<1>31. CASE CasLost(p)
  <2>1. \A q \in Procs \ {p} : UNCHANGED <<pc[q], ret[q], mode[q]>>
    BY <1>31 DEF CasLost
  <2>2. Marks(p)'
    BY <1>31 DEF Marks, LoggingIn, Replacing, LoginLabels, LogoutLabels,
       EvictLabels, CollectLabels, RenewLabels, ReturnLabels, CasLost
  <2> QED BY <2>1, <2>2
<1>32. CASE Rollback(p)
  <2>1. \A q \in Procs \ {p} : UNCHANGED <<pc[q], ret[q], mode[q]>>
    BY <1>32 DEF Rollback
  <2>2. Marks(p)'
    BY <1>32 DEF Marks, LoggingIn, Replacing, LoginLabels, LogoutLabels,
       EvictLabels, CollectLabels, RenewLabels, ReturnLabels, Rollback
  <2> QED BY <2>1, <2>2
<1>33. CASE ListIndex(p)
  <2>1. \A q \in Procs \ {p} : UNCHANGED <<pc[q], ret[q], mode[q]>>
    BY <1>33 DEF ListIndex
  <2>2. Marks(p)'
    BY <1>33 DEF Marks, LoggingIn, Replacing, LoginLabels, LogoutLabels,
       EvictLabels, CollectLabels, RenewLabels, ReturnLabels, ListIndex
  <2> QED BY <2>1, <2>2
<1>34. CASE Probe(p)
  <2>1. \A q \in Procs \ {p} : UNCHANGED <<pc[q], ret[q], mode[q]>>
    BY <1>34 DEF Probe
  <2>2. Marks(p)'
    BY <1>34 DEF Marks, LoggingIn, Replacing, LoginLabels, LogoutLabels,
       EvictLabels, CollectLabels, RenewLabels, ReturnLabels, Probe
  <2> QED BY <2>1, <2>2
<1>35. CASE Prune(p)
  <2>1. \A q \in Procs \ {p} : UNCHANGED <<pc[q], ret[q], mode[q]>>
    BY <1>35 DEF Prune
  <2>2. Marks(p)'
    BY <1>35 DEF Marks, LoggingIn, Replacing, LoginLabels, LogoutLabels,
       EvictLabels, CollectLabels, RenewLabels, ReturnLabels, Prune
  <2> QED BY <2>1, <2>2
<1>36. CASE PruneDone(p)
  <2>1. \A q \in Procs \ {p} : UNCHANGED <<pc[q], ret[q], mode[q]>>
    BY <1>36 DEF PruneDone
  <2>2. Marks(p)'
    BY <1>36 DEF Marks, LoggingIn, Replacing, LoginLabels, LogoutLabels,
       EvictLabels, CollectLabels, RenewLabels, ReturnLabels, PruneDone
  <2> QED BY <2>1, <2>2
<1>37. CASE Enforce(p)
  <2>1. \A q \in Procs \ {p} : UNCHANGED <<pc[q], ret[q], mode[q]>>
    BY <1>37 DEF Enforce
  <2>2. Marks(p)'
    BY <1>37 DEF Marks, LoggingIn, Replacing, LoginLabels, LogoutLabels,
       EvictLabels, CollectLabels, RenewLabels, ReturnLabels, Enforce
  <2> QED BY <2>1, <2>2
<1>38. CASE \E t \in Tokens : EvictOne(p, t)
  <2>1. \A q \in Procs \ {p} : UNCHANGED <<pc[q], ret[q], mode[q]>>
    BY <1>38 DEF EvictOne, StartLogout, LogoutEntry
  <2>2. Marks(p)'
    BY <1>38 DEF Marks, LoggingIn, Replacing, LoginLabels, LogoutLabels, EvictLabels,
       CollectLabels, RenewLabels, ReturnLabels, EvictOne, StartLogout, LogoutEntry
  <2> QED BY <2>1, <2>2
<1>39. CASE Collect(p)
  <2>1. \A q \in Procs \ {p} : UNCHANGED <<pc[q], ret[q], mode[q]>>
    BY <1>39 DEF Collect
  <2>2. Marks(p)'
    BY <1>39 DEF Marks, LoggingIn, Replacing, LoginLabels, LogoutLabels,
       EvictLabels, CollectLabels, RenewLabels, ReturnLabels, Collect
  <2> QED BY <2>1, <2>2
<1>40. CASE ScanBodies(p)
  <2>1. \A q \in Procs \ {p} : UNCHANGED <<pc[q], ret[q], mode[q]>>
    BY <1>40 DEF ScanBodies
  <2>2. Marks(p)'
    BY <1>40 DEF Marks, LoggingIn, Replacing, LoginLabels, LogoutLabels,
       EvictLabels, CollectLabels, RenewLabels, ReturnLabels, ScanBodies
  <2> QED BY <2>1, <2>2
<1>41. CASE MappingFallback(p)
  <2>1. \A q \in Procs \ {p} : UNCHANGED <<pc[q], ret[q], mode[q]>>
    BY <1>41 DEF MappingFallback
  <2>2. Marks(p)'
    BY <1>41 DEF Marks, LoggingIn, Replacing, LoginLabels, LogoutLabels,
       EvictLabels, CollectLabels, RenewLabels, ReturnLabels, MappingFallback
  <2> QED BY <2>1, <2>2
<1>42. CASE \E t \in Tokens : AccountOne(p, t)
  <2>1. \A q \in Procs \ {p} : UNCHANGED <<pc[q], ret[q], mode[q]>>
    BY <1>42 DEF AccountOne, StartLogout
  <2>2. Marks(p)'
    BY <1>42 DEF Marks, LoggingIn, Replacing, LoginLabels, LogoutLabels,
       EvictLabels, CollectLabels, RenewLabels, ReturnLabels, AccountOne, StartLogout
  <2> QED BY <2>1, <2>2
<1>43. CASE AccountDone(p)
  <2>1. \A q \in Procs \ {p} : UNCHANGED <<pc[q], ret[q], mode[q]>>
    BY <1>43 DEF AccountDone
  <2>2. Marks(p)'
    BY <1>43 DEF Marks, LoggingIn, Replacing, LoginLabels, LogoutLabels,
       EvictLabels, CollectLabels, RenewLabels, ReturnLabels, AccountDone
  <2> QED BY <2>1, <2>2
<1>44. CASE DropSession(p)
  <2>1. \A q \in Procs \ {p} : UNCHANGED <<pc[q], ret[q], mode[q]>>
    BY <1>44 DEF DropSession
  <2>2. Marks(p)'
    BY <1>44 DEF Marks, LoggingIn, Replacing, LoginLabels, LogoutLabels,
       EvictLabels, CollectLabels, RenewLabels, ReturnLabels, DropSession
  <2> QED BY <2>1, <2>2
<1>45. CASE Fault(p)
  <2>1. pc' = [pc EXCEPT ![p] = OnError(p)] /\ UNCHANGED <<mode, ret>>
    BY <1>45 DEF Fault
  <2>2. /\ OnError(p) \in LoginLabels \cup LogoutLabels \cup CollectLabels \cup
                            {"return", "evictNext", "enforce"}
        /\ OnError(p) \in {"evictNext", "enforce"} => HasLimit
        /\ OnError(p) \in LogoutLabels \cup CollectLabels => mode[p] # "Logout"
        /\ OnError(p) \notin LoginLabels \cup LogoutLabels => ~LoggingIn(p) \/ HasLimit
        /\ OnError(p) \in LogoutLabels => ~LoggingIn(p) \/ ret[p] = "replaceNext"
    BY <1>45 DEF Fault, OnError, LoginAborts, LogoutAborts, AccountAbort, AfterTerminals,
       Marks, LoggingIn, Replacing, LoginLabels, LogoutLabels,
       EvictLabels, CollectLabels, RenewLabels, ReturnLabels
  <2>3. Marks(p)'
    BY <2>1, <2>2 DEF Marks, LoggingIn, Replacing, LoginLabels, LogoutLabels,
       EvictLabels, CollectLabels, RenewLabels, ReturnLabels
  <2> QED BY <2>1, <2>3
<1>46. CASE UndoFault(p)
  <2>1. \A q \in Procs \ {p} : UNCHANGED <<pc[q], ret[q], mode[q]>>
    BY <1>46 DEF UndoFault
  <2>2. Marks(p)'
    BY <1>46 DEF Marks, LoggingIn, Replacing, LoginLabels, LogoutLabels,
       EvictLabels, CollectLabels, RenewLabels, ReturnLabels, UndoFault
  <2> QED BY <2>1, <2>2
<1>47. CASE ProbeFault(p)
  <2>1. \A q \in Procs \ {p} : UNCHANGED <<pc[q], ret[q], mode[q]>>
    BY <1>47 DEF ProbeFault
  <2>2. Marks(p)'
    BY <1>47 DEF Marks, LoggingIn, Replacing, LoginLabels, LogoutLabels,
       EvictLabels, CollectLabels, RenewLabels, ReturnLabels, ProbeFault
  <2> QED BY <2>1, <2>2
<1>48. CASE PruneFault(p)
  <2>1. \A q \in Procs \ {p} : UNCHANGED <<pc[q], ret[q], mode[q]>>
    BY <1>48 DEF PruneFault
  <2>2. Marks(p)'
    BY <1>48 DEF Marks, LoggingIn, Replacing, LoginLabels, LogoutLabels,
       EvictLabels, CollectLabels, RenewLabels, ReturnLabels, PruneFault
  <2> QED BY <2>1, <2>2
<1>49. CASE RangeBody(p) \/ RangeId(p)
  BY <1>49 DEF RangeBody, RangeId, Marks
<1> QED BY <1>3, <1>4, <1>5, <1>6, <1>7, <1>8, <1>9, <1>10, <1>11, <1>12, <1>13, <1>14,
    <1>15, <1>16, <1>17, <1>18, <1>19, <1>20, <1>21, <1>22, <1>23, <1>24, <1>25, <1>26,
    <1>27, <1>28, <1>29, <1>30, <1>31, <1>32, <1>33, <1>34, <1>35, <1>36, <1>37, <1>38,
    <1>39, <1>40, <1>41, <1>42, <1>43, <1>44, <1>45, <1>46, <1>47, <1>48, <1>49 DEF Inner,
    LogoutStep, RenewStep

\* A call that ends marks nothing any more.
LEMMA FinishMarks ==
  ASSUME MarkingInv, TypeInv, UNCHANGED config, NEW p \in Procs, Finish(p)
  PROVE  MarkingInv'
<1>1. /\ pc' = [pc EXCEPT ![p] = "idle"] /\ tok' = [tok EXCEPT ![p] = NoToken]
      /\ ret' = [ret EXCEPT ![p] = "return"] /\ mode' = [mode EXCEPT ![p] = "Logout"]
  BY Finished DEF TypeInv
<1>2. /\ pc \in [Procs -> Labels] /\ tok \in [Procs -> Tokens \cup {NoToken}]
      /\ ret \in [Procs -> ReturnLabels] /\ mode \in [Procs -> LogoutModes]
  BY DEF TypeInv, TypeOK
<1>3. Marks(p)'
  BY <1>1, <1>2 DEF Marks, EvictLabels, CollectLabels, LogoutLabels
<1> QED BY <1>1, <1>2, <1>3, OthersMark

\* A call that begins will leave a marker, if it ends a token.
LEMMA BeginMarks ==
  ASSUME MarkingConfig, MarkingInv, TypeInv, UNCHANGED config, NEW p \in Procs, Begin(p)
  PROVE  MarkingInv'
<1>1. /\ pc \in [Procs -> Labels] /\ tok \in [Procs -> Tokens \cup {NoToken}]
      /\ ret \in [Procs -> ReturnLabels] /\ mode \in [Procs -> LogoutModes]
  BY DEF TypeInv, TypeOK
<1>2. Marks(p) /\ (HasLimit => HasLimit')
  BY DEF MarkingInv, Marks, HasLimit, IsConcurrent, MaxLoginCount
<1> HIDE DEF HasLimit
<1>3. ASSUME NEW t \in Tokens, NEW d \in Devices \cup {NoDevice}, Login(p, t, d)
      PROVE  MarkingInv'
  <2>1. /\ tok' = [tok EXCEPT ![p] = t] /\ UNCHANGED <<ret, mode>>
        /\ \E l \in {"share", "before"} : pc' = [pc EXCEPT ![p] = l]
    BY <1>3 DEF Login, Goto, logoutVars
  <2>2. Marks(p)'
    BY <1>1, <1>2, <2>1 DEF Marks, EvictLabels, CollectLabels, LogoutLabels, LoggingIn,
       LoginLabels
  <2> QED BY <1>1, <2>1, <2>2, OthersMark
<1>4. ASSUME NEW t \in Tokens, NEW m \in {"KickOut", "Replaced"}, NEW c,
             TokenCall(p, t, m, c, "resolveBody")
      PROVE  MarkingInv'
  <2>1. /\ pc' = [pc EXCEPT ![p] = "resolveBody"] /\ UNCHANGED tok /\ pc[p] = "idle"
        /\ ret' = [ret EXCEPT ![p] = "return"] /\ mode' = [mode EXCEPT ![p] = m]
    BY <1>4 DEF TokenCall, StartLogout, Goto, loginVars
  <2>2. Marks(p)'
    BY <1>1, <1>2, <2>1 DEF Marks, EvictLabels, CollectLabels, LogoutLabels, LoggingIn,
       LoginLabels, Replacing
  <2> QED BY <1>1, <2>1, <2>2, OthersMark
<1>5. ASSUME NEW c, AccountCall(p, "KickOut", c)
      PROVE  MarkingInv'
  <2>1. /\ pc' = [pc EXCEPT ![p] = "listIndex"] /\ UNCHANGED tok /\ pc[p] = "idle"
        /\ ret' = [ret EXCEPT ![p] = "collect"] /\ mode' = [mode EXCEPT ![p] = "KickOut"]
    BY <1>5 DEF AccountCall, CollectInto, Goto, loginVars
  <2>2. Marks(p)'
    BY <1>1, <1>2, <2>1 DEF Marks, EvictLabels, CollectLabels, LogoutLabels, LoggingIn,
       LoginLabels, Replacing
  <2> QED BY <1>1, <2>1, <2>2, OthersMark
<1>6. ASSUME NEW t \in Tokens, Renew(p, t)
      PROVE  MarkingInv'
  <2>1. /\ pc' = [pc EXCEPT ![p] = "renewMark"] /\ UNCHANGED <<tok, ret, mode>>
        /\ pc[p] = "idle"
    BY <1>6 DEF Renew, Goto, loginVars
  <2>2. Marks(p)'
    BY <1>1, <1>2, <2>1 DEF Marks, EvictLabels, CollectLabels, LogoutLabels, LoggingIn,
       LoginLabels, Replacing
  <2> QED BY <1>1, <2>1, <2>2, OthersMark
<1>7. /\ \A t \in Tokens : ~Logout(p, t)
      /\ ~LogoutByLoginId(p)
  BY DEF Logout, LogoutByLoginId, TokenCall, AccountCall, MarkingConfig
<1> QED
  BY <1>3, <1>4, <1>5, <1>6, <1>7 DEF Begin, KickOutByToken, ReplacedByToken, KickOut

\* MarkingInv is inductive in such a configuration.
LEMMA StepMarks ==
  ASSUME MarkingConfig
  PROVE  TypeInv /\ MarkingInv /\ [Next]_vars => MarkingInv'
<1> SUFFICES ASSUME TypeInv, MarkingInv, [Next]_vars PROVE MarkingInv'
  OBVIOUS
<1>1. CASE UNCHANGED vars
  BY <1>1 DEF MarkingInv, HasLimit, IsConcurrent, MaxLoginCount, LoggingIn, Replacing,
     vars, loginVars, logoutVars
<1>2. ASSUME NEW p \in Procs, Begin(p), UNCHANGED config
      PROVE  MarkingInv'
  BY <1>2, BeginMarks
<1>3. ASSUME NEW p \in Procs, Step(p) \/ Disturb(p), UNCHANGED config
      PROVE  MarkingInv'
  <2>1. CASE Inner(p)
    BY <1>3, <2>1, InnerMarks
  <2>2. CASE Finish(p)
    BY <1>3, <2>2, FinishMarks
  <2>3. CASE CheckShareBody(p) /\ cur[p] \notin body
    <3>1. /\ pc[p] = "shareBody" /\ pc' = [pc EXCEPT ![p] = "before"]
          /\ UNCHANGED <<tok, ret, mode>>
      BY <2>3 DEF CheckShareBody, Goto, loginVars, logoutVars
    <3>2. /\ pc \in [Procs -> Labels] /\ Marks(p) /\ (HasLimit => HasLimit')
      BY <1>3 DEF TypeInv, TypeOK, MarkingInv, Marks, HasLimit, IsConcurrent,
         MaxLoginCount
    <3> HIDE DEF HasLimit
    <3>3. Marks(p)'
      BY <3>1, <3>2 DEF Marks, EvictLabels, CollectLabels, LogoutLabels, LoggingIn,
         LoginLabels
    <3> QED BY <1>3, <3>1, <3>2, <3>3, OthersMark
  <2>4. CASE Commit(p) /\ IsConcurrent /\ MaxLoginCount > 0
    <3>1. /\ pc' = [pc EXCEPT ![p] = "listIndex"] /\ ret' = [ret EXCEPT ![p] = "enforce"]
          /\ UNCHANGED <<tok, mode>> /\ HasLimit'
      BY <1>3, <2>4 DEF Commit, Goto, loginVars, HasLimit, IsConcurrent, MaxLoginCount
    <3>2. pc \in [Procs -> Labels] /\ ret \in [Procs -> ReturnLabels]
      BY DEF TypeInv, TypeOK
    <3> HIDE DEF HasLimit
    <3>3. Marks(p)'
      BY <3>1, <3>2 DEF Marks, EvictLabels, CollectLabels, LogoutLabels
    <3> QED BY <1>3, <3>1, <3>2, <3>3, OthersMark
  <2> QED
    BY <1>3, <2>1, <2>2, <2>3, <2>4, StepKinds
    DEF CheckShareBody, CommitConcurrent, CommitCas, CommitAbsent, Commit, RolledBack,
        EvictDone, Return, Crash
<1> QED BY <1>1, <1>2, <1>3 DEF Next

\* The markers of committed tokens, step by step.
LEMMA MarkersStay ==
  ASSUME TypeInv, OwnedInv, MarkingInv, [Next]_vars
  PROVE  \A t \in committed : Marked(t) => Marked(t)'
<1>1. /\ tokenId \in [Tokens -> {"none", "identity", "KickOut", "Replaced"}]
      /\ committed \subseteq Tokens
  BY DEF TypeInv, TypeOK
<1>2. CASE UNCHANGED tokenId
  BY <1>2 DEF Marked
<1>3. ASSUME NEW p \in Procs, SaveTokenId(p) \/ Rollback(p)
      PROVE  \A t \in committed : Marked(t) => Marked(t)'
  <2>1. /\ tok[p] \notin committed
        /\ \A t \in committed \ {tok[p]} : tokenId'[t] = tokenId[t]
    BY <1>1, <1>3 DEF SaveTokenId, Rollback, Undo, OwnedInv, LoggingIn, LoginLabels
  <2> QED BY <2>1 DEF Marked
<1>4. ASSUME NEW p \in Procs, Mark(p)
      PROVE  \A t \in committed : Marked(t) => Marked(t)'
  <2>1. /\ mode[p] \in {"KickOut", "Replaced"}
        /\ tokenId' = [tokenId EXCEPT ![cur[p]] =
                         IF mode[p] = "Logout" THEN "none" ELSE mode[p]]
    BY <1>4 DEF Mark, MarkingInv, LogoutLabels, TypeInv, TypeOK, LogoutModes
  <2> QED BY <1>1, <2>1 DEF Marked
<1>5. ASSUME NEW p \in Procs, Step(p) \/ Disturb(p), ~SaveTokenId(p), ~Rollback(p),
             ~Mark(p)
      PROVE  UNCHANGED tokenId
  <2>1. CASE Inner(p)
    <3>1. CASE Reading(p)
      BY <3>1, ReadingKeeps
    <3>2. CASE ~Reading(p)
      BY <1>5, <2>1, <3>2, InnerKinds
      DEF Removing, DeleteBody, RemoveIndex, Prune, EvictOne, Writing, Snapshot,
          AppendIndex, SaveBody, RenewWriteBody, UndoFault, store
    <3> QED BY <3>1, <3>2
  <2> QED
    BY <1>5, <2>1, StepKinds
    DEF CheckShareBody, CommitConcurrent, CommitCas, CommitAbsent, Commit, RolledBack,
        EvictDone, Return, Crash, store
<1>6. ASSUME NEW p \in Procs, Begin(p)
      PROVE  UNCHANGED tokenId
  BY <1>6 DEF Begin, Login, Logout, KickOutByToken, ReplacedByToken, TokenCall, Renew,
     LogoutByLoginId, KickOut, AccountCall, store
<1>7. UNCHANGED vars => UNCHANGED tokenId
  BY DEF vars, store
<1> QED BY <1>2, <1>3, <1>4, <1>5, <1>6, <1>7 DEF Next

\* Where the application kicks out and replaces but never logs out, a token that
\* has been marked is refused for ever, whatever renewals write its body back.
THEOREM KickOutCorrect ==
  ASSUME MarkingConfig
  PROVE  Spec => KickedOutForever
<1>1. Init => TypeInv /\ OwnedInv /\ MarkingInv
  <2>1. Init => MarkingInv
    BY DEF Init, MarkingInv, EvictLabels, CollectLabels, LogoutLabels
  <2> QED BY <2>1, InitType, InitOwned
<1>2. TypeInv /\ OwnedInv /\ MarkingInv /\ [Next]_vars => (TypeInv /\ OwnedInv /\ MarkingInv)'
  BY TypeStep, StepOwned, StepMarks
<1>3. TypeInv /\ OwnedInv /\ MarkingInv /\ [Next]_vars =>
        [\A t \in committed : Marked(t) => ~Usable(t)']_vars
  BY MarkersStay DEF Usable
<1> QED BY <1>1, <1>2, <1>3, PTL DEF Spec, KickedOutForever

=============================================================================
