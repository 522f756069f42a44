---------------------------- MODULE RefreshProofs ----------------------------
(***************************************************************************)
(* Refresh tokens, for any number of tasks, tokens and calls.  RotationInv *)
(* is inductive whatever overlaps; LoginInv adds what holds of the refresh *)
(* tokens on which calls do not overlap.  One lemma or step per action.    *)
(***************************************************************************)
EXTENDS RefreshTokens, TLAPS

\* A call that begins creates a token no one else knows, or none.
LEMMA BeginRotation ==
  ASSUME RotationInv, NEW p \in Procs, Begin(p)
  PROVE  RotationInv'
<1> USE RefreshAssumption DEF RotationInv, Labels, LoginLabels,
  RotateLabels, DeleteLabels, RevokeLabels, Creating, Goto,
  TypeOK, Holding, OneCreator, Phases,
  tokenStore, refreshStore, locals, history
<1>1. CASE \E r \in Refresh, a \in Access, t \in LoginTypes : Login(p, r, a, t)
  <2>0. PICK r \in Refresh, a \in Access, t \in LoginTypes : Login(p, r, a, t)
    BY <1>1
  <2>1. TypeOK' /\ Holding' /\ OneCreator' /\ Phases'
    BY <2>0 DEF Login, Fresh, Busy, BeginOn
  <2>2. ReadOnlyFinished' /\ Unhooked' /\ SupersededDead'
    BY <2>0 DEF Login, Fresh, Busy, BeginOn, ReadOnlyFinished, Unhooked, SupersededDead,
       MappingWritten, IndexReplaced, BodyDeleted
  <2> QED BY <2>1, <2>2
<1>2. CASE \E r \in Refresh : RefreshAccessToken(p, r)
  <2>0. PICK r \in Refresh : RefreshAccessToken(p, r)
    BY <1>2
  <2>1. TypeOK' /\ Holding' /\ OneCreator' /\ Phases'
    BY <2>0 DEF RefreshAccessToken, BeginOn
  <2>2. ReadOnlyFinished' /\ Unhooked' /\ SupersededDead'
    BY <2>0 DEF RefreshAccessToken, BeginOn, ReadOnlyFinished, Unhooked, SupersededDead,
       MappingWritten, IndexReplaced, BodyDeleted
  <2> QED BY <2>1, <2>2
<1>3. CASE \E r \in Refresh : Delete(p, r)
  <2>0. PICK r \in Refresh : Delete(p, r)
    BY <1>3
  <2>1. TypeOK' /\ Holding' /\ OneCreator' /\ Phases'
    BY <2>0 DEF Delete, BeginOn
  <2>2. ReadOnlyFinished' /\ Unhooked' /\ SupersededDead'
    BY <2>0 DEF Delete, BeginOn, ReadOnlyFinished, Unhooked, SupersededDead,
       MappingWritten, IndexReplaced, BodyDeleted
  <2> QED BY <2>1, <2>2
<1>4. CASE \E t \in LoginTypes : RevokeAllForUser(p, t)
  <2>0. PICK t \in LoginTypes : RevokeAllForUser(p, t)
    BY <1>4
  <2>1. TypeOK' /\ Holding' /\ OneCreator' /\ Phases'
    BY <2>0 DEF RevokeAllForUser
  <2>2. ReadOnlyFinished' /\ Unhooked' /\ SupersededDead'
    BY <2>0 DEF RevokeAllForUser, ReadOnlyFinished, Unhooked, SupersededDead,
       MappingWritten, IndexReplaced, BodyDeleted
  <2> QED BY <2>1, <2>2
<1> QED BY <1>1, <1>2, <1>3, <1>4 DEF Begin

\* The staged writes of a login touch its own token only.
LEMMA LoginRotation ==
  ASSUME RotationInv, NEW p \in Procs, LoginStep(p)
  PROVE  RotationInv'
<1> USE RefreshAssumption DEF RotationInv, Labels, LoginLabels,
  RotateLabels, DeleteLabels, RevokeLabels, Creating, Goto,
  TypeOK, Holding, OneCreator, Phases,
  tokenStore, refreshStore, locals, history
<1>1. CASE StoreRecord(p)
  <2>1. TypeOK' /\ Holding' /\ OneCreator' /\ Phases'
    BY <1>1 DEF StoreRecord
  <2>2. ReadOnlyFinished' /\ Unhooked' /\ SupersededDead'
    BY <1>1 DEF StoreRecord, ReadOnlyFinished, Unhooked, SupersededDead, MappingWritten,
       IndexReplaced, BodyDeleted
  <2> QED BY <2>1, <2>2
<1>2. CASE PushUserIndex(p)
  <2>1. TypeOK' /\ Holding' /\ OneCreator' /\ Phases'
    BY <1>2 DEF PushUserIndex
  <2>2. ReadOnlyFinished' /\ Unhooked' /\ SupersededDead'
    BY <1>2 DEF PushUserIndex, ReadOnlyFinished, Unhooked, SupersededDead,
       MappingWritten, IndexReplaced, BodyDeleted
  <2> QED BY <2>1, <2>2
<1>3. CASE Commit(p)
  <2>1. TypeOK' /\ Holding' /\ OneCreator' /\ Phases'
    BY <1>3 DEF Commit, Finish
  <2>2. ReadOnlyFinished' /\ Unhooked' /\ SupersededDead'
    BY <1>3 DEF Commit, Finish, ReadOnlyFinished, Unhooked, SupersededDead,
       MappingWritten, IndexReplaced, BodyDeleted
  <2> QED BY <2>1, <2>2
<1>4. CASE LoginFails(p)
  <2>1. TypeOK' /\ Holding' /\ OneCreator' /\ Phases'
    BY <1>4 DEF LoginFails, Finish
  <2>2. ReadOnlyFinished' /\ Unhooked' /\ SupersededDead'
    BY <1>4 DEF LoginFails, Finish, ReadOnlyFinished, Unhooked, SupersededDead,
       MappingWritten, IndexReplaced, BodyDeleted
  <2> QED BY <2>1, <2>2
<1> QED BY <1>1, <1>2, <1>3, <1>4 DEF LoginStep

\* A refresh unhooks its old token, one write after the other.
LEMMA RotateRotation ==
  ASSUME RotationInv, NEW p \in Procs, RotateStep(p)
  PROVE  RotationInv'
<1> USE RefreshAssumption DEF RotationInv, Labels, LoginLabels,
  RotateLabels, DeleteLabels, RevokeLabels, Creating, Goto,
  TypeOK, Holding, OneCreator, Phases,
  tokenStore, refreshStore, locals, history
<1>1. CASE Validate(p)
  <2>1. CASE record[rt[p]] = NoAccess
    <3>0. /\ Finish(p)
          /\ UNCHANGED <<tokenStore, refreshStore, source, loginType, issued, ended,
                         superseded, revoked, contended, calls>>
      BY <1>1, <2>1 DEF Validate
    <3>1. TypeOK' /\ Holding' /\ OneCreator' /\ Phases'
      BY <3>0 DEF Finish
    <3>2. ReadOnlyFinished' /\ Unhooked' /\ SupersededDead'
      BY <3>0 DEF Finish, ReadOnlyFinished, Unhooked, SupersededDead, MappingWritten,
         IndexReplaced, BodyDeleted
    <3> QED BY <3>1, <3>2
  <2>2. CASE record[rt[p]] # NoAccess
    <3>0. /\ \E l \in {"readForDelete", "readRecord"} : pc' = [pc EXCEPT ![p] = l]
          /\ pc[p] = "validate"
          /\ UNCHANGED <<tokenStore, refreshStore, locals, history>>
      BY <1>1, <2>2 DEF Validate
    <3>1. TypeOK' /\ Holding' /\ OneCreator' /\ Phases'
      BY <3>0
    <3>2. ReadOnlyFinished' /\ Unhooked' /\ SupersededDead'
      BY <3>0 DEF ReadOnlyFinished, Unhooked, SupersededDead, MappingWritten,
         IndexReplaced, BodyDeleted
    <3> QED BY <3>1, <3>2
  <2> QED BY <2>1, <2>2
<1>2. CASE ReadRecord(p)
  <2>1. CASE record[rt[p]] = NoAccess
    <3>0. /\ Finish(p)
          /\ UNCHANGED <<tokenStore, refreshStore, source, loginType, issued, ended,
                         superseded, revoked, contended, calls>>
      BY <1>2, <2>1 DEF ReadRecord
    <3>1. TypeOK' /\ Holding' /\ OneCreator' /\ Phases'
      BY <3>0 DEF Finish
    <3>2. ReadOnlyFinished' /\ Unhooked' /\ SupersededDead'
      BY <3>0 DEF Finish, ReadOnlyFinished, Unhooked, SupersededDead, MappingWritten,
         IndexReplaced, BodyDeleted
    <3> QED BY <3>1, <3>2
  <2>2. CASE record[rt[p]] # NoAccess
    <3>0. PICK a \in Fresh :
            /\ old' = [old EXCEPT ![p] = record[rt[p]]]
            /\ new' = [new EXCEPT ![p] = a]
            /\ source' = [source EXCEPT ![a] = rt[p]]
            /\ pc' = [pc EXCEPT ![p] = "saveBody"]
      BY <1>2, <2>2 DEF ReadRecord
    <3>00. /\ pc[p] = "readRecord" /\ UNCHANGED <<tokenStore, refreshStore>>
           /\ UNCHANGED <<rt, utype, todo, ret, loginType, issued, ended, superseded,
                          revoked, contended, must, late, calls>>
      BY <1>2, <2>2 DEF ReadRecord
    <3>1. TypeOK' /\ Holding' /\ OneCreator' /\ Phases'
      BY <3>0, <3>00, <2>2 DEF Fresh, ReadOnlyFinished
    <3>2. ReadOnlyFinished' /\ Unhooked' /\ SupersededDead'
      BY <3>0, <3>00, <2>2 DEF Fresh, ReadOnlyFinished, Unhooked,
         SupersededDead, MappingWritten, IndexReplaced, BodyDeleted
    <3> QED BY <3>1, <3>2
  <2> QED BY <2>1, <2>2
<1>3. CASE SaveBody(p)
  <2>1. TypeOK' /\ Holding' /\ OneCreator' /\ Phases'
    BY <1>3 DEF SaveBody
  <2>2. ReadOnlyFinished' /\ Unhooked' /\ SupersededDead'
    BY <1>3 DEF SaveBody, ReadOnlyFinished, Unhooked, SupersededDead, MappingWritten,
       IndexReplaced, BodyDeleted
  <2> QED BY <2>1, <2>2
<1>4. CASE SaveTokenId(p)
  <2>1. TypeOK' /\ Holding' /\ OneCreator' /\ Phases'
    BY <1>4 DEF SaveTokenId
  <2>2. ReadOnlyFinished' /\ Unhooked' /\ SupersededDead'
    BY <1>4 DEF SaveTokenId, ReadOnlyFinished, Unhooked, SupersededDead, MappingWritten,
       IndexReplaced, BodyDeleted
  <2> QED BY <2>1, <2>2
<1>5. CASE SaveMapping(p)
  <2>1. TypeOK' /\ Holding' /\ OneCreator' /\ Phases'
    BY <1>5 DEF SaveMapping
  <2>2. ReadOnlyFinished' /\ Unhooked' /\ SupersededDead'
    BY <1>5 DEF SaveMapping, ReadOnlyFinished, Unhooked, SupersededDead, MappingWritten,
       IndexReplaced, BodyDeleted
  <2> QED BY <2>1, <2>2
<1>6. CASE RemoveIndex(p)
  <2>1. TypeOK' /\ Holding' /\ OneCreator' /\ Phases'
    BY <1>6 DEF RemoveIndex
  <2>2. ReadOnlyFinished' /\ Unhooked' /\ SupersededDead'
    BY <1>6 DEF RemoveIndex, ReadOnlyFinished, Unhooked, SupersededDead, MappingWritten,
       IndexReplaced, BodyDeleted
  <2> QED BY <2>1, <2>2
<1>7. CASE AppendIndex(p)
  <2>1. TypeOK' /\ Holding' /\ OneCreator' /\ Phases'
    BY <1>7 DEF AppendIndex
  <2>2. ReadOnlyFinished' /\ Unhooked' /\ SupersededDead'
    BY <1>7 DEF AppendIndex, ReadOnlyFinished, Unhooked, SupersededDead, MappingWritten,
       IndexReplaced, BodyDeleted
  <2> QED BY <2>1, <2>2
<1>8. CASE DeleteBody(p)
  <2>1. TypeOK' /\ Holding' /\ OneCreator' /\ Phases'
    BY <1>8 DEF DeleteBody
  <2>2. ReadOnlyFinished' /\ Unhooked' /\ SupersededDead'
    BY <1>8 DEF DeleteBody, ReadOnlyFinished, Unhooked, SupersededDead, MappingWritten,
       IndexReplaced, BodyDeleted
  <2> QED BY <2>1, <2>2
<1>9. CASE DeleteTokenId(p)
  <2>1. TypeOK' /\ Holding' /\ OneCreator' /\ Phases'
    BY <1>9 DEF DeleteTokenId
  <2>2. ReadOnlyFinished' /\ Unhooked' /\ SupersededDead'
    BY <1>9 DEF DeleteTokenId, ReadOnlyFinished, Unhooked, SupersededDead,
       MappingWritten, IndexReplaced, BodyDeleted
  <2> QED BY <2>1, <2>2
<1>10. CASE SaveRecord(p)
  <2>1. TypeOK' /\ Holding' /\ OneCreator' /\ Phases'
    BY <1>10 DEF SaveRecord, Finish
  <2>2. ReadOnlyFinished' /\ Unhooked' /\ SupersededDead'
    BY SMTT(30), <1>10 DEF SaveRecord, Finish, ReadOnlyFinished, Unhooked, SupersededDead,
       MappingWritten, IndexReplaced, BodyDeleted
  <2> QED BY <2>1, <2>2
<1> QED BY <1>1, <1>2, <1>3, <1>4, <1>5, <1>6, <1>7, <1>8, <1>9, <1>10 DEF RotateStep

\* delete and revoke_all_for_user touch no access token.
LEMMA RevokeRotation ==
  ASSUME RotationInv, NEW p \in Procs, RevokeStep(p)
  PROVE  RotationInv'
<1> USE RefreshAssumption DEF RotationInv, Labels, LoginLabels,
  RotateLabels, DeleteLabels, RevokeLabels, Creating, Goto,
  TypeOK, Holding, OneCreator, Phases,
  tokenStore, refreshStore, locals, history
<1>1. CASE ReadForDelete(p)
  <2>1. TypeOK' /\ Holding' /\ OneCreator' /\ Phases'
    BY <1>1 DEF ReadForDelete
  <2>2. ReadOnlyFinished' /\ Unhooked' /\ SupersededDead'
    BY <1>1 DEF ReadForDelete, ReadOnlyFinished, Unhooked, SupersededDead,
       MappingWritten, IndexReplaced, BodyDeleted
  <2> QED BY <2>1, <2>2
<1>2. CASE Unlist(p)
  <2>1. TypeOK' /\ Holding' /\ OneCreator' /\ Phases'
    BY <1>2 DEF Unlist
  <2>2. ReadOnlyFinished' /\ Unhooked' /\ SupersededDead'
    BY <1>2 DEF Unlist, ReadOnlyFinished, Unhooked, SupersededDead, MappingWritten,
       IndexReplaced, BodyDeleted
  <2> QED BY <2>1, <2>2
<1>3. CASE DeleteRecord(p)
  <2>1. CASE ret[p] = "idle"
    <3>0. /\ Finish(p)
          /\ UNCHANGED <<tokenStore, userIndex, expired, source, loginType, issued,
                         ended, superseded, contended, calls>>
          /\ pc[p] = "deleteRecord" /\ record' = [record EXCEPT ![rt[p]] = NoAccess]
          /\ revoked' = revoked \cup {rt[p]}
      BY <1>3, <2>1 DEF DeleteRecord
    <3>1. TypeOK' /\ Holding' /\ OneCreator' /\ Phases'
      BY <3>0 DEF Finish
    <3>2. ReadOnlyFinished' /\ Unhooked' /\ SupersededDead'
      BY <3>0 DEF Finish, ReadOnlyFinished, Unhooked, SupersededDead, MappingWritten,
         IndexReplaced, BodyDeleted
    <3> QED BY <3>1, <3>2
  <2>2. CASE ret[p] = "revokeNext"
    <3>0. /\ pc[p] = "deleteRecord" /\ record' = [record EXCEPT ![rt[p]] = NoAccess]
          /\ pc' = [pc EXCEPT ![p] = "revokeNext"]
          /\ rt' = [rt EXCEPT ![p] = NoRefresh]
          /\ UNCHANGED <<tokenStore, userIndex, expired, old, new, utype, todo, ret,
                         history>>
      BY <1>3, <2>2 DEF DeleteRecord
    <3>1. TypeOK' /\ Holding' /\ OneCreator' /\ Phases'
      BY <3>0
    <3>2. ReadOnlyFinished' /\ Unhooked' /\ SupersededDead'
      BY <3>0 DEF ReadOnlyFinished, Unhooked, SupersededDead, MappingWritten,
         IndexReplaced, BodyDeleted
    <3> QED BY <3>1, <3>2
  <2> QED BY <2>1, <2>2 DEF TypeOK
<1>4. CASE ListUser(p)
  <2>1. TypeOK' /\ Holding' /\ OneCreator' /\ Phases'
    BY <1>4 DEF ListUser
  <2>2. ReadOnlyFinished' /\ Unhooked' /\ SupersededDead'
    BY <1>4 DEF ListUser, ReadOnlyFinished, Unhooked, SupersededDead, MappingWritten,
       IndexReplaced, BodyDeleted
  <2> QED BY <2>1, <2>2
<1>5. CASE \E r \in Refresh : RevokeOne(p, r)
  <2>0. PICK r \in Refresh : RevokeOne(p, r)
    BY <1>5
  <2>1. TypeOK' /\ Holding' /\ OneCreator' /\ Phases'
    BY <2>0 DEF RevokeOne
  <2>2. ReadOnlyFinished' /\ Unhooked' /\ SupersededDead'
    BY <2>0 DEF RevokeOne, ReadOnlyFinished, Unhooked, SupersededDead, MappingWritten,
       IndexReplaced, BodyDeleted
  <2> QED BY <2>1, <2>2
<1>6. CASE RevokeDone(p)
  <2>1. TypeOK' /\ Holding' /\ OneCreator' /\ Phases'
    BY <1>6 DEF RevokeDone
  <2>2. ReadOnlyFinished' /\ Unhooked' /\ SupersededDead'
    BY <1>6 DEF RevokeDone, ReadOnlyFinished, Unhooked, SupersededDead, MappingWritten,
       IndexReplaced, BodyDeleted
  <2> QED BY <2>1, <2>2
<1>7. CASE DropUserIndex(p)
  <2>1. TypeOK' /\ Holding' /\ OneCreator' /\ Phases'
    BY <1>7 DEF DropUserIndex, Finish
  <2>2. ReadOnlyFinished' /\ Unhooked' /\ SupersededDead'
    BY <1>7 DEF DropUserIndex, Finish, ReadOnlyFinished, Unhooked, SupersededDead,
       MappingWritten, IndexReplaced, BodyDeleted
  <2> QED BY <2>1, <2>2
<1> QED BY <1>1, <1>2, <1>3, <1>4, <1>5, <1>6, <1>7 DEF RevokeStep

\* A call that breaks off leaves its token to nobody.
LEMMA AbortRotation ==
  ASSUME RotationInv, NEW p \in Procs, Abort(p)
  PROVE  RotationInv'
<1> USE RefreshAssumption DEF RotationInv, Labels, LoginLabels,
  RotateLabels, DeleteLabels, RevokeLabels, Creating, Goto,
  TypeOK, Holding, OneCreator, Phases,
  tokenStore, refreshStore, locals, history
<1>1. TypeOK' /\ Holding' /\ OneCreator' /\ Phases'
  BY DEF Abort, Finish
<1>2. ReadOnlyFinished' /\ Unhooked' /\ SupersededDead'
  BY DEF Abort, Finish, ReadOnlyFinished, Unhooked, SupersededDead, MappingWritten,
     IndexReplaced, BodyDeleted
<1> QED BY <1>1, <1>2

\* A logout or a kick-out removes a live token, which is not a superseded one.
LEMMA LogoutRotation ==
  ASSUME RotationInv, NEW a \in Access, NEW m \in {"Logout", "KickOut"}, Logout(a, m)
  PROVE  RotationInv'
<1> USE RefreshAssumption DEF RotationInv, Labels, LoginLabels,
  RotateLabels, DeleteLabels, RevokeLabels, Creating, Goto,
  TypeOK, Holding, OneCreator, Phases,
  tokenStore, refreshStore, locals, history
<1>1. TypeOK' /\ Holding' /\ OneCreator' /\ Phases'
  BY DEF Logout, Identity
<1>2. ReadOnlyFinished' /\ Unhooked' /\ SupersededDead'
  BY DEF Logout, Identity, ReadOnlyFinished, Unhooked, SupersededDead, MappingWritten,
     IndexReplaced, BodyDeleted
<1> QED BY <1>1, <1>2

\* Time touches no access token.
LEMMA TimeRotation ==
  ASSUME RotationInv, NEW r \in Refresh, Expire(r) \/ DropRecord(r)
  PROVE  RotationInv'
<1> USE RefreshAssumption DEF RotationInv, Labels, LoginLabels,
  RotateLabels, DeleteLabels, RevokeLabels, Creating, Goto,
  TypeOK, Holding, OneCreator, Phases,
  tokenStore, refreshStore, locals, history
<1>1. TypeOK' /\ Holding' /\ OneCreator' /\ Phases'
  BY DEF Expire, DropRecord
<1>2. ReadOnlyFinished' /\ Unhooked' /\ SupersededDead'
  BY DEF Expire, DropRecord, ReadOnlyFinished, Unhooked, SupersededDead, MappingWritten,
     IndexReplaced, BodyDeleted
<1> QED BY <1>1, <1>2

\* The empty storage satisfies the invariant.
LEMMA InitRotation == Init => RotationInv
BY RefreshAssumption DEF Init, RotationInv, TypeOK, Holding, OneCreator, Phases,
   ReadOnlyFinished, Unhooked, SupersededDead, Labels, Creating, LoginLabels,
   RotateLabels, DeleteLabels, MappingWritten, IndexReplaced, BodyDeleted

\* RotationInv is inductive.
LEMMA StepRotation ==
  ASSUME RotationInv, [Next]_vars
  PROVE  RotationInv'
<1>1. CASE UNCHANGED vars
  BY <1>1 DEF vars, tokenStore, refreshStore, locals, history, RotationInv, TypeOK,
     Holding, OneCreator, Phases, ReadOnlyFinished, Unhooked, SupersededDead
<1>2. CASE Next
  BY <1>2, BeginRotation, LoginRotation, RotateRotation, RevokeRotation,
     AbortRotation, LogoutRotation, TimeRotation DEF Next
<1> QED BY <1>1, <1>2

\* Every variable keeps its type, and an access token a completed refresh has
\* replaced never authenticates again: it has no body, no identity, no index
\* entry and no login:token, whatever refreshes, revocations, logouts and
\* logins overlap and wherever they break off.
THEOREM RefreshCorrect == Spec => [](TypeOK /\ SupersededDead)
<1>1. RotationInv => TypeOK /\ SupersededDead
  BY DEF RotationInv
<1> QED BY InitRotation, StepRotation, <1>1, PTL DEF Spec

-----------------------------------------------------------------------------
(***************************************************************************)
(* What refresh tokens can rely on when the calls on them do not overlap.   *)
(***************************************************************************)
\* What the place of a call says about its arguments.
Placed ==
  /\ revoked \subseteq issued /\ expired \subseteq issued
  /\ \A p \in Procs :
       /\ pc[p] = "idle" => rt[p] = NoRefresh /\ ret[p] = "idle" /\ ~late[p]
       /\ pc[p] \in RevokeLabels => rt[p] = NoRefresh /\ ret[p] = "revokeNext"
       /\ ret[p] = "revokeNext" => pc[p] \in RevokeLabels \cup DeleteLabels /\ ~late[p]
       /\ ret[p] = "idle" /\ pc[p] \in DeleteLabels => rt[p] \in issued
       /\ must[p] \subseteq issued
       /\ pc[p] \in LoginLabels => utype[p] = loginType[rt[p]]

\* Of two calls on a refresh token, neither relies on it, nor does one that a
\* revocation may come across.
Apart ==
  \A p, q \in Procs : p # q =>
    /\ rt[p] = rt[q] /\ rt[p] \in Refresh => rt[p] \in contended
    /\ ret[p] = "revokeNext" =>
         /\ rt[q] \in Refresh => rt[q] \in contended
         /\ ret[q] = "revokeNext" => Refresh \subseteq contended

\* A call that began too late gets no further than the deletion of the record.
TooLate ==
  \A p \in Procs : late[p] =>
    rt[p] \in expired /\ pc[p] \notin RotateLabels \cup {"readRecord"}

\* A refresh token is in its user's index from its login on ...
Pushed ==
  \A p \in Procs : rt[p] \notin contended =>
    /\ pc[p] = "commit" => rt[p] \in userIndex[utype[p]]
    /\ pc[p] \in RotateLabels => rt[p] \in userIndex[loginType[rt[p]]]

\* ... until the deletion that is about to remove its record takes it off.
StillPushed ==
  \A r \in issued \ contended : record[r] # NoAccess =>
    \/ r \in userIndex[loginType[r]]
    \/ \E p \in Procs : rt[p] = r /\ pc[p] = "deleteRecord"

\* A revocation has the tokens it must answer for still before it, or deleted.
StillToRevoke ==
  \A p \in Procs : ret[p] = "revokeNext" =>
    /\ \A r \in issued \ contended : loginType[r] = utype[p] => r \in must[p]
    /\ \A r \in must[p] \ contended :
         /\ loginType[r] = utype[p]
         /\ record[r] # NoAccess =>
              /\ pc[p] = "revokeNext" => r \in todo[p]
              /\ pc[p] \in DeleteLabels => r \in todo[p] \cup {rt[p]}
              /\ pc[p] # "dropUserIndex"

\* A revoked token has no record, and nobody is about to write one.
RevokedForGood ==
  \A r \in revoked \ contended :
    record[r] = NoAccess /\ \A p \in Procs : rt[p] = r => pc[p] \notin RotateLabels

\* A rotation of r is writing; the labels at which both access tokens are live.
Rotating(r) == \E p \in Procs : rt[p] = r /\ pc[p] \in RotateLabels
BothLive == {"saveTokenId", "saveMapping", "removeIndex", "appendIndex", "deleteBody"}

\* Live access tokens come from a login, which has its own.
Sourced ==
  /\ \A a \in body : source[a] \in Refresh
  /\ \A p \in Procs : pc[p] \in LoginLabels => record[rt[p]] \in {new[p], NoAccess}

\* The live access tokens of the login a call works on.
LiveInCall ==
  \A a \in body, p \in Procs : rt[p] = source[a] /\ source[a] \notin contended =>
    /\ pc[p] \in LoginLabels \cup BodyDeleted => a = new[p]
    /\ pc[p] = "saveBody" => a = old[p]
    /\ pc[p] \in BothLive => a \in {old[p], new[p]}

\* Outside a rotation a login has one, the one its record names.
OneLive ==
  \A a \in body : source[a] \in issued \ contended /\ ~Rotating(source[a]) =>
    /\ record[source[a]] \in {a, NoAccess}
    /\ \A b \in body : source[b] = source[a] => a = b

\* An access token that works, under the default account type.
Works(a) == a \in body /\ tokenId[a] = DefaultType /\ a \in index[DefaultType]

\* What a login or a refresh has written stands until a logout or a refresh ends it.
Written ==
  \A p \in Procs : new[p] \notin ended =>
    /\ pc[p] \in LoginLabels /\ utype[p] = DefaultType => Works(new[p])
    /\ pc[p] \in RotateLabels \ {"saveBody"} => new[p] \in body
    /\ pc[p] \in MappingWritten \cup {"saveMapping"} => tokenId[new[p]] = DefaultType
    /\ pc[p] \in BodyDeleted \cup {"deleteBody"} => new[p] \in index[DefaultType]

\* Outside a rotation the access token a record names works, unless it was ended.
RecordWorks ==
  \A r \in issued \ contended :
    loginType[r] = DefaultType /\ ~Rotating(r) /\ record[r] \notin ended \cup {NoAccess}
      => Works(record[r])

\* What is invariant of logins and their refresh tokens.
LoginInv ==
  /\ RotationInv /\ Placed /\ Apart /\ TooLate /\ Pushed /\ StillPushed
  /\ StillToRevoke /\ RevokedForGood
  /\ Sourced /\ LiveInCall /\ OneLive /\ Written /\ RecordWorks

\* No refresh token is issued at first.
LEMMA LoginsInitial == Init => LoginInv
<1> USE RefreshAssumption DEF Init, LoginLabels, RevokeLabels, DeleteLabels, RotateLabels
<1>1. Init => Placed /\ Apart /\ TooLate /\ Pushed /\ StillPushed
  BY DEF Placed, Apart, TooLate, Pushed, StillPushed
<1>2. Init => StillToRevoke /\ RevokedForGood /\ Sourced /\ LiveInCall /\ OneLive
  BY DEF StillToRevoke, RevokedForGood, Sourced, LiveInCall, OneLive
<1>3. Init => Written /\ RecordWorks
  BY DEF Written, RecordWorks, BodyDeleted, MappingWritten
<1> QED BY <1>1, <1>2, <1>3, InitRotation DEF LoginInv

\* Every step keeps LoginInv; one step of the proof per action, one below it per part.
LEMMA LoginsInductive ==
  ASSUME LoginInv, [Next]_vars
  PROVE  LoginInv'
<1>0. RotationInv'
  BY StepRotation DEF LoginInv
<1> USE RefreshAssumption DEF LoginInv, RotationInv, TypeOK, Creating, LoginLabels,
    RotateLabels, DeleteLabels, RevokeLabels, Labels, tokenStore, refreshStore, locals,
    history
<1>1. ASSUME NEW p \in Procs, NEW r \in Refresh, NEW a \in Access, NEW t \in LoginTypes,
             Login(p, r, a, t)
      PROVE  LoginInv'
  <2> USE DEF Login, BeginOn, Fresh, Busy, Revoking, Goto
  <2>1. Placed'
    BY <1>1 DEF Placed
  <2>2. Apart'
    BY <1>1 DEF Placed, Apart
  <2>3. TooLate'
    BY <1>1 DEF Placed, TooLate
  <2>4. Pushed'
    BY <1>1 DEF Pushed
  <2>5. StillPushed'
    <3>1. \A q \in Procs : pc[q] = "deleteRecord" => pc'[q] = pc[q] /\ rt'[q] = rt[q]
      BY <1>1
    <3>2. /\ UNCHANGED <<record, userIndex>>
          /\ \A s \in issued' \ contended' : s \in issued \ contended /\ loginType'[s] = loginType[s]
      BY <1>1
    <3> QED BY <3>1, <3>2 DEF StillPushed
  <2>6. StillToRevoke'
    BY <1>1 DEF Placed, StillToRevoke
  <2>7. RevokedForGood'
    BY <1>1 DEF RevokedForGood
  <2>8. Sourced'
    BY <1>1 DEF Sourced
  <2>9. LiveInCall'
    BY <1>1 DEF LiveInCall
  <2>10. OneLive'
    <3>1. \A s \in Refresh : Rotating(s) => Rotating(s)'
      BY <1>1 DEF Rotating
    <3>2. /\ \A b \in body : source[b] # r /\ source'[b] = source[b]
          /\ source'[a] = r /\ r \notin issued' /\ body' = body \cup {a}
          /\ UNCHANGED <<record, issued>> /\ contended \subseteq contended'
      BY <1>1 DEF Sourced
    <3>3. \A b \in body' : source'[b] \in issued' \ contended' =>
            b \in body /\ source[b] \in issued \ contended
      BY <3>2
    <3> QED BY <3>1, <3>2, <3>3 DEF OneLive
  <2>11. Written'
    <3>2. \A q \in Procs \ {p} :
            /\ pc'[q] = pc[q] /\ utype'[q] = utype[q] /\ new'[q] = new[q]
            /\ pc[q] \in Creating => new[q] # a
      BY <1>1 DEF OneCreator, Holding
    <3>3. /\ body \subseteq body' /\ \A b \in Access \ {a} : tokenId'[b] = tokenId[b]
          /\ index[DefaultType] \subseteq index'[DefaultType] /\ ended' = ended
      BY <1>1
    <3>4. \A q \in Procs : pc[q] \in Creating => new[q] \in Access
      BY DEF OneCreator
    <3>5. pc'[p] = "storeRecord" /\ new'[p] = a /\ (utype'[p] = DefaultType => Works(a)')
      BY <1>1 DEF Works
    <3>6. ASSUME NEW q \in Procs \ {p}, new'[q] \notin ended'
          PROVE  /\ pc'[q] \in LoginLabels /\ utype'[q] = DefaultType => Works(new[q])'
                 /\ pc'[q] \in RotateLabels \ {"saveBody"} => new'[q] \in body'
                 /\ pc'[q] \in MappingWritten \cup {"saveMapping"} =>
                      tokenId'[new'[q]] = DefaultType
                 /\ pc'[q] \in BodyDeleted \cup {"deleteBody"} => new'[q] \in index'[DefaultType]
      <4> HIDE DEF Login
      <4>1. CASE pc[q] \in Creating
        <5>1. new'[q] = new[q] /\ new[q] \in Access \ {a} /\ new[q] \notin ended
          BY <3>2, <3>3, <3>4, <3>6, <4>1
        <5>2. /\ new[q] \in body => new[q] \in body'
              /\ tokenId'[new[q]] = tokenId[new[q]]
              /\ new[q] \in index[DefaultType] => new[q] \in index'[DefaultType]
          BY <3>3, <5>1
        <5> QED BY <3>2, <5>1, <5>2 DEF Written, Works
      <4>2. CASE pc[q] \notin Creating
        BY <3>2, <4>2 DEF BodyDeleted, MappingWritten
      <4> QED BY <4>1, <4>2
    <3>7. /\ pc'[p] \notin RotateLabels
          /\ pc'[p] \in LoginLabels /\ utype'[p] = DefaultType => Works(new[p])'
      BY <3>5
    <3> HIDE DEF Login
    <3> QED BY <3>6, <3>7 DEF Written, BodyDeleted, MappingWritten
  <2>12. RecordWorks'
    BY <1>1 DEF OneCreator, ReadOnlyFinished, Written, RecordWorks, Works, Rotating
  <2> HIDE DEF RotationInv
  <2> QED BY <1>0, <2>1, <2>2, <2>3, <2>4, <2>5, <2>6, <2>7, <2>8, <2>9, <2>10, <2>11,
      <2>12
<1>2. ASSUME NEW p \in Procs, NEW r \in Refresh, RefreshAccessToken(p, r)
      PROVE  LoginInv'
  <2> USE DEF RefreshAccessToken, BeginOn, Busy, Revoking, Goto
  <2>1. Placed'
    BY <1>2 DEF Placed
  <2>2. Apart'
    BY <1>2 DEF Placed, Apart
  <2>3. TooLate'
    BY <1>2 DEF TooLate
  <2>4. Pushed'
    BY <1>2 DEF Pushed
  <2>5. StillPushed'
    BY <1>2 DEF StillPushed
  <2>6. StillToRevoke'
    BY <1>2 DEF StillToRevoke
  <2>7. RevokedForGood'
    BY <1>2 DEF RevokedForGood
  <2>8. Sourced'
    BY <1>2 DEF Sourced
  <2>9. LiveInCall'
    BY <1>2 DEF LiveInCall, BothLive, BodyDeleted
  <2>10. OneLive'
    BY <1>2 DEF OneLive, Rotating
  <2>11. Written'
    BY <1>2 DEF Written, Works, BodyDeleted, MappingWritten
  <2>12. RecordWorks'
    BY <1>2 DEF RecordWorks, Works, Rotating
  <2> HIDE DEF RotationInv
  <2> QED BY <1>0, <2>1, <2>2, <2>3, <2>4, <2>5, <2>6, <2>7, <2>8, <2>9, <2>10, <2>11,
      <2>12
<1>3. ASSUME NEW p \in Procs, NEW r \in Refresh, Delete(p, r)
      PROVE  LoginInv'
  <2> USE DEF Delete, BeginOn, Busy, Revoking, Goto
  <2>1. Placed'
    BY <1>3 DEF Placed
  <2>2. Apart'
    BY <1>3 DEF Placed, Apart
  <2>3. TooLate'
    BY <1>3 DEF TooLate
  <2>4. Pushed'
    BY <1>3 DEF Pushed
  <2>5. StillPushed'
    BY <1>3 DEF StillPushed
  <2>6. StillToRevoke'
    BY <1>3 DEF Placed, StillToRevoke
  <2>7. RevokedForGood'
    BY <1>3 DEF RevokedForGood
  <2>8. Sourced'
    BY <1>3 DEF Sourced
  <2>9. LiveInCall'
    BY <1>3 DEF LiveInCall, BothLive, BodyDeleted
  <2>10. OneLive'
    BY <1>3 DEF Holding, LiveInCall, OneLive, Rotating, BothLive
  <2>11. Written'
    BY <1>3 DEF Written, Works, BodyDeleted, MappingWritten
  <2>12. RecordWorks'
    BY <1>3 DEF RecordWorks, Works, Rotating
  <2> HIDE DEF RotationInv
  <2> QED BY <1>0, <2>1, <2>2, <2>3, <2>4, <2>5, <2>6, <2>7, <2>8, <2>9, <2>10, <2>11,
      <2>12
<1>4. ASSUME NEW p \in Procs, NEW t \in LoginTypes, RevokeAllForUser(p, t)
      PROVE  LoginInv'
  <2> USE DEF RevokeAllForUser, Busy, Revoking, Goto
  <2>1. Placed'
    BY <1>4 DEF Placed
  <2>2. Apart'
    BY <1>4 DEF Placed, Apart
  <2>3. TooLate'
    BY <1>4 DEF TooLate
  <2>4. Pushed'
    BY <1>4 DEF Pushed
  <2>5. StillPushed'
    BY <1>4 DEF StillPushed
  <2>6. StillToRevoke'
    BY <1>4 DEF StillToRevoke
  <2>7. RevokedForGood'
    BY <1>4 DEF RevokedForGood
  <2>8. Sourced'
    BY <1>4 DEF Sourced
  <2>9. LiveInCall'
    BY <1>4 DEF LiveInCall, BothLive, BodyDeleted
  <2>10. OneLive'
    BY <1>4 DEF OneLive, Rotating
  <2>11. Written'
    BY <1>4 DEF Written, Works, BodyDeleted, MappingWritten
  <2>12. RecordWorks'
    BY <1>4 DEF RecordWorks, Works, Rotating
  <2> HIDE DEF RotationInv
  <2> QED BY <1>0, <2>1, <2>2, <2>3, <2>4, <2>5, <2>6, <2>7, <2>8, <2>9, <2>10, <2>11,
      <2>12
<1>5. ASSUME NEW p \in Procs, StoreRecord(p)
      PROVE  LoginInv'
  <2> USE DEF StoreRecord, Goto
  <2>1. Placed'
    BY <1>5 DEF Placed
  <2>2. Apart'
    BY <1>5 DEF Apart
  <2>3. TooLate'
    BY <1>5 DEF TooLate
  <2>4. Pushed'
    BY <1>5 DEF Pushed
  <2>5. StillPushed'
    BY <1>5 DEF StillPushed, Phases
  <2>6. StillToRevoke'
    BY <1>5 DEF Apart, StillToRevoke
  <2>7. RevokedForGood'
    BY <1>5 DEF Placed, RevokedForGood, Phases
  <2>8. Sourced'
    BY <1>5 DEF Phases, Sourced
  <2>9. LiveInCall'
    BY <1>5 DEF LiveInCall
  <2>10. OneLive'
    BY <1>5 DEF LiveInCall, OneLive, Rotating
  <2>11. Written'
    BY <1>5 DEF Written, Works, BodyDeleted, MappingWritten
  <2>12. RecordWorks'
    BY <1>5 DEF Phases, RecordWorks, Works, Rotating
  <2> HIDE DEF RotationInv
  <2> QED BY <1>0, <2>1, <2>2, <2>3, <2>4, <2>5, <2>6, <2>7, <2>8, <2>9, <2>10, <2>11,
      <2>12
<1>6. ASSUME NEW p \in Procs, PushUserIndex(p)
      PROVE  LoginInv'
  <2> USE DEF PushUserIndex, Goto
  <2>1. Placed'
    BY <1>6 DEF Placed
  <2>2. Apart'
    BY <1>6 DEF Apart
  <2>3. TooLate'
    BY <1>6 DEF TooLate
  <2>4. Pushed'
    BY <1>6 DEF Pushed
  <2>5. StillPushed'
    BY <1>6 DEF StillPushed
  <2>6. StillToRevoke'
    BY <1>6 DEF StillToRevoke
  <2>7. RevokedForGood'
    BY <1>6 DEF RevokedForGood
  <2>8. Sourced'
    BY <1>6 DEF Sourced
  <2>9. LiveInCall'
    BY <1>6 DEF LiveInCall
  <2>10. OneLive'
    BY <1>6 DEF LiveInCall, OneLive, Rotating, BothLive
  <2>11. Written'
    BY <1>6 DEF Written, Works, BodyDeleted, MappingWritten
  <2>12. RecordWorks'
    BY <1>6 DEF RecordWorks, Works, Rotating
  <2> HIDE DEF RotationInv
  <2> QED BY <1>0, <2>1, <2>2, <2>3, <2>4, <2>5, <2>6, <2>7, <2>8, <2>9, <2>10, <2>11,
      <2>12
<1>7. ASSUME NEW p \in Procs, Commit(p)
      PROVE  LoginInv'
  <2> USE DEF Commit, Goto, Finish
  <2>1. Placed'
    BY <1>7 DEF Placed
  <2>2. Apart'
    BY <1>7 DEF Apart
  <2>3. TooLate'
    BY <1>7 DEF TooLate
  <2>4. Pushed'
    BY <1>7 DEF Pushed
  <2>5. StillPushed'
    BY <1>7 DEF Placed, Pushed, StillPushed
  <2>6. StillToRevoke'
    <3>1. /\ rt[p] \in Refresh
          /\ \A q \in Procs \ {p} : ret[q] = "revokeNext" => rt[p] \in contended
      BY <1>7 DEF Apart, Holding
    <3>2. /\ ret'[p] = "idle" /\ issued' = issued \cup {rt[p]}
          /\ UNCHANGED <<contended, loginType, record>>
          /\ \A q \in Procs \ {p} :
               /\ ret'[q] = ret[q] /\ pc'[q] = pc[q] /\ rt'[q] = rt[q] /\ utype'[q] = utype[q]
               /\ must'[q] = must[q] /\ todo'[q] = todo[q]
      BY <1>7
    <3> HIDE DEF RotationInv, TypeOK, Commit
    <3> QED BY <3>1, <3>2 DEF StillToRevoke
  <2>7. RevokedForGood'
    BY <1>7 DEF RevokedForGood
  <2>8. Sourced'
    BY <1>7 DEF Sourced
  <2>9. LiveInCall'
    BY <1>7 DEF LiveInCall, BothLive, BodyDeleted
  <2>10. OneLive'
    BY <1>7 DEF Sourced, LiveInCall, OneLive, Rotating
  <2>11. Written'
    BY <1>7 DEF Written, Works, BodyDeleted, MappingWritten
  <2>12. RecordWorks'
    BY <1>7 DEF Placed, Sourced, Written, RecordWorks, Works, Rotating
  <2> HIDE DEF RotationInv
  <2> QED BY <1>0, <2>1, <2>2, <2>3, <2>4, <2>5, <2>6, <2>7, <2>8, <2>9, <2>10, <2>11,
      <2>12
<1>8. ASSUME NEW p \in Procs, LoginFails(p)
      PROVE  LoginInv'
  <2> USE DEF LoginFails, Goto, Finish
  <2>1. Placed'
    BY <1>8 DEF Placed
  <2>2. Apart'
    BY <1>8 DEF Apart
  <2>3. TooLate'
    BY <1>8 DEF TooLate
  <2>4. Pushed'
    BY <1>8 DEF Pushed
  <2>5. StillPushed'
    BY <1>8 DEF StillPushed
  <2>6. StillToRevoke'
    BY <1>8 DEF StillToRevoke
  <2>7. RevokedForGood'
    BY <1>8 DEF RevokedForGood
  <2>8. Sourced'
    BY <1>8 DEF Sourced
  <2>9. LiveInCall'
    BY <1>8 DEF LiveInCall, BothLive, BodyDeleted
  <2>10. OneLive'
    BY <1>8 DEF LiveInCall, OneLive, Rotating
  <2>11. Written'
    BY <1>8 DEF OneCreator, Written, Works, BodyDeleted, MappingWritten
  <2>12. RecordWorks'
    BY <1>8 DEF OneCreator, Phases, ReadOnlyFinished, RecordWorks, Works, Rotating
  <2> HIDE DEF RotationInv
  <2> QED BY <1>0, <2>1, <2>2, <2>3, <2>4, <2>5, <2>6, <2>7, <2>8, <2>9, <2>10, <2>11,
      <2>12
<1>9. ASSUME NEW p \in Procs, Validate(p)
      PROVE  LoginInv'
  <2>1. CASE record[rt[p]] = NoAccess
    <3>0. /\ pc[p] = "validate" /\ Finish(p)
          /\ UNCHANGED <<tokenStore, refreshStore, source, loginType, issued, ended,
                         superseded, revoked, contended, calls>>
      BY <1>9, <2>1 DEF Validate
    <3> USE DEF Goto, Finish
    <3>1. Placed'
      BY <2>1, <3>0 DEF Placed
    <3>2. Apart'
      BY <2>1, <3>0 DEF Apart
    <3>3. TooLate'
      BY <2>1, <3>0 DEF TooLate
    <3>4. Pushed'
      BY <2>1, <3>0 DEF Pushed
    <3>5. StillPushed'
      BY <2>1, <3>0 DEF StillPushed
    <3>6. StillToRevoke'
      BY <2>1, <3>0 DEF StillToRevoke
    <3>7. RevokedForGood'
      BY <2>1, <3>0 DEF RevokedForGood
    <3>8. Sourced'
      BY <2>1, <3>0 DEF Sourced
    <3>9. LiveInCall'
      BY <2>1, <3>0 DEF LiveInCall, BothLive, BodyDeleted
    <3>10. OneLive'
      BY <2>1, <3>0 DEF OneCreator, Sourced, OneLive, Rotating
    <3>11. Written'
      BY <2>1, <3>0 DEF Written, Works, BodyDeleted, MappingWritten
    <3>12. RecordWorks'
      BY <2>1, <3>0 DEF RecordWorks, Works, Rotating
    <3> HIDE DEF RotationInv
    <3> QED BY <1>0, <3>1, <3>2, <3>3, <3>4, <3>5, <3>6, <3>7, <3>8, <3>9, <3>10, <3>11,
        <3>12
  <2>2. CASE record[rt[p]] # NoAccess
    <3>0. /\ pc[p] = "validate" /\ UNCHANGED <<tokenStore, refreshStore, locals, history>>
          /\ \E l \in {"readForDelete", "readRecord"} :
               pc' = [pc EXCEPT ![p] = l] /\ (l = "readRecord" => rt[p] \notin expired)
      BY <1>9, <2>2 DEF Validate, Goto
    <3> USE DEF Goto, Finish
    <3>1. Placed'
      BY <2>2, <3>0 DEF Placed, Phases
    <3>2. Apart'
      BY <2>2, <3>0 DEF Apart
    <3>3. TooLate'
      BY <2>2, <3>0 DEF TooLate
    <3>4. Pushed'
      BY <2>2, <3>0 DEF Pushed
    <3>5. StillPushed'
      BY <2>2, <3>0 DEF StillPushed
    <3>6. StillToRevoke'
      BY <2>2, <3>0 DEF Placed, StillToRevoke
    <3>7. RevokedForGood'
      BY <2>2, <3>0 DEF RevokedForGood
    <3>8. Sourced'
      BY <2>2, <3>0 DEF Sourced
    <3>9. LiveInCall'
      BY <2>2, <3>0 DEF LiveInCall, BothLive, BodyDeleted
    <3>10. OneLive'
      BY <2>2, <3>0 DEF OneLive, Rotating
    <3>11. Written'
      BY <2>2, <3>0 DEF Written, Works, BodyDeleted, MappingWritten
    <3>12. RecordWorks'
      <4>1. \A s \in Refresh : Rotating(s) => Rotating(s)'
        BY <3>0 DEF Rotating
      <4> QED BY <3>0, <4>1 DEF RecordWorks, Works
    <3> HIDE DEF RotationInv
    <3> QED BY <1>0, <3>1, <3>2, <3>3, <3>4, <3>5, <3>6, <3>7, <3>8, <3>9, <3>10, <3>11,
        <3>12
  <2> QED BY <2>1, <2>2
<1>10. ASSUME NEW p \in Procs, ReadRecord(p)
      PROVE  LoginInv'
  <2>1. CASE record[rt[p]] = NoAccess
    <3>0. /\ pc[p] = "readRecord" /\ Finish(p)
          /\ UNCHANGED <<tokenStore, refreshStore, source, loginType, issued, ended,
                         superseded, revoked, contended, calls>>
      BY <1>10, <2>1 DEF ReadRecord
    <3> USE DEF Goto, Finish, Fresh
    <3>1. Placed'
      BY <2>1, <3>0 DEF Placed
    <3>2. Apart'
      BY <2>1, <3>0 DEF Apart
    <3>3. TooLate'
      BY <2>1, <3>0 DEF TooLate
    <3>4. Pushed'
      BY <2>1, <3>0 DEF Pushed
    <3>5. StillPushed'
      BY <2>1, <3>0 DEF StillPushed
    <3>6. StillToRevoke'
      BY <2>1, <3>0 DEF StillToRevoke
    <3>7. RevokedForGood'
      BY <2>1, <3>0 DEF RevokedForGood
    <3>8. Sourced'
      BY <2>1, <3>0 DEF Sourced
    <3>9. LiveInCall'
      BY <2>1, <3>0 DEF LiveInCall, BothLive, BodyDeleted
    <3>10. OneLive'
      BY <2>1, <3>0 DEF Apart, OneCreator, Phases, Sourced, OneLive, Rotating
    <3>11. Written'
      BY <2>1, <3>0 DEF Written, Works, BodyDeleted, MappingWritten
    <3>12. RecordWorks'
      BY <2>1, <3>0 DEF RecordWorks, Works, Rotating
    <3> HIDE DEF RotationInv
    <3> QED BY <1>0, <3>1, <3>2, <3>3, <3>4, <3>5, <3>6, <3>7, <3>8, <3>9, <3>10, <3>11,
        <3>12
  <2>2. CASE record[rt[p]] # NoAccess
    <3>0. /\ pc[p] = "readRecord" /\ pc' = [pc EXCEPT ![p] = "saveBody"]
          /\ UNCHANGED <<tokenStore, refreshStore, rt, utype, todo, ret, loginType, issued,
                         ended, superseded, revoked, contended, must, late, calls>>
          /\ \E a \in Access :
               /\ source[a] = NoRefresh /\ old' = [old EXCEPT ![p] = record[rt[p]]]
               /\ new' = [new EXCEPT ![p] = a] /\ source' = [source EXCEPT ![a] = rt[p]]
      BY <1>10, <2>2 DEF ReadRecord, Fresh, Goto
    <3> USE DEF Goto, Finish, Fresh
    <3>1. Placed'
      BY <2>2, <3>0 DEF Placed
    <3>2. Apart'
      BY <2>2, <3>0 DEF Apart
    <3>3. TooLate'
      BY <2>2, <3>0 DEF TooLate
    <3>4. Pushed'
      BY <2>2, <3>0 DEF Apart, Pushed, StillPushed, Phases
    <3>5. StillPushed'
      BY <2>2, <3>0 DEF StillPushed
    <3>6. StillToRevoke'
      BY <2>2, <3>0 DEF StillToRevoke
    <3>7. RevokedForGood'
      BY <2>2, <3>0 DEF RevokedForGood
    <3>8. Sourced'
      BY <2>2, <3>0 DEF Sourced
    <3>9. LiveInCall'
      BY <2>2, <3>0 DEF Apart, Phases, Sourced, LiveInCall, OneLive, Rotating, BothLive,
         BodyDeleted
    <3>10. OneLive'
      BY <2>2, <3>0 DEF OneLive, Rotating
    <3>11. Written'
      BY <2>2, <3>0 DEF Written, Works, BodyDeleted, MappingWritten
    <3>12. RecordWorks'
      BY <2>2, <3>0 DEF RecordWorks, Works, Rotating
    <3> HIDE DEF RotationInv
    <3> QED BY <1>0, <3>1, <3>2, <3>3, <3>4, <3>5, <3>6, <3>7, <3>8, <3>9, <3>10, <3>11,
        <3>12
  <2> QED BY <2>1, <2>2
<1>11. ASSUME NEW p \in Procs, SaveBody(p)
      PROVE  LoginInv'
  <2> USE DEF SaveBody, Goto
  <2>1. Placed'
    BY <1>11 DEF Placed
  <2>2. Apart'
    BY <1>11 DEF Apart
  <2>3. TooLate'
    BY <1>11 DEF TooLate
  <2>4. Pushed'
    BY <1>11 DEF Pushed
  <2>5. StillPushed'
    BY <1>11 DEF StillPushed
  <2>6. StillToRevoke'
    BY <1>11 DEF StillToRevoke
  <2>7. RevokedForGood'
    BY <1>11 DEF RevokedForGood
  <2>8. Sourced'
    BY <1>11 DEF OneCreator, Holding, Sourced
  <2>9. LiveInCall'
    BY <1>11 DEF Apart, OneCreator, Holding, LiveInCall, BodyDeleted
  <2>10. OneLive'
    BY <1>11 DEF OneCreator, OneLive, Rotating
  <2>11. Written'
    BY <1>11 DEF Written, Works, BodyDeleted, MappingWritten
  <2>12. RecordWorks'
    BY <1>11 DEF RecordWorks, Works, Rotating
  <2> HIDE DEF RotationInv
  <2> QED BY <1>0, <2>1, <2>2, <2>3, <2>4, <2>5, <2>6, <2>7, <2>8, <2>9, <2>10, <2>11,
      <2>12
<1>12. ASSUME NEW p \in Procs, SaveTokenId(p)
      PROVE  LoginInv'
  <2> USE DEF SaveTokenId, Goto
  <2>1. Placed'
    BY <1>12 DEF Placed
  <2>2. Apart'
    BY <1>12 DEF Apart
  <2>3. TooLate'
    BY <1>12 DEF TooLate
  <2>4. Pushed'
    BY <1>12 DEF Pushed
  <2>5. StillPushed'
    BY <1>12 DEF StillPushed
  <2>6. StillToRevoke'
    BY <1>12 DEF StillToRevoke
  <2>7. RevokedForGood'
    BY <1>12 DEF RevokedForGood
  <2>8. Sourced'
    BY <1>12 DEF Sourced
  <2>9. LiveInCall'
    BY <1>12 DEF LiveInCall, BothLive, BodyDeleted
  <2>10. OneLive'
    BY <1>12 DEF OneLive, Rotating
  <2>11. Written'
    BY <1>12 DEF Written, Works, BodyDeleted
  <2>12. RecordWorks'
    BY <1>12 DEF RecordWorks, Works, Rotating
  <2> HIDE DEF RotationInv
  <2> QED BY <1>0, <2>1, <2>2, <2>3, <2>4, <2>5, <2>6, <2>7, <2>8, <2>9, <2>10, <2>11,
      <2>12
<1>13. ASSUME NEW p \in Procs, SaveMapping(p)
      PROVE  LoginInv'
  <2> USE DEF SaveMapping, Goto
  <2>1. Placed'
    BY <1>13 DEF Placed
  <2>2. Apart'
    BY <1>13 DEF Apart
  <2>3. TooLate'
    BY <1>13 DEF TooLate
  <2>4. Pushed'
    BY <1>13 DEF Pushed
  <2>5. StillPushed'
    BY <1>13 DEF StillPushed
  <2>6. StillToRevoke'
    BY <1>13 DEF StillToRevoke
  <2>7. RevokedForGood'
    BY <1>13 DEF RevokedForGood
  <2>8. Sourced'
    BY <1>13 DEF Sourced
  <2>9. LiveInCall'
    BY <1>13 DEF LiveInCall, BothLive, BodyDeleted
  <2>10. OneLive'
    BY <1>13 DEF OneLive, Rotating
  <2>11. Written'
    BY <1>13 DEF Written, Works, BodyDeleted
  <2>12. RecordWorks'
    BY <1>13 DEF RecordWorks, Works, Rotating
  <2> HIDE DEF RotationInv
  <2> QED BY <1>0, <2>1, <2>2, <2>3, <2>4, <2>5, <2>6, <2>7, <2>8, <2>9, <2>10, <2>11,
      <2>12
<1>14. ASSUME NEW p \in Procs, RemoveIndex(p)
      PROVE  LoginInv'
  <2> USE DEF RemoveIndex, Goto
  <2>1. Placed'
    BY <1>14 DEF Placed
  <2>2. Apart'
    BY <1>14 DEF Apart
  <2>3. TooLate'
    BY <1>14 DEF TooLate
  <2>4. Pushed'
    BY <1>14 DEF Pushed
  <2>5. StillPushed'
    BY <1>14 DEF StillPushed
  <2>6. StillToRevoke'
    BY <1>14 DEF StillToRevoke
  <2>7. RevokedForGood'
    BY <1>14 DEF RevokedForGood
  <2>8. Sourced'
    BY <1>14 DEF Sourced
  <2>9. LiveInCall'
    BY <1>14 DEF LiveInCall, BothLive, BodyDeleted
  <2>10. OneLive'
    BY <1>14 DEF OneLive, Rotating
  <2>11. Written'
    BY <1>14 DEF OneCreator, Phases, ReadOnlyFinished, Written, Works, BodyDeleted,
       MappingWritten
  <2>12. RecordWorks'
    BY <1>14 DEF Phases, ReadOnlyFinished, RecordWorks, Works, Rotating
  <2> HIDE DEF RotationInv
  <2> QED BY <1>0, <2>1, <2>2, <2>3, <2>4, <2>5, <2>6, <2>7, <2>8, <2>9, <2>10, <2>11,
      <2>12
<1>15. ASSUME NEW p \in Procs, AppendIndex(p)
      PROVE  LoginInv'
  <2> USE DEF AppendIndex, Goto
  <2>1. Placed'
    BY <1>15 DEF Placed
  <2>2. Apart'
    BY <1>15 DEF Apart
  <2>3. TooLate'
    BY <1>15 DEF TooLate
  <2>4. Pushed'
    BY <1>15 DEF Pushed
  <2>5. StillPushed'
    BY <1>15 DEF StillPushed
  <2>6. StillToRevoke'
    BY <1>15 DEF StillToRevoke
  <2>7. RevokedForGood'
    BY <1>15 DEF RevokedForGood
  <2>8. Sourced'
    BY <1>15 DEF Sourced
  <2>9. LiveInCall'
    BY <1>15 DEF LiveInCall, BothLive, BodyDeleted
  <2>10. OneLive'
    BY <1>15 DEF OneLive, Rotating
  <2>11. Written'
    BY <1>15 DEF Written, Works, MappingWritten
  <2>12. RecordWorks'
    BY <1>15 DEF RecordWorks, Works, Rotating
  <2> HIDE DEF RotationInv
  <2> QED BY <1>0, <2>1, <2>2, <2>3, <2>4, <2>5, <2>6, <2>7, <2>8, <2>9, <2>10, <2>11,
      <2>12
<1>16. ASSUME NEW p \in Procs, DeleteBody(p)
      PROVE  LoginInv'
  <2> USE DEF DeleteBody, Goto
  <2>1. Placed'
    BY <1>16 DEF Placed
  <2>2. Apart'
    BY <1>16 DEF Apart
  <2>3. TooLate'
    BY <1>16 DEF TooLate
  <2>4. Pushed'
    BY <1>16 DEF Pushed
  <2>5. StillPushed'
    BY <1>16 DEF StillPushed
  <2>6. StillToRevoke'
    BY <1>16 DEF StillToRevoke
  <2>7. RevokedForGood'
    BY <1>16 DEF RevokedForGood
  <2>8. Sourced'
    BY <1>16 DEF Sourced
  <2>9. LiveInCall'
    BY <1>16 DEF LiveInCall, BothLive
  <2>10. OneLive'
    BY <1>16 DEF OneLive, Rotating
  <2>11. Written'
    BY <1>16 DEF OneCreator, Phases, ReadOnlyFinished, Written, Works, MappingWritten
  <2>12. RecordWorks'
    BY <1>16 DEF Phases, ReadOnlyFinished, RecordWorks, Works, Rotating
  <2> HIDE DEF RotationInv
  <2> QED BY <1>0, <2>1, <2>2, <2>3, <2>4, <2>5, <2>6, <2>7, <2>8, <2>9, <2>10, <2>11,
      <2>12
<1>17. ASSUME NEW p \in Procs, DeleteTokenId(p)
      PROVE  LoginInv'
  <2> USE DEF DeleteTokenId, Goto
  <2>1. Placed'
    BY <1>17 DEF Placed
  <2>2. Apart'
    BY <1>17 DEF Apart
  <2>3. TooLate'
    BY <1>17 DEF TooLate
  <2>4. Pushed'
    BY <1>17 DEF Pushed
  <2>5. StillPushed'
    BY <1>17 DEF StillPushed
  <2>6. StillToRevoke'
    BY <1>17 DEF StillToRevoke
  <2>7. RevokedForGood'
    BY <1>17 DEF RevokedForGood
  <2>8. Sourced'
    BY <1>17 DEF Sourced
  <2>9. LiveInCall'
    BY <1>17 DEF LiveInCall, BodyDeleted
  <2>10. OneLive'
    BY <1>17 DEF OneLive, Rotating
  <2>11. Written'
    BY <1>17 DEF OneCreator, Phases, ReadOnlyFinished, Written, Works, BodyDeleted,
       MappingWritten
  <2>12. RecordWorks'
    BY <1>17 DEF Phases, ReadOnlyFinished, RecordWorks, Works, Rotating
  <2> HIDE DEF RotationInv
  <2> QED BY <1>0, <2>1, <2>2, <2>3, <2>4, <2>5, <2>6, <2>7, <2>8, <2>9, <2>10, <2>11,
      <2>12
<1>18. ASSUME NEW p \in Procs, SaveRecord(p)
      PROVE  LoginInv'
  <2> USE DEF SaveRecord, Goto, Finish
  <2>1. Placed'
    BY <1>18 DEF Placed
  <2>2. Apart'
    BY <1>18 DEF Apart
  <2>3. TooLate'
    BY <1>18 DEF TooLate
  <2>4. Pushed'
    BY <1>18 DEF Pushed
  <2>5. StillPushed'
    BY <1>18 DEF Pushed, StillPushed
  <2>6. StillToRevoke'
    BY <1>18 DEF Apart, StillToRevoke
  <2>7. RevokedForGood'
    BY <1>18 DEF RevokedForGood
  <2>8. Sourced'
    BY <1>18 DEF Phases, Sourced
  <2>9. LiveInCall'
    BY <1>18 DEF LiveInCall, BothLive, BodyDeleted
  <2>10. OneLive'
    <3>1. rt[p] \in Refresh /\ record' = [record EXCEPT ![rt[p]] = new[p]]
      BY <1>18 DEF Holding
    <3>2. \A s \in Refresh : s # rt[p] /\ Rotating(s) => Rotating(s)'
      BY <1>18 DEF Rotating
    <3>3. UNCHANGED <<body, source, issued, contended>>
      BY <1>18
    <3>4. \A b \in body : source[b] = rt[p] /\ rt[p] \notin contended => b = new[p]
      BY <1>18 DEF LiveInCall, BodyDeleted
    <3>5. \A b \in body : source[b] \in Refresh
      BY DEF Sourced
    <3>6. ASSUME NEW b \in body, source[b] \in issued \ contended, ~Rotating(source[b])'
          PROVE  /\ record'[source[b]] \in {b, NoAccess}
                 /\ \A c \in body : source[c] = source[b] => b = c
      <4>1. CASE source[b] = rt[p]
        BY <3>1, <3>4, <3>6, <4>1
      <4>2. CASE source[b] # rt[p]
        <5>1. record'[source[b]] = record[source[b]] /\ ~Rotating(source[b])
          BY <3>1, <3>2, <3>3, <3>5, <3>6, <4>2
        <5> QED BY <3>6, <5>1 DEF OneLive
      <4> QED BY <4>1, <4>2
    <3> QED BY <3>3, <3>6 DEF OneLive
  <2>11. Written'
    BY <1>18 DEF Written, Works, BodyDeleted, MappingWritten
  <2>12. RecordWorks'
    BY <1>18 DEF Written, RecordWorks, Works, Rotating, BodyDeleted, MappingWritten
  <2> HIDE DEF RotationInv
  <2> QED BY <1>0, <2>1, <2>2, <2>3, <2>4, <2>5, <2>6, <2>7, <2>8, <2>9, <2>10, <2>11,
      <2>12
<1>19. ASSUME NEW p \in Procs, ReadForDelete(p)
      PROVE  LoginInv'
  <2> USE DEF ReadForDelete, Goto
  <2>1. Placed'
    BY <1>19 DEF Placed
  <2>2. Apart'
    BY <1>19 DEF Apart
  <2>3. TooLate'
    BY <1>19 DEF TooLate
  <2>4. Pushed'
    BY <1>19 DEF Pushed
  <2>5. StillPushed'
    BY <1>19 DEF StillPushed
  <2>6. StillToRevoke'
    BY <1>19 DEF StillToRevoke
  <2>7. RevokedForGood'
    BY <1>19 DEF RevokedForGood
  <2>8. Sourced'
    BY <1>19 DEF Sourced
  <2>9. LiveInCall'
    BY <1>19 DEF LiveInCall, BothLive, BodyDeleted
  <2>10. OneLive'
    BY <1>19 DEF OneCreator, OneLive, Rotating
  <2>11. Written'
    BY <1>19 DEF Written, Works, BodyDeleted, MappingWritten
  <2>12. RecordWorks'
    BY <1>19 DEF RecordWorks, Works, Rotating
  <2> HIDE DEF RotationInv
  <2> QED BY <1>0, <2>1, <2>2, <2>3, <2>4, <2>5, <2>6, <2>7, <2>8, <2>9, <2>10, <2>11,
      <2>12
<1>20. ASSUME NEW p \in Procs, Unlist(p)
      PROVE  LoginInv'
  <2> USE DEF Unlist, Goto
  <2>1. Placed'
    BY <1>20 DEF Placed
  <2>2. Apart'
    BY <1>20 DEF Apart
  <2>3. TooLate'
    BY <1>20 DEF TooLate
  <2>4. Pushed'
    <3>1. /\ rt[p] \in Refresh /\ rt' = rt /\ pc' = [pc EXCEPT ![p] = "deleteRecord"]
          /\ UNCHANGED <<utype, loginType, contended>>
          /\ \A s \in Refresh \ {rt[p]} : \A t \in LoginTypes :
               s \in userIndex[t] => s \in userIndex'[t]
      BY <1>20 DEF Holding
    <3>2. \A q \in Procs : rt[q] \in Refresh => loginType[rt[q]] \in LoginTypes
      OBVIOUS
    <3>3. \A q \in Procs \ {p} : pc[q] \in RotateLabels \cup {"commit"} =>
            rt[q] \in Refresh /\ (rt[q] = rt[p] => rt[q] \in contended)
      BY <3>1 DEF Apart, Holding
    <3> QED BY <3>1, <3>2, <3>3 DEF Pushed
  <2>5. StillPushed'
    BY <1>20 DEF Placed, StillPushed
  <2>6. StillToRevoke'
    BY <1>20 DEF StillToRevoke
  <2>7. RevokedForGood'
    BY <1>20 DEF RevokedForGood
  <2>8. Sourced'
    BY <1>20 DEF Sourced
  <2>9. LiveInCall'
    BY <1>20 DEF LiveInCall, BothLive, BodyDeleted
  <2>10. OneLive'
    BY <1>20 DEF OneLive, Rotating
  <2>11. Written'
    BY <1>20 DEF Written, Works, BodyDeleted, MappingWritten
  <2>12. RecordWorks'
    BY <1>20 DEF RecordWorks, Works, Rotating
  <2> HIDE DEF RotationInv
  <2> QED BY <1>0, <2>1, <2>2, <2>3, <2>4, <2>5, <2>6, <2>7, <2>8, <2>9, <2>10, <2>11,
      <2>12
<1>21. ASSUME NEW p \in Procs, DeleteRecord(p)
      PROVE  LoginInv'
  <2>1. CASE ret[p] = "idle"
    <3>0. /\ pc[p] = "deleteRecord" /\ Finish(p)
          /\ record' = [record EXCEPT ![rt[p]] = NoAccess]
          /\ revoked' = revoked \cup {rt[p]}
          /\ UNCHANGED <<tokenStore, userIndex, expired, source, loginType, issued,
                         ended, superseded, contended, calls>>
      BY <1>21, <2>1 DEF DeleteRecord
    <3> USE DEF Goto, Finish
    <3>1. Placed'
      BY <2>1, <3>0 DEF Placed
    <3>2. Apart'
      BY <2>1, <3>0 DEF Apart
    <3>3. TooLate'
      BY <2>1, <3>0 DEF TooLate
    <3>4. Pushed'
      BY <2>1, <3>0 DEF Pushed
    <3>5. StillPushed'
      BY <2>1, <3>0 DEF StillPushed
    <3>6. StillToRevoke'
      BY <2>1, <3>0 DEF StillToRevoke
    <3>7. RevokedForGood'
      BY <2>1, <3>0 DEF Placed, Apart, RevokedForGood
    <3>8. Sourced'
      BY <2>1, <3>0 DEF Sourced
    <3>9. LiveInCall'
      BY <2>1, <3>0 DEF LiveInCall, BothLive, BodyDeleted
    <3>10. OneLive'
      <4>1. \A s \in Refresh : Rotating(s) => Rotating(s)'
        BY <3>0 DEF Rotating
      <4>2. \A s \in Refresh : record'[s] \in {record[s], NoAccess}
        BY <3>0
      <4>3. UNCHANGED <<body, source, issued, contended>>
        BY <3>0
      <4> QED BY <4>1, <4>2, <4>3 DEF OneLive
    <3>11. Written'
      BY <2>1, <3>0 DEF Written, Works, BodyDeleted, MappingWritten
    <3>12. RecordWorks'
      BY <2>1, <3>0 DEF RecordWorks, Works, Rotating
    <3> HIDE DEF RotationInv
    <3> QED BY <1>0, <3>1, <3>2, <3>3, <3>4, <3>5, <3>6, <3>7, <3>8, <3>9, <3>10, <3>11,
        <3>12
  <2>2. CASE ret[p] = "revokeNext"
    <3>0. /\ pc[p] = "deleteRecord" /\ pc' = [pc EXCEPT ![p] = "revokeNext"]
          /\ record' = [record EXCEPT ![rt[p]] = NoAccess]
          /\ rt' = [rt EXCEPT ![p] = NoRefresh]
          /\ UNCHANGED <<tokenStore, userIndex, expired, old, new, utype, todo, ret,
                         history>>
      BY <1>21, <2>2 DEF DeleteRecord, Goto
    <3> USE DEF Goto, Finish
    <3>1. Placed'
      BY <2>2, <3>0 DEF Placed
    <3>2. Apart'
      BY <2>2, <3>0 DEF Apart
    <3>3. TooLate'
      BY <2>2, <3>0 DEF Placed, TooLate
    <3>4. Pushed'
      BY <2>2, <3>0 DEF Pushed
    <3>5. StillPushed'
      BY <2>2, <3>0 DEF StillPushed
    <3>6. StillToRevoke'
      BY <2>2, <3>0 DEF StillToRevoke
    <3>7. RevokedForGood'
      BY <2>2, <3>0 DEF RevokedForGood
    <3>8. Sourced'
      BY <2>2, <3>0 DEF Sourced
    <3>9. LiveInCall'
      BY <2>2, <3>0 DEF LiveInCall, BothLive, BodyDeleted
    <3>10. OneLive'
      BY <2>2, <3>0 DEF Apart, OneCreator, Sourced, LiveInCall, OneLive, Rotating
    <3>11. Written'
      BY <2>2, <3>0 DEF Written, Works, BodyDeleted, MappingWritten
    <3>12. RecordWorks'
      BY <2>2, <3>0 DEF RecordWorks, Works, Rotating
    <3> HIDE DEF RotationInv
    <3> QED BY <1>0, <3>1, <3>2, <3>3, <3>4, <3>5, <3>6, <3>7, <3>8, <3>9, <3>10, <3>11,
        <3>12
  <2> QED BY <2>1, <2>2
<1>22. ASSUME NEW p \in Procs, ListUser(p)
      PROVE  LoginInv'
  <2> USE DEF ListUser, Goto
  <2>1. Placed'
    BY <1>22 DEF Placed
  <2>2. Apart'
    BY <1>22 DEF Apart
  <2>3. TooLate'
    BY <1>22 DEF TooLate
  <2>4. Pushed'
    BY <1>22 DEF Pushed
  <2>5. StillPushed'
    BY <1>22 DEF StillPushed
  <2>6. StillToRevoke'
    BY <1>22 DEF Placed, Apart, StillPushed, StillToRevoke
  <2>7. RevokedForGood'
    BY <1>22 DEF RevokedForGood
  <2>8. Sourced'
    BY <1>22 DEF Sourced
  <2>9. LiveInCall'
    BY <1>22 DEF LiveInCall, BothLive, BodyDeleted
  <2>10. OneLive'
    BY <1>22 DEF LiveInCall, OneLive, Rotating
  <2>11. Written'
    BY <1>22 DEF Written, Works, BodyDeleted, MappingWritten
  <2>12. RecordWorks'
    BY <1>22 DEF RecordWorks, Works, Rotating
  <2> HIDE DEF RotationInv
  <2> QED BY <1>0, <2>1, <2>2, <2>3, <2>4, <2>5, <2>6, <2>7, <2>8, <2>9, <2>10, <2>11,
      <2>12
<1>23. ASSUME NEW p \in Procs, NEW r \in Refresh, RevokeOne(p, r)
      PROVE  LoginInv'
  <2> USE DEF RevokeOne, Goto
  <2>1. Placed'
    BY <1>23 DEF Placed
  <2>2. Apart'
    BY <1>23 DEF Placed, Apart
  <2>3. TooLate'
    BY <1>23 DEF Placed, TooLate
  <2>4. Pushed'
    BY <1>23 DEF Pushed
  <2>5. StillPushed'
    BY <1>23 DEF StillPushed
  <2>6. StillToRevoke'
    BY <1>23 DEF StillToRevoke
  <2>7. RevokedForGood'
    BY <1>23 DEF RevokedForGood
  <2>8. Sourced'
    BY <1>23 DEF Sourced
  <2>9. LiveInCall'
    BY <1>23 DEF LiveInCall, BothLive, BodyDeleted
  <2>10. OneLive'
    BY <1>23 DEF Placed, Apart, OneLive, Rotating
  <2>11. Written'
    BY <1>23 DEF Written, Works, BodyDeleted, MappingWritten
  <2>12. RecordWorks'
    BY <1>23 DEF RecordWorks, Works, Rotating
  <2> HIDE DEF RotationInv
  <2> QED BY <1>0, <2>1, <2>2, <2>3, <2>4, <2>5, <2>6, <2>7, <2>8, <2>9, <2>10, <2>11,
      <2>12
<1>24. ASSUME NEW p \in Procs, RevokeDone(p)
      PROVE  LoginInv'
  <2> USE DEF RevokeDone, Goto
  <2>1. Placed'
    BY <1>24 DEF Placed
  <2>2. Apart'
    BY <1>24 DEF Apart
  <2>3. TooLate'
    BY <1>24 DEF TooLate
  <2>4. Pushed'
    BY <1>24 DEF Pushed
  <2>5. StillPushed'
    BY <1>24 DEF StillPushed
  <2>6. StillToRevoke'
    BY <1>24 DEF StillToRevoke
  <2>7. RevokedForGood'
    BY <1>24 DEF RevokedForGood
  <2>8. Sourced'
    BY <1>24 DEF Sourced
  <2>9. LiveInCall'
    BY <1>24 DEF LiveInCall, BothLive, BodyDeleted
  <2>10. OneLive'
    BY <1>24 DEF Holding, LiveInCall, OneLive, Rotating
  <2>11. Written'
    BY <1>24 DEF Written, Works, BodyDeleted, MappingWritten
  <2>12. RecordWorks'
    BY <1>24 DEF RecordWorks, Works, Rotating
  <2> HIDE DEF RotationInv
  <2> QED BY <1>0, <2>1, <2>2, <2>3, <2>4, <2>5, <2>6, <2>7, <2>8, <2>9, <2>10, <2>11,
      <2>12
<1>25. ASSUME NEW p \in Procs, DropUserIndex(p)
      PROVE  LoginInv'
  <2> USE DEF DropUserIndex, Goto, Finish
  <2>1. Placed'
    BY <1>25 DEF Placed
  <2>2. Apart'
    BY <1>25 DEF Apart
  <2>3. TooLate'
    BY <1>25 DEF TooLate
  <2>4. Pushed'
    <3>1. CASE userIndex' = [userIndex EXCEPT ![utype[p]] = {}]
      BY <1>25, <3>1 DEF Placed, Apart, Pushed
    <3>2. CASE UNCHANGED userIndex
      BY <1>25, <3>2 DEF Placed, Apart, Pushed
    <3> QED BY <1>25, <3>1, <3>2
  <2>5. StillPushed'
    BY <1>25 DEF Placed, StillPushed, StillToRevoke
  <2>6. StillToRevoke'
    BY <1>25 DEF StillToRevoke
  <2>7. RevokedForGood'
    BY <1>25 DEF Placed, Apart, StillToRevoke, RevokedForGood
  <2>8. Sourced'
    BY <1>25 DEF Sourced
  <2>9. LiveInCall'
    BY <1>25 DEF LiveInCall, BothLive, BodyDeleted
  <2>10. OneLive'
    BY <1>25 DEF Placed, OneLive, Rotating
  <2>11. Written'
    BY <1>25 DEF Written, Works, BodyDeleted, MappingWritten
  <2>12. RecordWorks'
    BY <1>25 DEF RecordWorks, Works, Rotating
  <2> HIDE DEF RotationInv
  <2> QED BY <1>0, <2>1, <2>2, <2>3, <2>4, <2>5, <2>6, <2>7, <2>8, <2>9, <2>10, <2>11,
      <2>12
<1>26. ASSUME NEW p \in Procs, Abort(p)
      PROVE  LoginInv'
  <2> USE DEF Abort, Goto, Finish
  <2>1. Placed'
    BY <1>26 DEF Placed
  <2>2. Apart'
    BY <1>26 DEF Apart
  <2>3. TooLate'
    BY <1>26 DEF TooLate
  <2>4. Pushed'
    BY <1>26 DEF Pushed
  <2>5. StillPushed'
    BY <1>26 DEF StillPushed
  <2>6. StillToRevoke'
    BY <1>26 DEF StillToRevoke
  <2>7. RevokedForGood'
    BY <1>26 DEF RevokedForGood
  <2>8. Sourced'
    BY <1>26 DEF Sourced
  <2>9. LiveInCall'
    BY <1>26 DEF LiveInCall, BothLive, BodyDeleted
  <2>10. OneLive'
    BY <1>26 DEF OneLive, Rotating
  <2>11. Written'
    BY <1>26 DEF Written, Works, BodyDeleted, MappingWritten
  <2>12. RecordWorks'
    BY <1>26 DEF RecordWorks, Works, Rotating
  <2> HIDE DEF RotationInv
  <2> QED BY <1>0, <2>1, <2>2, <2>3, <2>4, <2>5, <2>6, <2>7, <2>8, <2>9, <2>10, <2>11,
      <2>12
<1>27. ASSUME NEW a \in Access, NEW m \in {"Logout", "KickOut"}, Logout(a, m)
      PROVE  LoginInv'
  <2> USE DEF Logout, Identity
  <2>1. Placed'
    BY <1>27 DEF Placed
  <2>2. Apart'
    BY <1>27 DEF Apart
  <2>3. TooLate'
    BY <1>27 DEF TooLate
  <2>4. Pushed'
    BY <1>27 DEF Pushed
  <2>5. StillPushed'
    BY <1>27 DEF StillPushed
  <2>6. StillToRevoke'
    BY <1>27 DEF StillToRevoke
  <2>7. RevokedForGood'
    BY <1>27 DEF RevokedForGood
  <2>8. Sourced'
    BY <1>27 DEF Sourced
  <2>9. LiveInCall'
    BY <1>27 DEF LiveInCall
  <2>10. OneLive'
    BY <1>27 DEF OneLive, Rotating
  <2>11. Written'
    BY <1>27 DEF Written, Works
  <2>12. RecordWorks'
    BY <1>27 DEF RecordWorks, Works, Rotating
  <2> HIDE DEF RotationInv
  <2> QED BY <1>0, <2>1, <2>2, <2>3, <2>4, <2>5, <2>6, <2>7, <2>8, <2>9, <2>10, <2>11,
      <2>12
<1>28. ASSUME NEW r \in Refresh, Expire(r)
      PROVE  LoginInv'
  <2> USE DEF Expire
  <2>1. Placed'
    BY <1>28 DEF Placed
  <2>2. Apart'
    BY <1>28 DEF Apart
  <2>3. TooLate'
    BY <1>28 DEF TooLate
  <2>4. Pushed'
    BY <1>28 DEF Pushed
  <2>5. StillPushed'
    BY <1>28 DEF StillPushed
  <2>6. StillToRevoke'
    BY <1>28 DEF StillToRevoke
  <2>7. RevokedForGood'
    BY <1>28 DEF RevokedForGood
  <2>8. Sourced'
    BY <1>28 DEF Sourced
  <2>9. LiveInCall'
    BY <1>28 DEF LiveInCall
  <2>10. OneLive'
    BY <1>28 DEF OneLive, Rotating
  <2>11. Written'
    BY <1>28 DEF Written, Works
  <2>12. RecordWorks'
    BY <1>28 DEF RecordWorks, Works, Rotating
  <2> HIDE DEF RotationInv
  <2> QED BY <1>0, <2>1, <2>2, <2>3, <2>4, <2>5, <2>6, <2>7, <2>8, <2>9, <2>10, <2>11,
      <2>12
<1>29. ASSUME NEW r \in Refresh, DropRecord(r)
      PROVE  LoginInv'
  <2> USE DEF DropRecord
  <2>1. Placed'
    BY <1>29 DEF Placed
  <2>2. Apart'
    BY <1>29 DEF Apart
  <2>3. TooLate'
    BY <1>29 DEF TooLate
  <2>4. Pushed'
    BY <1>29 DEF Pushed
  <2>5. StillPushed'
    BY <1>29 DEF StillPushed
  <2>6. StillToRevoke'
    BY <1>29 DEF StillToRevoke
  <2>7. RevokedForGood'
    BY <1>29 DEF RevokedForGood
  <2>8. Sourced'
    BY <1>29 DEF Sourced
  <2>9. LiveInCall'
    BY <1>29 DEF LiveInCall
  <2>10. OneLive'
    BY <1>29 DEF OneLive, Rotating
  <2>11. Written'
    BY <1>29 DEF Written, Works
  <2>12. RecordWorks'
    BY <1>29 DEF RecordWorks, Works, Rotating
  <2> HIDE DEF RotationInv
  <2> QED BY <1>0, <2>1, <2>2, <2>3, <2>4, <2>5, <2>6, <2>7, <2>8, <2>9, <2>10, <2>11,
      <2>12
<1>30. CASE UNCHANGED vars
  BY <1>0, <1>30 DEF vars, Placed, Apart, TooLate, Pushed, StillPushed, StillToRevoke,
     RevokedForGood, Sourced, LiveInCall, OneLive, Written, RecordWorks, Works, Rotating
<1> HIDE DEF LoginInv
<1> QED
  BY <1>1, <1>2, <1>3, <1>4, <1>5, <1>6, <1>7, <1>8, <1>9, <1>10, <1>11, <1>12, <1>13,
     <1>14, <1>15, <1>16, <1>17, <1>18, <1>19, <1>20, <1>21, <1>22, <1>23, <1>24, <1>25,
     <1>26, <1>27, <1>28, <1>29, <1>30 DEF Next, Begin, LoginStep, RotateStep, RevokeStep

\* Calls on one refresh token made one after the other leave at most one live
\* access token per login; a deleted or revoked refresh token gets no record
\* again; and a refresh that began after the expiry rotates nothing.
THEOREM LoginsCorrect ==
  Spec => [](OneAccessPerLogin /\ RevokedStaysRevoked /\ NoLateGrant)
<1>1. LoginInv => OneAccessPerLogin
  BY DEF LoginInv, OneLive, OneAccessPerLogin, Settled, Rotating, Busy
<1>2. LoginInv => RevokedStaysRevoked /\ NoLateGrant
  BY DEF LoginInv, RevokedForGood, TooLate, RevokedStaysRevoked, NoLateGrant
<1> QED BY LoginsInitial, LoginsInductive, <1>1, <1>2, PTL DEF Spec

\* Where every login is of the default account type, the access token a record
\* names between calls works: it has its body, its identity and its index entry,
\* unless it was logged out.
THEOREM SynchronisedCorrect ==
  ASSUME LoginTypes = {DefaultType}
  PROVE  Spec => []RefreshSynchronised
<1>1. ASSUME LoginInv PROVE RefreshSynchronised
  <2> SUFFICES ASSUME NEW r \in Refresh, Settled(r), record[r] \notin ended \cup {NoAccess}
               PROVE  /\ record[r] \in body
                      /\ tokenId[record[r]] = loginType[r]
                      /\ record[r] \in index[loginType[r]]
    BY DEF RefreshSynchronised
  <2>1. loginType[r] = DefaultType
    BY <1>1 DEF LoginInv, RotationInv, TypeOK
  <2>2. r \in issued \ contended /\ ~Rotating(r)
    BY DEF Settled, Rotating, Busy
  <2> QED BY <1>1, <2>1, <2>2 DEF LoginInv, RecordWorks, Works
<1> QED BY LoginsInitial, LoginsInductive, <1>1, PTL DEF Spec

=============================================================================
