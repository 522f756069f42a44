---------------------------- MODULE RefreshTokens ----------------------------
(***************************************************************************)
(* RefreshTokenManager: a refresh token's record, the per-user index of     *)
(* refresh tokens, and the rotation of access tokens, for ONE login_id.     *)
(* refresh_access_token, delete and revoke_all_for_user run as tasks, one   *)
(* storage call at a time.  A login's refresh steps are split likewise; its *)
(* other writes, and a whole logout, are single steps here (AuthService     *)
(* models what happens between them).  Access tokens do not expire; logins  *)
(* are concurrent (is_concurrent = true), without sharing.                  *)
(***************************************************************************)
EXTENDS Naturals, FiniteSets

CONSTANTS
  Procs,
  Access,      \* what TokenGenerator may produce, each value once
  Refresh,     \* what RefreshTokenManager::generate may produce, each once
  NoAccess, NoRefresh,
  LoginTypes,  \* account types in use
  DefaultType, \* LOGIN_TYPE_DEFAULT
  MayAbort,    \* whether a call may fail, or be dropped, between two steps
  MaxCalls     \* bound: calls the application makes in all

ASSUME RefreshAssumption ==
  /\ NoAccess \notin Access /\ NoRefresh \notin Refresh
  /\ DefaultType \in LoginTypes /\ {"none", "marked"} \cap LoginTypes = {}
  /\ MayAbort \in BOOLEAN /\ MaxCalls \in Nat

LoginLabels == {"storeRecord", "pushUserIndex", "commit"}
RotateLabels == {"saveBody", "saveTokenId", "saveMapping", "removeIndex",
                 "appendIndex", "deleteBody", "deleteTokenId", "saveRecord"}
DeleteLabels == {"readForDelete", "unlist", "deleteRecord"}
RevokeLabels == {"listUser", "revokeNext", "dropUserIndex"}
Labels == {"idle", "validate", "readRecord"}
            \cup LoginLabels \cup RotateLabels \cup DeleteLabels \cup RevokeLabels

VARIABLES
  \* ---- storage
  body,       \* access tokens whose token:<t> body is stored
  tokenId,    \* token-id:<t>: absent, a logout marker, or the identity's type
  mapping,    \* login:token of each account type
  index,      \* login-token index of each account type
  record,     \* RefreshTokenRecord.access_token, NoAccess when there is none
  userIndex,  \* refresh_user_index of each account type
  expired,    \* refresh tokens whose expire_time has passed
  \* ---- local variables of the tasks
  pc, rt, old, new, utype, todo,
  ret,        \* where delete returns to
  \* ---- history
  source,     \* the refresh token an access token was created for
  loginType,  \* the account type that logged in
  issued,     \* refresh tokens a login has returned
  ended,      \* access tokens logged out or kicked out
  superseded, \* access tokens a completed refresh has replaced
  revoked,    \* refresh tokens a completed delete or revoke_all answered for
  contended,  \* refresh tokens with overlapping or broken-off calls
  must,       \* refresh tokens a revoke_all has to answer for
  late,       \* whether the call began after the token's expire_time
  calls

tokenStore == <<body, tokenId, mapping, index>>
refreshStore == <<record, userIndex, expired>>
locals == <<rt, old, new, utype, todo, ret>>
history == <<source, loginType, issued, ended, superseded, revoked, contended,
             must, late, calls>>
vars == <<tokenStore, refreshStore, pc, locals, history>>

TypeOK ==
  /\ body \subseteq Access
  /\ tokenId \in [Access -> LoginTypes \cup {"none", "marked"}]
  /\ mapping \in [LoginTypes -> Access \cup {NoAccess}]
  /\ index \in [LoginTypes -> SUBSET Access]
  /\ record \in [Refresh -> Access \cup {NoAccess}]
  /\ userIndex \in [LoginTypes -> SUBSET Refresh]
  /\ expired \subseteq Refresh
  /\ pc \in [Procs -> Labels]
  /\ rt \in [Procs -> Refresh \cup {NoRefresh}]
  /\ old \in [Procs -> Access \cup {NoAccess}]
  /\ new \in [Procs -> Access \cup {NoAccess}]
  /\ utype \in [Procs -> LoginTypes]
  /\ todo \in [Procs -> SUBSET Refresh]
  /\ ret \in [Procs -> {"idle", "revokeNext"}]
  /\ source \in [Access -> Refresh \cup {NoRefresh}]
  /\ loginType \in [Refresh -> LoginTypes]
  /\ issued \subseteq Refresh /\ ended \subseteq Access
  /\ superseded \subseteq Access
  /\ revoked \subseteq Refresh /\ contended \subseteq Refresh
  /\ must \in [Procs -> SUBSET Refresh]
  /\ late \in [Procs -> BOOLEAN]
  /\ calls \in Nat

Init ==
  /\ body = {} /\ tokenId = [a \in Access |-> "none"]
  /\ mapping = [t \in LoginTypes |-> NoAccess]
  /\ index = [t \in LoginTypes |-> {}]
  /\ record = [r \in Refresh |-> NoAccess]
  /\ userIndex = [t \in LoginTypes |-> {}]
  /\ expired = {}
  /\ pc = [p \in Procs |-> "idle"]
  /\ rt = [p \in Procs |-> NoRefresh]
  /\ old = [p \in Procs |-> NoAccess] /\ new = [p \in Procs |-> NoAccess]
  /\ utype = [p \in Procs |-> DefaultType]
  /\ todo = [p \in Procs |-> {}] /\ ret = [p \in Procs |-> "idle"]
  /\ source = [a \in Access |-> NoRefresh]
  /\ loginType = [r \in Refresh |-> DefaultType]
  /\ issued = {} /\ ended = {} /\ superseded = {} /\ revoked = {}
  /\ contended = {} /\ must = [p \in Procs |-> {}]
  /\ late = [p \in Procs |-> FALSE] /\ calls = 0

-----------------------------------------------------------------------------
Goto(p, l) == pc' = [pc EXCEPT ![p] = l]

\* The call is over: its local variables go away.
Finish(p) ==
  /\ Goto(p, "idle")
  /\ rt' = [rt EXCEPT ![p] = NoRefresh]
  /\ old' = [old EXCEPT ![p] = NoAccess]
  /\ new' = [new EXCEPT ![p] = NoAccess]
  /\ utype' = [utype EXCEPT ![p] = DefaultType]
  /\ todo' = [todo EXCEPT ![p] = {}]
  /\ ret' = [ret EXCEPT ![p] = "idle"]
  /\ must' = [must EXCEPT ![p] = {}]
  /\ late' = [late EXCEPT ![p] = FALSE]

Fresh == {a \in Access : source[a] = NoRefresh}
Revoking == {q \in Procs : pc[q] # "idle" /\ ret[q] = "revokeNext"}
Busy(r) == \E q \in Procs : rt[q] = r

\* Bookkeeping of a call on refresh token r.
BeginOn(p, r) ==
  /\ pc[p] = "idle" /\ calls < MaxCalls
  /\ calls' = calls + 1
  /\ rt' = [rt EXCEPT ![p] = r]
  /\ late' = [late EXCEPT ![p] = r \in expired]
  /\ contended' = IF Busy(r) \/ Revoking # {} THEN contended \cup {r}
                                               ELSE contended

-----------------------------------------------------------------------------
(***************************************************************************)
(* Login: the staged writes around store_with_extra                        *)
(***************************************************************************)

\* Index, terminal, token-id mapping and body are written before the record.
Login(p, r, a, t) ==
  /\ r \notin issued /\ ~Busy(r) /\ record[r] = NoAccess
  /\ \A b \in Access : source[b] # r
  /\ a \in Fresh
  /\ BeginOn(p, r)
  /\ new' = [new EXCEPT ![p] = a]
  /\ utype' = [utype EXCEPT ![p] = t]
  /\ source' = [source EXCEPT ![a] = r]
  /\ loginType' = [loginType EXCEPT ![r] = t]
  /\ index' = [index EXCEPT ![t] = @ \cup {a}]
  /\ tokenId' = [tokenId EXCEPT ![a] = t]
  /\ body' = body \cup {a}
  /\ Goto(p, "storeRecord")
  /\ UNCHANGED <<mapping, refreshStore, old, todo, ret, issued, ended,
                 superseded, revoked, must>>

StoreRecord(p) ==
  /\ pc[p] = "storeRecord"
  /\ record' = [record EXCEPT ![rt[p]] = new[p]]
  /\ Goto(p, "pushUserIndex")
  /\ UNCHANGED <<tokenStore, userIndex, expired, locals, history>>

PushUserIndex(p) ==
  /\ pc[p] = "pushUserIndex"
  /\ userIndex' = [userIndex EXCEPT ![utype[p]] = @ \cup {rt[p]}]
  /\ Goto(p, "commit")
  /\ UNCHANGED <<tokenStore, record, expired, locals, history>>

\* login:token is written, and the caller gets both tokens.
Commit(p) ==
  /\ pc[p] = "commit"
  /\ mapping' = [mapping EXCEPT ![utype[p]] = new[p]]
  /\ issued' = issued \cup {rt[p]}
  /\ Finish(p)
  /\ UNCHANGED <<body, tokenId, index, refreshStore, source, loginType, ended,
                 superseded, revoked, contended, calls>>

\* A failed write is rolled back.  The record is among the undone writes only
\* once store_with_extra has returned; the user index never is.
LoginFails(p) ==
  /\ MayAbort /\ pc[p] \in LoginLabels
  /\ body' = body \ {new[p]}
  /\ tokenId' = [tokenId EXCEPT ![new[p]] = "none"]
  /\ index' = [index EXCEPT ![utype[p]] = @ \ {new[p]}]
  /\ record' = IF pc[p] = "commit"
               THEN [record EXCEPT ![rt[p]] = NoAccess] ELSE record
  /\ Finish(p)
  /\ UNCHANGED <<mapping, userIndex, expired, source, loginType, issued, ended,
                 superseded, revoked, contended, calls>>

(***************************************************************************)
(* Logout and kick-out by token: a whole logout_internal.  Neither touches  *)
(* the refresh record.  The identity comes from the body, which a refresh   *)
(* writes under LOGIN_TYPE_DEFAULT before it writes the token-id mapping.   *)
(***************************************************************************)
Identity(a) == IF tokenId[a] \in LoginTypes THEN tokenId[a] ELSE DefaultType

Logout(a, m) ==
  /\ a \in body /\ calls < MaxCalls
  /\ calls' = calls + 1
  /\ body' = body \ {a}
  /\ tokenId' = [tokenId EXCEPT ![a] = IF m = "Logout" THEN "none" ELSE "marked"]
  /\ index' = [t \in LoginTypes |->
                 IF t = Identity(a) THEN index[t] \ {a} ELSE index[t]]
  /\ mapping' = [t \in LoginTypes |->
                   IF m = "Logout" /\ t = Identity(a) /\ mapping[t] = a
                   THEN NoAccess ELSE mapping[t]]
  /\ ended' = ended \cup {a}
  /\ UNCHANGED <<refreshStore, pc, locals, source, loginType, issued,
                 superseded, revoked, contended, must, late>>

-----------------------------------------------------------------------------
(***************************************************************************)
(* refresh_access_token                                                    *)
(***************************************************************************)
RefreshAccessToken(p, r) ==
  /\ r \in issued
  /\ BeginOn(p, r)
  /\ Goto(p, "validate")
  /\ UNCHANGED <<tokenStore, refreshStore, old, new, utype, todo, ret, source,
                 loginType, issued, ended, superseded, revoked, must>>

\* Mutant: validate no longer looks at expire_time.
ValidateNoExpiry(p) ==
  /\ pc[p] = "validate"
  /\ IF record[rt[p]] = NoAccess
     THEN Finish(p)
     ELSE Goto(p, "readRecord") /\ UNCHANGED <<locals, must, late>>
  /\ UNCHANGED <<tokenStore, refreshStore, source, loginType, issued, ended,
                 superseded, revoked, contended, calls>>

\* A record past its expire_time is deleted and the refresh refused.
Validate(p) ==
  /\ pc[p] = "validate"
  /\ IF record[rt[p]] = NoAccess
     THEN Finish(p)
     ELSE /\ Goto(p, IF rt[p] \in expired THEN "readForDelete" ELSE "readRecord")
          /\ UNCHANGED <<locals, must, late>>
  /\ UNCHANGED <<tokenStore, refreshStore, source, loginType, issued, ended,
                 superseded, revoked, contended, calls>>

\* The record is read again; the new access token is generated from it.
ReadRecord(p) ==
  /\ pc[p] = "readRecord"
  /\ IF record[rt[p]] = NoAccess
     THEN Finish(p) /\ UNCHANGED source
     ELSE \E a \in Fresh :
            /\ old' = [old EXCEPT ![p] = record[rt[p]]]
            /\ new' = [new EXCEPT ![p] = a]
            /\ source' = [source EXCEPT ![a] = rt[p]]
            /\ Goto(p, "saveBody")
            /\ UNCHANGED <<rt, utype, todo, ret, must, late>>
  /\ UNCHANGED <<tokenStore, refreshStore, loginType, issued, ended,
                 superseded, revoked, contended, calls>>

SaveBody(p) ==
  /\ pc[p] = "saveBody"
  /\ body' = body \cup {new[p]}
  /\ Goto(p, "saveTokenId")
  /\ UNCHANGED <<tokenId, mapping, index, refreshStore, locals, history>>

\* The new token is written under LOGIN_TYPE_DEFAULT, whatever type logged in.
SaveTokenId(p) ==
  /\ pc[p] = "saveTokenId"
  /\ tokenId' = [tokenId EXCEPT ![new[p]] = DefaultType]
  /\ Goto(p, "saveMapping")
  /\ UNCHANGED <<body, mapping, index, refreshStore, locals, history>>

SaveMapping(p) ==
  /\ pc[p] = "saveMapping"
  /\ mapping' = [mapping EXCEPT ![DefaultType] = new[p]]
  /\ Goto(p, "removeIndex")
  /\ UNCHANGED <<body, tokenId, index, refreshStore, locals, history>>

\* replace_index: remove the old token, then append the new one.
RemoveIndex(p) ==
  /\ pc[p] = "removeIndex"
  /\ index' = [index EXCEPT ![DefaultType] = @ \ {old[p]}]
  /\ Goto(p, "appendIndex")
  /\ UNCHANGED <<body, tokenId, mapping, refreshStore, locals, history>>

\* Mutant: replace_index only removes.
AppendIndexSkipped(p) ==
  /\ pc[p] = "appendIndex"
  /\ Goto(p, "deleteBody")
  /\ UNCHANGED <<tokenStore, refreshStore, locals, history>>

AppendIndex(p) ==
  /\ pc[p] = "appendIndex"
  /\ index' = [index EXCEPT ![DefaultType] = @ \cup {new[p]}]
  /\ Goto(p, "deleteBody")
  /\ UNCHANGED <<body, tokenId, mapping, refreshStore, locals, history>>

\* Mutant: the old token's body is left behind.
DeleteBodySkipped(p) ==
  /\ pc[p] = "deleteBody"
  /\ Goto(p, "deleteTokenId")
  /\ UNCHANGED <<tokenStore, refreshStore, locals, history>>

DeleteBody(p) ==
  /\ pc[p] = "deleteBody"
  /\ body' = body \ {old[p]}
  /\ Goto(p, "deleteTokenId")
  /\ UNCHANGED <<tokenId, mapping, index, refreshStore, locals, history>>

DeleteTokenId(p) ==
  /\ pc[p] = "deleteTokenId"
  /\ tokenId' = [tokenId EXCEPT ![old[p]] = "none"]
  /\ Goto(p, "saveRecord")
  /\ UNCHANGED <<body, mapping, index, refreshStore, locals, history>>

\* Mutant: the record keeps naming the token that was just replaced.
SaveRecordStale(p) ==
  /\ pc[p] = "saveRecord"
  /\ superseded' = superseded \cup {old[p]}
  /\ Finish(p)
  /\ UNCHANGED <<tokenStore, refreshStore, source, loginType, issued, ended,
                 revoked, contended, calls>>

\* The record is written back whatever has happened to it since it was read.
SaveRecord(p) ==
  /\ pc[p] = "saveRecord"
  /\ record' = [record EXCEPT ![rt[p]] = new[p]]
  /\ superseded' = superseded \cup {old[p]}
  /\ Finish(p)
  /\ UNCHANGED <<tokenStore, userIndex, expired, source, loginType, issued,
                 ended, revoked, contended, calls>>

-----------------------------------------------------------------------------
(***************************************************************************)
(* delete and revoke_all_for_user                                          *)
(***************************************************************************)
Delete(p, r) ==
  /\ r \in issued
  /\ BeginOn(p, r)
  /\ Goto(p, "readForDelete")
  /\ UNCHANGED <<tokenStore, refreshStore, old, new, utype, todo, ret, source,
                 loginType, issued, ended, superseded, revoked, must>>

ReadForDelete(p) ==
  /\ pc[p] = "readForDelete"
  /\ Goto(p, IF record[rt[p]] = NoAccess THEN "deleteRecord" ELSE "unlist")
  /\ UNCHANGED <<tokenStore, refreshStore, locals, history>>

\* An error of list_remove is ignored.
Unlist(p) ==
  /\ pc[p] = "unlist"
  /\ \/ userIndex' = [userIndex EXCEPT ![DefaultType] = @ \ {rt[p]}]
     \/ MayAbort /\ UNCHANGED userIndex
  /\ Goto(p, "deleteRecord")
  /\ UNCHANGED <<tokenStore, record, expired, locals, history>>

\* Mutant: delete only takes the token off the index.
DeleteRecordSkipped(p) ==
  /\ pc[p] = "deleteRecord"
  /\ IF ret[p] = "idle"
     THEN Finish(p) /\ revoked' = revoked \cup {rt[p]}
     ELSE /\ Goto(p, ret[p])
          /\ rt' = [rt EXCEPT ![p] = NoRefresh]
          /\ UNCHANGED <<old, new, utype, todo, ret, must, late, revoked>>
  /\ UNCHANGED <<tokenStore, refreshStore, source, loginType, issued, ended,
                 superseded, contended, calls>>

DeleteRecord(p) ==
  /\ pc[p] = "deleteRecord"
  /\ record' = [record EXCEPT ![rt[p]] = NoAccess]
  /\ IF ret[p] = "idle"
     THEN Finish(p) /\ revoked' = revoked \cup {rt[p]}
     ELSE /\ Goto(p, ret[p])
          /\ rt' = [rt EXCEPT ![p] = NoRefresh]
          /\ UNCHANGED <<old, new, utype, todo, ret, must, late, revoked>>
  /\ UNCHANGED <<tokenStore, userIndex, expired, source, loginType, issued,
                 ended, superseded, contended, calls>>

RevokeAllForUser(p, t) ==
  /\ pc[p] = "idle" /\ calls < MaxCalls
  /\ calls' = calls + 1
  /\ utype' = [utype EXCEPT ![p] = t]
  /\ ret' = [ret EXCEPT ![p] = "revokeNext"]
  /\ must' = [must EXCEPT ![p] = {r \in issued : loginType[r] = t}]
  /\ contended' = contended \cup {r \in Refresh : Busy(r) \/ Revoking # {}}
  /\ Goto(p, "listUser")
  /\ UNCHANGED <<tokenStore, refreshStore, rt, old, new, todo, source,
                 loginType, issued, ended, superseded, revoked, late>>

ListUser(p) ==
  /\ pc[p] = "listUser"
  /\ todo' = [todo EXCEPT ![p] = userIndex[utype[p]]]
  /\ Goto(p, "revokeNext")
  /\ UNCHANGED <<tokenStore, refreshStore, rt, old, new, utype, ret, history>>

RevokeOne(p, r) ==
  /\ pc[p] = "revokeNext" /\ r \in todo[p]
  /\ rt' = [rt EXCEPT ![p] = r]
  /\ todo' = [todo EXCEPT ![p] = @ \ {r}]
  /\ Goto(p, "readForDelete")
  /\ UNCHANGED <<tokenStore, refreshStore, old, new, utype, ret, history>>

RevokeDone(p) ==
  /\ pc[p] = "revokeNext" /\ todo[p] = {}
  /\ Goto(p, "dropUserIndex")
  /\ UNCHANGED <<tokenStore, refreshStore, locals, history>>

\* The whole index goes, with what was pushed onto it since it was listed; an error
\* of its deletion is ignored.
DropUserIndex(p) ==
  /\ pc[p] = "dropUserIndex"
  /\ \/ userIndex' = [userIndex EXCEPT ![utype[p]] = {}]
     \/ MayAbort /\ UNCHANGED userIndex
  /\ revoked' = revoked \cup must[p]
  /\ Finish(p)
  /\ UNCHANGED <<tokenStore, record, expired, source, loginType, issued, ended,
                 superseded, contended, calls>>

-----------------------------------------------------------------------------
(***************************************************************************)
(* Time and failures                                                       *)
(***************************************************************************)

\* expire_time passes: it is fixed when the record is created.
Expire(r) ==
  /\ r \in issued \ expired
  /\ expired' = expired \cup {r}
  /\ UNCHANGED <<tokenStore, record, userIndex, pc, locals, history>>

\* The storage TTL is renewed by every refresh, so it ends no earlier.
DropRecord(r) ==
  /\ r \in expired /\ record[r] # NoAccess
  /\ record' = [record EXCEPT ![r] = NoAccess]
  /\ UNCHANGED <<tokenStore, userIndex, expired, pc, locals, history>>

\* A storage call returns an error, or the request is dropped, between two steps.
Abort(p) ==
  /\ MayAbort /\ pc[p] # "idle"
  /\ contended' = contended \cup ({rt[p]} \cap Refresh)
  /\ Finish(p)
  /\ UNCHANGED <<tokenStore, refreshStore, source, loginType, issued, ended,
                 superseded, revoked, calls>>

LoginStep(p) == StoreRecord(p) \/ PushUserIndex(p) \/ Commit(p) \/ LoginFails(p)

RotateStep(p) ==
  \/ Validate(p) \/ ReadRecord(p) \/ SaveBody(p) \/ SaveTokenId(p)
  \/ SaveMapping(p) \/ RemoveIndex(p) \/ AppendIndex(p) \/ DeleteBody(p)
  \/ DeleteTokenId(p) \/ SaveRecord(p)

RevokeStep(p) ==
  \/ ReadForDelete(p) \/ Unlist(p) \/ DeleteRecord(p)
  \/ ListUser(p) \/ \E r \in Refresh : RevokeOne(p, r)
  \/ RevokeDone(p) \/ DropUserIndex(p)

Begin(p) ==
  \/ \E r \in Refresh, a \in Access, t \in LoginTypes : Login(p, r, a, t)
  \/ \E r \in Refresh : RefreshAccessToken(p, r) \/ Delete(p, r)
  \/ \E t \in LoginTypes : RevokeAllForUser(p, t)

Next ==
  \/ \E p \in Procs : Begin(p) \/ LoginStep(p) \/ RotateStep(p)
                        \/ RevokeStep(p) \/ Abort(p)
  \/ \E a \in Access, m \in {"Logout", "KickOut"} : Logout(a, m)
  \/ \E r \in Refresh : Expire(r) \/ DropRecord(r)

Spec == Init /\ [][Next]_vars

-----------------------------------------------------------------------------
(***************************************************************************)
(* Properties                                                              *)
(***************************************************************************)
Settled(r) == r \in issued \ contended /\ ~Busy(r)

\* A refresh that returned has ended the access token it replaced: no body, no
\* identity, no index entry, no login:token, also when two refreshes overlap
\* (token_refresh.rs: "old access must be invalid after refresh").
SupersededDead ==
  \A a \in superseded : /\ a \notin body /\ tokenId[a] = "none"
                        /\ a \notin index[DefaultType]
                        /\ mapping[DefaultType] # a

\* Calls on one refresh token made one after the other leave at most one live
\* access token per login.
OneAccessPerLogin ==
  \A r \in Refresh : Settled(r) =>
    \A a, b \in body : source[a] = r /\ source[b] = r => a = b

\* Between calls, the access token a record names is live and listed under the
\* type that logged in, unless it was logged out (refresh.rs: refresh must
\* update body, reverse map, login:token scalar and index).
RefreshSynchronised ==
  \A r \in Refresh : Settled(r) /\ record[r] \notin ended \cup {NoAccess} =>
    /\ record[r] \in body
    /\ tokenId[record[r]] = loginType[r]
    /\ record[r] \in index[loginType[r]]

\* A refresh token a delete or a revoke_all answered for has no record again,
\* unless another call on it overlapped (test: "r1 must be revoked").
RevokedStaysRevoked == \A r \in revoked \ contended : record[r] = NoAccess

\* No refresh that begins after the token's expire_time writes anything, even
\* though every refresh renews the record's TTL.
NoLateGrant == \A p \in Procs : late[p] => pc[p] \notin RotateLabels

-----------------------------------------------------------------------------
(***************************************************************************)
(* The inductive invariant behind SupersededDead: an access token has one   *)
(* creator, who is done with it before a refresh can read it as its old     *)
(* token; and a rotation that is past a write has undone the old token's.   *)
(***************************************************************************)
Creating == LoginLabels \cup RotateLabels
MappingWritten == RotateLabels \ {"saveBody", "saveTokenId", "saveMapping"}
IndexReplaced == MappingWritten \ {"removeIndex"}
BodyDeleted == {"deleteTokenId", "saveRecord"}

\* The calls on one refresh token hold it.
Holding ==
  \A p \in Procs :
    pc[p] \in Creating \cup DeleteLabels \cup {"validate", "readRecord"}
      => rt[p] \in Refresh

OneCreator ==
  \A p \in Procs : pc[p] \in Creating =>
    /\ new[p] \in Access /\ source[new[p]] = rt[p]
    /\ \A q \in Procs : pc[q] \in Creating /\ new[q] = new[p] => p = q

Phases ==
  \A p \in Procs :
    /\ pc[p] \in LoginLabels =>
         /\ rt[p] \notin issued
         /\ \A q \in Procs : pc[q] \in LoginLabels /\ rt[q] = rt[p] => p = q
    /\ pc[p] \in RotateLabels \cup {"validate", "readRecord"} => rt[p] \in issued
    /\ pc[p] \in RotateLabels =>
         old[p] \in Access /\ source[old[p]] = rt[p]

ReadOnlyFinished ==
  /\ \A r \in Refresh : record[r] # NoAccess => source[record[r]] = r
  /\ \A a \in superseded : source[a] \in issued
  /\ \A p \in Procs : pc[p] \in RotateLabels =>
       /\ \A r \in Refresh : record[r] # new[p]
       /\ \A q \in Procs : pc[q] \in RotateLabels => old[q] # new[p]
       /\ new[p] \notin superseded

Unhooked ==
  \A p \in Procs :
    /\ pc[p] \in MappingWritten => mapping[DefaultType] # old[p]
    /\ pc[p] \in IndexReplaced => old[p] \notin index[DefaultType]
    /\ pc[p] \in BodyDeleted => old[p] \notin body
    /\ pc[p] = "saveRecord" => tokenId[old[p]] = "none"

\* Type correctness and the facts above make SupersededDead inductive.
RotationInv ==
  /\ TypeOK /\ Holding /\ OneCreator /\ Phases
  /\ ReadOnlyFinished /\ Unhooked /\ SupersededDead

=============================================================================
