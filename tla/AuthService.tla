----------------------------- MODULE AuthService -----------------------------
(***************************************************************************)
(* The login, logout, kick-out and replace flows of sa-token-core's         *)
(* AuthService, for ONE account (login_type, login_id), run by any number   *)
(* of concurrent tasks.  The storage only makes a single call on a single   *)
(* key atomic, so one action is one storage call together with the local    *)
(* computation around it; everything between two awaits of a task may be    *)
(* interleaved with the other tasks.                                        *)
(*                                                                          *)
(* Left out, because no key of this module depends on them: the nonce, ban, *)
(* token-session, refresh-token, presence and distributed-session steps of  *)
(* a login and of a logout (see LoginParts and Nonces for them).            *)
(* Keys do not expire here (timeout = -1).                                  *)
(***************************************************************************)
EXTENDS Integers, Sequences, FiniteSets, SequencesExt

CONSTANTS
  Procs,     \* the tasks that call the service
  Tokens,    \* what the token generator may produce, each value once
  NoToken,
  Devices,   \* device types a login may name
  NoDevice,
  Configs,   \* the configurations the service may be built with
  Calls,     \* the calls the application makes
  MayFail,   \* labels whose storage call may return an error
  MayCrash   \* whether a task may be dropped between two of its steps

LogoutModes == {"Logout", "KickOut", "Replaced"}

AllCalls == {"login", "logout", "kickOutByToken", "replacedByToken",
             "logoutByLoginId", "kickOut", "renew"}

LoginLabels == {"share", "shareMark", "shareBody", "before", "listTargets",
                "mappingTarget", "replaceNext", "appendIndex", "snapshot",
                "readSession", "saveSession", "saveTokenId", "saveBody",
                "cas", "casAbsent", "rollback"}

LogoutLabels == {"resolveBody", "resolveId", "deleteBody", "mark",
                 "removeIndex", "readTerminals", "saveTerminals",
                 "countTerminals", "deleteSession", "casDelete"}

AccountLabels == {"evictNext", "rangeBody", "rangeId", "listIndex", "probe",
                  "prune", "collect", "scan", "mappingFallback",
                  "accountNext", "dropSession", "enforce"}

RenewLabels == {"renewMark", "renewBody", "renewWrite"}

Labels == LoginLabels \cup LogoutLabels \cup AccountLabels \cup RenewLabels
            \cup {"idle", "return"}

ReturnLabels == {"return", "replaceNext", "evictNext", "accountNext",
                 "enforce", "collect"}

\* The fields of SaTokenConfig these flows read (max_login_count <= 0: no limit).
Config == [isConcurrent : BOOLEAN, isShare : BOOLEAN,
           replacedRange : {"CurrDeviceType", "AllDeviceType"},
           exitMode : {"OldDevice", "NewDevice"},
           maxLoginCount : Int, overflowMode : LogoutModes,
           logoutRange : {"Token", "Account"}]

ASSUME ConstantsAssumption ==
  /\ NoToken \notin Tokens /\ NoDevice \notin Devices
  /\ Configs \subseteq Config
  /\ Calls \subseteq AllCalls
  /\ MayFail \subseteq Labels
  /\ MayCrash \in BOOLEAN

VARIABLES
  config,     \* the configuration, fixed when the service is built
  \* ---- storage, shared by every task
  body,       \* tokens whose token:<t> body is stored
  tokenId,    \* token-id:<t>: absent, the identity, or a marker -5 / -4
  index,      \* the account's login-token index, oldest first
  session,    \* the Account-Session: does it exist, tokens of its terminals
  mapping,    \* login:token, the commit point
  \* ---- local variables of the tasks
  pc,
  tok,        \* the token a login is creating
  before,     \* mapping_before
  snap,       \* the Account-Session snapshot kept by the compensator
  comp,       \* LoginCompensator.steps
  cur, mode, ident, ret,  \* logout_internal: token, mode, identity, caller
  local,      \* terminals read by a read-modify-write of the session
  targets,    \* tokens a replace or account loop has still to log out
  probe, alive, \* prune_index: entries to probe, entries found alive
  evict,      \* tokens enforce_max_login_count has still to evict
  \* ---- history
  used,       \* tokens ever generated
  device,     \* the device type each login named
  committed,  \* tokens whose login passed the commit point
  rolledBack, \* tokens whose login failed and ran its compensation
  must        \* tokens live when the task's account-wide call began

store == <<body, tokenId, index, session, mapping>>
loginVars == <<tok, before, snap, comp>>
logoutVars == <<cur, mode, ident, ret>>
listVars == <<targets, probe, alive, evict>>
history == <<used, device, committed, rolledBack, must>>
vars == <<config, store, pc, loginVars, logoutVars, local, listVars, history>>

SessionType == [exists : BOOLEAN, terminals : SUBSET Tokens]
NoSession == [exists |-> FALSE, terminals |-> {}]
Kinds == {"index", "session", "tokenId", "body"}

TypeOK ==
  /\ config \in Configs
  /\ body \subseteq Tokens
  /\ tokenId \in [Tokens -> {"none", "identity", "KickOut", "Replaced"}]
  /\ index \in Seq(Tokens)
  /\ session \in SessionType
  /\ mapping \in Tokens \cup {NoToken}
  /\ pc \in [Procs -> Labels]
  /\ tok \in [Procs -> Tokens \cup {NoToken}]
  /\ before \in [Procs -> Tokens \cup {NoToken}]
  /\ snap \in [Procs -> SessionType]
  /\ comp \in [Procs -> Seq(Kinds)]
  /\ cur \in [Procs -> Tokens \cup {NoToken}]
  /\ mode \in [Procs -> LogoutModes]
  /\ ident \in [Procs -> BOOLEAN]
  /\ ret \in [Procs -> ReturnLabels]
  /\ local \in [Procs -> SUBSET Tokens]
  /\ targets \in [Procs -> SUBSET Tokens]
  /\ probe \in [Procs -> Seq(Tokens)]
  /\ alive \in [Procs -> Seq(Tokens)]
  /\ evict \in [Procs -> SUBSET Tokens]
  /\ used \subseteq Tokens
  /\ device \in [Tokens -> Devices \cup {NoDevice}]
  /\ committed \subseteq Tokens
  /\ rolledBack \subseteq Tokens
  /\ must \in [Procs -> SUBSET Tokens]

Init ==
  /\ config \in Configs
  /\ body = {} /\ tokenId = [t \in Tokens |-> "none"] /\ index = <<>>
  /\ session = NoSession /\ mapping = NoToken
  /\ pc = [p \in Procs |-> "idle"]
  /\ tok = [p \in Procs |-> NoToken] /\ before = [p \in Procs |-> NoToken]
  /\ snap = [p \in Procs |-> NoSession] /\ comp = [p \in Procs |-> <<>>]
  /\ cur = [p \in Procs |-> NoToken] /\ mode = [p \in Procs |-> "Logout"]
  /\ ident = [p \in Procs |-> FALSE] /\ ret = [p \in Procs |-> "return"]
  /\ local = [p \in Procs |-> {}] /\ targets = [p \in Procs |-> {}]
  /\ probe = [p \in Procs |-> <<>>] /\ alive = [p \in Procs |-> <<>>]
  /\ evict = [p \in Procs |-> {}]
  /\ used = {} /\ device = [t \in Tokens |-> NoDevice]
  /\ committed = {} /\ rolledBack = {}
  /\ must = [p \in Procs |-> {}]

-----------------------------------------------------------------------------
IsConcurrent == config.isConcurrent
IsShare == config.isShare
ReplacedRange == config.replacedRange
ExitMode == config.exitMode
MaxLoginCount == config.maxLoginCount
OverflowMode == config.overflowMode
LogoutRange == config.logoutRange

\* One login for the whole account, or concurrent logins.
Exclusive == ~IsConcurrent /\ ReplacedRange = "AllDeviceType"

\* A token authenticates requests when its body is stored and its token-id is
\* not a marker (load_token_info_no_renew).
Marked(t) == tokenId[t] \in {"KickOut", "Replaced"}
Usable(t) == t \in body /\ ~Marked(t)
Live == {t \in committed : Usable(t)}

Goto(p, l) == pc' = [pc EXCEPT ![p] = l]

\* list_remove: the member disappears from the list, the order stays.
Without(s, t) ==
  IF \E i \in DOMAIN s : s[i] = t
  THEN RemoveAt(s, CHOOSE i \in DOMAIN s : s[i] = t)
  ELSE s

\* list_push_unique
PushUnique(s, t) == IF \E i \in DOMAIN s : s[i] = t THEN s ELSE Append(s, t)

\* The call returns to the application and its locals are gone.
Finish(p) ==
  /\ Goto(p, "idle")
  /\ tok' = [tok EXCEPT ![p] = NoToken]
  /\ before' = [before EXCEPT ![p] = NoToken]
  /\ snap' = [snap EXCEPT ![p] = NoSession]
  /\ comp' = [comp EXCEPT ![p] = <<>>]
  /\ cur' = [cur EXCEPT ![p] = NoToken]
  /\ mode' = [mode EXCEPT ![p] = "Logout"]
  /\ ident' = [ident EXCEPT ![p] = FALSE]
  /\ ret' = [ret EXCEPT ![p] = "return"]
  /\ local' = [local EXCEPT ![p] = {}]
  /\ targets' = [targets EXCEPT ![p] = {}]
  /\ probe' = [probe EXCEPT ![p] = <<>>]
  /\ alive' = [alive EXCEPT ![p] = <<>>]
  /\ evict' = [evict EXCEPT ![p] = {}]
  /\ must' = [must EXCEPT ![p] = {}]

Return(p) ==
  /\ pc[p] = "return"
  /\ Finish(p)
  /\ UNCHANGED <<store, used, device, committed, rolledBack>>

-----------------------------------------------------------------------------
(***************************************************************************)
(* AuthService::login                                                      *)
(***************************************************************************)

\* Mutant: the generator may draw a value it has drawn before.
LoginReusedToken(p, t, d) ==
  /\ pc[p] = "idle" /\ "login" \in Calls /\ t \notin Range(tok)
  /\ tok' = [tok EXCEPT ![p] = t]
  /\ used' = used \cup {t}
  /\ device' = [device EXCEPT ![t] = d]
  /\ Goto(p, IF IsShare THEN "share" ELSE "before")
  /\ UNCHANGED <<store, before, snap, comp, logoutVars, local, listVars,
                 committed, rolledBack, must>>

\* The generator's next value is drawn when the call starts.
Login(p, t, d) ==
  /\ pc[p] = "idle" /\ "login" \in Calls
  /\ t \in Tokens \ used
  /\ tok' = [tok EXCEPT ![p] = t]
  /\ used' = used \cup {t}
  /\ device' = [device EXCEPT ![t] = d]
  /\ Goto(p, IF IsShare THEN "share" ELSE "before")
  /\ UNCHANGED <<store, before, snap, comp, logoutVars, local, listVars,
                 committed, rolledBack, must>>

\* is_share: reuse the mapped token if load_valid_token_info accepts it.
ReadShare(p) ==
  /\ pc[p] = "share"
  /\ cur' = [cur EXCEPT ![p] = mapping]
  /\ Goto(p, IF mapping = NoToken THEN "before" ELSE "shareMark")
  /\ UNCHANGED <<store, loginVars, mode, ident, ret, local, listVars, history>>

CheckShareMark(p) ==
  /\ pc[p] = "shareMark"
  /\ Goto(p, IF Marked(cur[p]) THEN "before" ELSE "shareBody")
  /\ UNCHANGED <<store, loginVars, logoutVars, local, listVars, history>>

CheckShareBody(p) ==
  /\ pc[p] = "shareBody"
  /\ IF cur[p] \in body
     THEN /\ Finish(p)
          /\ used' = used \ {tok[p]}
          /\ device' = [device EXCEPT ![tok[p]] = NoDevice]
     ELSE /\ Goto(p, "before")
          /\ UNCHANGED <<loginVars, logoutVars, local, listVars, used, device,
                         must>>
  /\ UNCHANGED <<store, committed, rolledBack>>

ReadBefore(p) ==
  /\ pc[p] = "before"
  /\ before' = [before EXCEPT ![p] = mapping]
  /\ Goto(p, IF IsConcurrent THEN "appendIndex" ELSE "listTargets")
  /\ UNCHANGED <<store, tok, snap, comp, logoutVars, local, listVars, history>>

\* With targets to replace: refuse the new login or log the targets out.
Replace(p, found) ==
  /\ targets' = [targets EXCEPT ![p] = IF ExitMode = "OldDevice" THEN found ELSE {}]
  /\ Goto(p, IF found = {} THEN "appendIndex"
             ELSE IF ExitMode = "NewDevice" THEN "rollback" ELSE "replaceNext")

\* handle_replaced_on_login; a login without a device degrades to AllDeviceType.
PerDevice(t) == ReplacedRange = "CurrDeviceType" /\ device[t] # NoDevice

SameDevice(S, t) == {u \in S : device[u] = device[t]}

ListTerminals(p) ==
  /\ pc[p] = "listTargets" /\ PerDevice(tok[p])
  /\ Replace(p, SameDevice(session.terminals, tok[p]) \ {tok[p]})
  /\ UNCHANGED <<store, loginVars, logoutVars, local, probe, alive, evict, history>>

ListTokens(p) ==
  /\ pc[p] = "listTargets" /\ ~PerDevice(tok[p])
  /\ targets' = [targets EXCEPT ![p] = Range(index)]
  /\ Goto(p, "mappingTarget")
  /\ UNCHANGED <<store, loginVars, logoutVars, local, probe, alive, evict, history>>

AddMappingTarget(p) ==
  /\ pc[p] = "mappingTarget"
  /\ Replace(p, (targets[p] \cup ({mapping} \ {NoToken})) \ {tok[p]})
  /\ UNCHANGED <<store, loginVars, logoutVars, local, probe, alive, evict, history>>

\* Enter logout_internal for token t; it comes back to label r.
StartLogout(p, t, m, r) ==
  /\ cur' = [cur EXCEPT ![p] = t]
  /\ mode' = [mode EXCEPT ![p] = m]
  /\ ident' = [ident EXCEPT ![p] = FALSE]
  /\ ret' = [ret EXCEPT ![p] = r]

ReplaceOne(p, t) ==
  /\ pc[p] = "replaceNext" /\ t \in targets[p]
  /\ targets' = [targets EXCEPT ![p] = @ \ {t}]
  /\ StartLogout(p, t, "Replaced", "replaceNext")
  /\ Goto(p, "resolveBody")
  /\ UNCHANGED <<store, loginVars, local, probe, alive, evict, history>>

ReplaceDone(p) ==
  /\ pc[p] = "replaceNext" /\ targets[p] = {}
  /\ Goto(p, "appendIndex")
  /\ UNCHANGED <<store, loginVars, logoutVars, local, listVars, history>>

\* write_login_stages: each write registers its inverse with the compensator.
Register(p, kind) == comp' = [comp EXCEPT ![p] = Append(@, kind)]

AppendIndex(p) ==
  /\ pc[p] = "appendIndex"
  /\ index' = PushUnique(index, tok[p])
  /\ Register(p, "index")
  /\ Goto(p, "snapshot")
  /\ UNCHANGED <<body, tokenId, session, mapping, tok, before, snap,
                 logoutVars, local, listVars, history>>

Snapshot(p) ==
  /\ pc[p] = "snapshot"
  /\ snap' = [snap EXCEPT ![p] = session]
  /\ Register(p, "session")
  /\ Goto(p, "readSession")
  /\ UNCHANGED <<store, tok, before, logoutVars, local, listVars, history>>

\* add_terminal is a read-modify-write of the whole Account-Session.
ReadSession(p) ==
  /\ pc[p] = "readSession"
  /\ local' = [local EXCEPT ![p] = session.terminals]
  /\ Goto(p, "saveSession")
  /\ UNCHANGED <<store, loginVars, logoutVars, listVars, history>>

SaveSession(p) ==
  /\ pc[p] = "saveSession"
  /\ session' = [exists |-> TRUE, terminals |-> local[p] \cup {tok[p]}]
  /\ local' = [local EXCEPT ![p] = {}]
  /\ Goto(p, "saveTokenId")
  /\ UNCHANGED <<body, tokenId, index, mapping, loginVars, logoutVars,
                 listVars, history>>

SaveTokenId(p) ==
  /\ pc[p] = "saveTokenId"
  /\ tokenId' = [tokenId EXCEPT ![tok[p]] = "identity"]
  /\ Register(p, "tokenId")
  /\ Goto(p, "saveBody")
  /\ UNCHANGED <<body, index, session, mapping, tok, before, snap,
                 logoutVars, local, listVars, history>>

SaveBody(p) ==
  /\ pc[p] = "saveBody"
  /\ body' = body \cup {tok[p]}
  /\ Register(p, "body")
  /\ Goto(p, "cas")
  /\ UNCHANGED <<tokenId, index, session, mapping, tok, before, snap,
                 logoutVars, local, listVars, history>>

\* Past the commit point: enforce_max_login_count, or the login is over.
Commit(p) ==
  /\ mapping' = tok[p]
  /\ committed' = committed \cup {tok[p]}
  /\ IF IsConcurrent /\ MaxLoginCount > 0
     THEN /\ ret' = [ret EXCEPT ![p] = "enforce"]
          /\ Goto(p, "listIndex")
          /\ UNCHANGED <<loginVars, cur, mode, ident, local, listVars, must>>
     ELSE Finish(p)
  /\ UNCHANGED <<body, tokenId, index, session, used, device, rolledBack>>

\* commit_login_mapping: unconditional in concurrent mode, else a CAS from
\* mapping_before, and failing that a CAS from an absent mapping.
CommitConcurrent(p) == pc[p] = "cas" /\ IsConcurrent /\ Commit(p)

\* Mutant: the mapping is overwritten without comparing it with mapping_before.
CommitBlind(p) == pc[p] = "cas" /\ ~IsConcurrent /\ Commit(p)

CommitCas(p) ==
  /\ pc[p] = "cas" /\ ~IsConcurrent
  /\ mapping = before[p]
  /\ Commit(p)

CasRefused(p) ==
  /\ pc[p] = "cas" /\ ~IsConcurrent
  /\ mapping # before[p]
  /\ Goto(p, "casAbsent")
  /\ UNCHANGED <<store, loginVars, logoutVars, local, listVars, history>>

CommitAbsent(p) ==
  /\ pc[p] = "casAbsent"
  /\ mapping = NoToken
  /\ Commit(p)

CasLost(p) ==
  /\ pc[p] = "casAbsent"
  /\ mapping # NoToken
  /\ Goto(p, "rollback")
  /\ UNCHANGED <<store, loginVars, logoutVars, local, listVars, history>>

\* Mutant: the list_remove of the index is not among the compensations.
UndoKeepsIndex(p, kind) ==
  /\ index' = index
  /\ session' = IF kind = "session" THEN snap[p] ELSE session
  /\ tokenId' = IF kind = "tokenId"
                THEN [tokenId EXCEPT ![tok[p]] = "none"] ELSE tokenId
  /\ body' = IF kind = "body" THEN body \ {tok[p]} ELSE body

\* What LoginCompensator::rollback does for one registered step.
Undo(p, kind) ==
  /\ index' = IF kind = "index" THEN Without(index, tok[p]) ELSE index
  /\ session' = IF kind = "session" THEN snap[p] ELSE session
  /\ tokenId' = IF kind = "tokenId"
                THEN [tokenId EXCEPT ![tok[p]] = "none"] ELSE tokenId
  /\ body' = IF kind = "body" THEN body \ {tok[p]} ELSE body

Rollback(p) ==
  /\ pc[p] = "rollback" /\ comp[p] # <<>>
  /\ Undo(p, Last(comp[p]))
  /\ comp' = [comp EXCEPT ![p] = Front(@)]
  /\ UNCHANGED <<mapping, pc, tok, before, snap, logoutVars, local, listVars,
                 history>>

RolledBack(p) ==
  /\ pc[p] = "rollback" /\ comp[p] = <<>>
  /\ rolledBack' = rolledBack \cup {tok[p]}
  /\ Finish(p)
  /\ UNCHANGED <<store, used, device, committed>>

-----------------------------------------------------------------------------
(***************************************************************************)
(* AuthService::logout_internal, entered at "resolveBody" for cur[p]        *)
(***************************************************************************)

\* Mutant: the marker alone ends the token, its body is not deleted.
ResolveBodySkipsDelete(p) ==
  /\ pc[p] = "resolveBody"
  /\ ident' = [ident EXCEPT ![p] = cur[p] \in body]
  /\ Goto(p, IF cur[p] \in body THEN "mark" ELSE "resolveId")
  /\ UNCHANGED <<store, loginVars, cur, mode, ret, local, listVars, history>>

ResolveBody(p) ==
  /\ pc[p] = "resolveBody"
  /\ ident' = [ident EXCEPT ![p] = cur[p] \in body]
  /\ Goto(p, IF cur[p] \in body THEN "deleteBody" ELSE "resolveId")
  /\ UNCHANGED <<store, loginVars, cur, mode, ret, local, listVars, history>>

ResolveId(p) ==
  /\ pc[p] = "resolveId"
  /\ ident' = [ident EXCEPT ![p] = tokenId[cur[p]] = "identity"]
  /\ Goto(p, "deleteBody")
  /\ UNCHANGED <<store, loginVars, cur, mode, ret, local, listVars, history>>

DeleteBody(p) ==
  /\ pc[p] = "deleteBody"
  /\ body' = body \ {cur[p]}
  /\ Goto(p, "mark")
  /\ UNCHANGED <<tokenId, index, session, mapping, loginVars, logoutVars,
                 local, listVars, history>>

\* Logout drops the reverse mapping, KickOut leaves -5 and Replaced leaves -4.
Mark(p) ==
  /\ pc[p] = "mark"
  /\ tokenId' = [tokenId EXCEPT ![cur[p]] =
                   IF mode[p] = "Logout" THEN "none" ELSE mode[p]]
  /\ Goto(p, IF ident[p] THEN "removeIndex" ELSE ret[p])
  /\ UNCHANGED <<body, index, session, mapping, loginVars, logoutVars,
                 local, listVars, history>>

RemoveIndex(p) ==
  /\ pc[p] = "removeIndex"
  /\ index' = Without(index, cur[p])
  /\ Goto(p, "readTerminals")
  /\ UNCHANGED <<body, tokenId, session, mapping, loginVars, logoutVars,
                 local, listVars, history>>

AfterTerminals(p) == IF mode[p] = "Logout" THEN "casDelete" ELSE ret[p]

\* Mutant: the terminal is left in the session.
ReadTerminalsKeeps(p) ==
  /\ pc[p] = "readTerminals"
  /\ Goto(p, AfterTerminals(p))
  /\ UNCHANGED <<store, loginVars, logoutVars, local, listVars, history>>

\* remove_terminal: read, and write back when the terminal was there.
ReadTerminals(p) ==
  /\ pc[p] = "readTerminals"
  /\ IF cur[p] \in session.terminals
     THEN /\ local' = [local EXCEPT ![p] = session.terminals \ {cur[p]}]
          /\ Goto(p, "saveTerminals")
     ELSE /\ Goto(p, AfterTerminals(p))
          /\ UNCHANGED local
  /\ UNCHANGED <<store, loginVars, logoutVars, listVars, history>>

SaveTerminals(p) ==
  /\ pc[p] = "saveTerminals"
  /\ session' = [exists |-> TRUE, terminals |-> local[p]]
  /\ local' = [local EXCEPT ![p] = {}]
  /\ Goto(p, "countTerminals")
  /\ UNCHANGED <<body, tokenId, index, mapping, loginVars, logoutVars,
                 listVars, history>>

\* An empty session is deleted, except by a replace.
CountTerminals(p) ==
  /\ pc[p] = "countTerminals"
  /\ Goto(p, IF session.terminals = {} /\ mode[p] # "Replaced"
             THEN "deleteSession" ELSE AfterTerminals(p))
  /\ UNCHANGED <<store, loginVars, logoutVars, local, listVars, history>>

DeleteSession(p) ==
  /\ pc[p] = "deleteSession"
  /\ session' = NoSession
  /\ Goto(p, AfterTerminals(p))
  /\ UNCHANGED <<body, tokenId, index, mapping, loginVars, logoutVars,
                 local, listVars, history>>

\* Mutant: the mapping is deleted whichever token it names.
DeleteMapping(p) ==
  /\ pc[p] = "casDelete"
  /\ mapping' = NoToken
  /\ Goto(p, ret[p])
  /\ UNCHANGED <<body, tokenId, index, session, loginVars, logoutVars,
                 local, listVars, history>>

CasDelete(p) ==
  /\ pc[p] = "casDelete"
  /\ mapping' = IF mapping = cur[p] THEN NoToken ELSE mapping
  /\ Goto(p, ret[p])
  /\ UNCHANGED <<body, tokenId, index, session, loginVars, logoutVars,
                 local, listVars, history>>

-----------------------------------------------------------------------------
(***************************************************************************)
(* Single-token calls: logout, kick_out_by_token, replaced_by_token         *)
(***************************************************************************)

\* logout() with logout_range = Account first looks the account up.
LogoutEntry == IF LogoutRange = "Account" THEN "rangeBody" ELSE "resolveBody"

TokenCall(p, t, m, call, entry) ==
  /\ pc[p] = "idle" /\ call \in Calls
  /\ t \in committed
  /\ StartLogout(p, t, m, "return")
  /\ Goto(p, entry)
  /\ UNCHANGED <<store, loginVars, local, listVars, history>>

Logout(p, t) == TokenCall(p, t, "Logout", "logout", LogoutEntry)
KickOutByToken(p, t) == TokenCall(p, t, "KickOut", "kickOutByToken", "resolveBody")
ReplacedByToken(p, t) == TokenCall(p, t, "Replaced", "replacedByToken", "resolveBody")

\* Collect the account's tokens; the loop over them starts at "accountNext".
CollectInto(p) ==
  /\ ret' = [ret EXCEPT ![p] = "collect"]
  /\ Goto(p, "listIndex")

RangeBody(p) ==
  /\ pc[p] = "rangeBody"
  /\ IF cur[p] \in body
     THEN CollectInto(p)
     ELSE Goto(p, "rangeId") /\ UNCHANGED ret
  /\ UNCHANGED <<store, loginVars, cur, mode, ident, local, listVars, history>>

RangeId(p) ==
  /\ pc[p] = "rangeId"
  /\ IF tokenId[cur[p]] = "identity"
     THEN CollectInto(p)
     ELSE Goto(p, "resolveBody") /\ UNCHANGED ret
  /\ UNCHANGED <<store, loginVars, cur, mode, ident, local, listVars, history>>

-----------------------------------------------------------------------------
(***************************************************************************)
(* TokenRepo::prune_index, which comes back to label ret[p]                 *)
(***************************************************************************)

ListIndex(p) ==
  /\ pc[p] = "listIndex"
  /\ probe' = [probe EXCEPT ![p] = index]
  /\ alive' = [alive EXCEPT ![p] = <<>>]
  /\ Goto(p, "probe")
  /\ UNCHANGED <<store, loginVars, logoutVars, local, targets, evict, history>>

\* An entry whose body is stored is alive; any other is an orphan to remove.
Probe(p) ==
  /\ pc[p] = "probe" /\ probe[p] # <<>>
  /\ IF Head(probe[p]) \in body
     THEN /\ alive' = [alive EXCEPT ![p] = Append(@, Head(probe[p]))]
          /\ probe' = [probe EXCEPT ![p] = Tail(@)]
          /\ UNCHANGED pc
     ELSE Goto(p, "prune") /\ UNCHANGED <<alive, probe>>
  /\ UNCHANGED <<store, loginVars, logoutVars, local, targets, evict, history>>

Prune(p) ==
  /\ pc[p] = "prune"
  /\ index' = Without(index, Head(probe[p]))
  /\ probe' = [probe EXCEPT ![p] = Tail(@)]
  /\ Goto(p, "probe")
  /\ UNCHANGED <<body, tokenId, session, mapping, loginVars, logoutVars,
                 local, targets, alive, evict, history>>

PruneDone(p) ==
  /\ pc[p] = "probe" /\ probe[p] = <<>>
  /\ Goto(p, ret[p])
  /\ UNCHANGED <<store, loginVars, logoutVars, local, listVars, history>>

(***************************************************************************)
(* enforce_max_login_count: the oldest tokens above the limit are evicted   *)
(***************************************************************************)

\* Mutant: one token too few is evicted.
EnforceOffByOne(p) ==
  /\ pc[p] = "enforce"
  /\ evict' = [evict EXCEPT ![p] =
                 {alive[p][i] : i \in 1..(Len(alive[p]) - MaxLoginCount - 1)}]
  /\ alive' = [alive EXCEPT ![p] = <<>>]
  /\ Goto(p, "evictNext")
  /\ UNCHANGED <<store, loginVars, logoutVars, local, targets, probe, history>>

\* Mutant: the newest tokens are evicted, not the oldest.
EnforceNewest(p) ==
  /\ pc[p] = "enforce"
  /\ evict' = [evict EXCEPT ![p] =
                 {alive[p][i] : i \in (MaxLoginCount + 1)..Len(alive[p])}]
  /\ alive' = [alive EXCEPT ![p] = <<>>]
  /\ Goto(p, "evictNext")
  /\ UNCHANGED <<store, loginVars, logoutVars, local, targets, probe, history>>

Enforce(p) ==
  /\ pc[p] = "enforce"
  /\ evict' = [evict EXCEPT ![p] =
                 {alive[p][i] : i \in 1..(Len(alive[p]) - MaxLoginCount)}]
  /\ alive' = [alive EXCEPT ![p] = <<>>]
  /\ Goto(p, "evictNext")
  /\ UNCHANGED <<store, loginVars, logoutVars, local, targets, probe, history>>

EvictOne(p, t) ==
  /\ pc[p] = "evictNext" /\ t \in evict[p]
  /\ evict' = [evict EXCEPT ![p] = @ \ {t}]
  /\ index' = Without(index, t)
  /\ StartLogout(p, t, OverflowMode, "evictNext")
  /\ Goto(p, IF OverflowMode = "Logout" THEN LogoutEntry ELSE "resolveBody")
  /\ UNCHANGED <<body, tokenId, session, mapping, loginVars, local, targets,
                 probe, alive, history>>

EvictDone(p) ==
  /\ pc[p] = "evictNext" /\ evict[p] = {}
  /\ Finish(p)
  /\ UNCHANGED <<store, used, device, committed, rolledBack>>

(***************************************************************************)
(* logout_by_login_id and kick_out: collect_account_tokens, then log every  *)
(* token of the list out                                                    *)
(***************************************************************************)

AccountCall(p, m, call) ==
  /\ pc[p] = "idle" /\ call \in Calls
  /\ mode' = [mode EXCEPT ![p] = m]
  /\ must' = [must EXCEPT ![p] = Live]
  /\ CollectInto(p)
  /\ UNCHANGED <<store, loginVars, cur, ident, local, listVars, used,
                 device, committed, rolledBack>>

LogoutByLoginId(p) == AccountCall(p, "Logout", "logoutByLoginId")
KickOut(p) == AccountCall(p, "KickOut", "kickOut")

\* Mutant: the newest entry of the index is not collected.
CollectAllButLast(p) ==
  /\ pc[p] = "collect"
  /\ targets' = [targets EXCEPT ![p] = {alive[p][i] : i \in 1..(Len(alive[p]) - 1)}]
  /\ alive' = [alive EXCEPT ![p] = <<>>]
  /\ Goto(p, IF alive[p] = <<>> THEN "scan" ELSE "accountNext")
  /\ UNCHANGED <<store, loginVars, logoutVars, local, probe, evict, history>>

\* Entries found alive are the list; only an empty list is looked for further.
Collect(p) ==
  /\ pc[p] = "collect"
  /\ targets' = [targets EXCEPT ![p] = Range(alive[p])]
  /\ alive' = [alive EXCEPT ![p] = <<>>]
  /\ Goto(p, IF alive[p] = <<>> THEN "scan" ELSE "accountNext")
  /\ UNCHANGED <<store, loginVars, logoutVars, local, probe, evict, history>>

\* The scan of the stored bodies, then the mapping, stand in for an empty index.
ScanBodies(p) ==
  /\ pc[p] = "scan"
  /\ targets' = [targets EXCEPT ![p] = body]
  /\ Goto(p, IF body = {} THEN "mappingFallback" ELSE "accountNext")
  /\ UNCHANGED <<store, loginVars, logoutVars, local, probe, alive, evict, history>>

MappingFallback(p) ==
  /\ pc[p] = "mappingFallback"
  /\ targets' = [targets EXCEPT ![p] = {mapping} \ {NoToken}]
  /\ Goto(p, "accountNext")
  /\ UNCHANGED <<store, loginVars, logoutVars, local, probe, alive, evict, history>>

AccountOne(p, t) ==
  /\ pc[p] = "accountNext" /\ t \in targets[p]
  /\ targets' = [targets EXCEPT ![p] = @ \ {t}]
  /\ StartLogout(p, t, mode[p], "accountNext")
  /\ Goto(p, "resolveBody")
  /\ UNCHANGED <<store, loginVars, local, probe, alive, evict, history>>

\* kick_out ends by deleting the session; an eviction goes on with its own loop.
AccountDone(p) ==
  /\ pc[p] = "accountNext" /\ targets[p] = {}
  /\ Goto(p, IF mode[p] = "KickOut" THEN "dropSession"
             ELSE IF tok[p] # NoToken THEN "evictNext" ELSE "return")
  /\ UNCHANGED <<store, loginVars, logoutVars, local, listVars, history>>

DropSession(p) ==
  /\ pc[p] = "dropSession"
  /\ session' = NoSession
  /\ Goto(p, "return")
  /\ UNCHANGED <<body, tokenId, index, mapping, loginVars, logoutVars, local,
                 listVars, history>>

(***************************************************************************)
(* renew_timeout, the automatic renewal and update_extra_data all read the  *)
(* validated body and write it back                                         *)
(***************************************************************************)

Renew(p, t) ==
  /\ pc[p] = "idle" /\ "renew" \in Calls
  /\ t \in committed
  /\ cur' = [cur EXCEPT ![p] = t]
  /\ Goto(p, "renewMark")
  /\ UNCHANGED <<store, loginVars, mode, ident, ret, local, listVars, history>>

RenewCheckMark(p) ==
  /\ pc[p] = "renewMark"
  /\ Goto(p, IF Marked(cur[p]) THEN "return" ELSE "renewBody")
  /\ UNCHANGED <<store, loginVars, logoutVars, local, listVars, history>>

RenewReadBody(p) ==
  /\ pc[p] = "renewBody"
  /\ Goto(p, IF cur[p] \in body THEN "renewWrite" ELSE "return")
  /\ UNCHANGED <<store, loginVars, logoutVars, local, listVars, history>>

\* Mutant: a renewal writes the reverse mapping back as well.
RenewWriteBoth(p) ==
  /\ pc[p] = "renewWrite"
  /\ body' = body \cup {cur[p]}
  /\ tokenId' = [tokenId EXCEPT ![cur[p]] = "identity"]
  /\ Goto(p, "return")
  /\ UNCHANGED <<index, session, mapping, loginVars, logoutVars, local,
                 listVars, history>>

RenewWriteBody(p) ==
  /\ pc[p] = "renewWrite"
  /\ body' = body \cup {cur[p]}
  /\ Goto(p, "return")
  /\ UNCHANGED <<tokenId, index, session, mapping, loginVars, logoutVars,
                 local, listVars, history>>

-----------------------------------------------------------------------------
(***************************************************************************)
(* Storage errors and dropped tasks.  A call that fails has no effect; the  *)
(* code then goes on where OnError says.                                    *)
(***************************************************************************)

\* `?` before and inside write_login_stages: the login is rolled back.
LoginAborts == {"share", "before", "listTargets", "mappingTarget",
                "appendIndex", "snapshot", "readSession", "saveSession",
                "saveTokenId", "saveBody", "cas", "casAbsent"}

\* `?` in logout and logout_internal: its caller logs the error and goes on.
LogoutAborts == {"rangeBody", "rangeId", "resolveBody", "resolveId",
                 "deleteBody", "mark", "casDelete"}

\* An account-wide list that cannot be built ends the call or the eviction.
AccountAbort(p) == IF tok[p] # NoToken THEN "evictNext" ELSE "return"

\* Labels whose error only moves the task on.
OnError(p) ==
  CASE pc[p] \in LoginAborts -> "rollback"
    [] pc[p] \in {"shareMark", "shareBody"} -> "before"
    [] pc[p] \in LogoutAborts -> ret[p]
    [] pc[p] = "removeIndex" -> "readTerminals"
    [] pc[p] \in {"readTerminals", "saveTerminals", "deleteSession"} ->
         AfterTerminals(p)
    [] pc[p] = "countTerminals" ->   \* terminal_count().unwrap_or(0)
         IF mode[p] = "Replaced" THEN ret[p] ELSE "deleteSession"
    [] pc[p] \in {"listIndex", "mappingFallback"} -> AccountAbort(p)
    [] pc[p] = "scan" -> "mappingFallback"
    [] OTHER -> "return"   \* dropSession and the renewal calls

Fault(p) ==
  /\ pc[p] \in MayFail
  /\ pc[p] \in LoginAborts \cup LogoutAborts \cup RenewLabels \cup
       {"shareMark", "shareBody", "removeIndex", "readTerminals",
        "saveTerminals", "countTerminals", "deleteSession", "listIndex",
        "scan", "mappingFallback", "dropSession"}
  /\ Goto(p, OnError(p))
  /\ UNCHANGED <<store, loginVars, logoutVars, local, listVars, history>>

\* A compensation that fails is reported and the next one is tried.
UndoFault(p) ==
  /\ pc[p] = "rollback" /\ "rollback" \in MayFail /\ comp[p] # <<>>
  /\ comp' = [comp EXCEPT ![p] = Front(@)]
  /\ UNCHANGED <<store, pc, tok, before, snap, logoutVars, local, listVars,
                 history>>

\* An entry that cannot be probed is kept; one that cannot be removed stays.
ProbeFault(p) ==
  /\ pc[p] = "probe" /\ "probe" \in MayFail /\ probe[p] # <<>>
  /\ alive' = [alive EXCEPT ![p] = Append(@, Head(probe[p]))]
  /\ probe' = [probe EXCEPT ![p] = Tail(@)]
  /\ UNCHANGED <<store, pc, loginVars, logoutVars, local, targets, evict, history>>

PruneFault(p) ==
  /\ pc[p] = "prune" /\ "prune" \in MayFail
  /\ probe' = [probe EXCEPT ![p] = Tail(@)]
  /\ Goto(p, "probe")
  /\ UNCHANGED <<store, loginVars, logoutVars, local, targets, alive, evict,
                 history>>

\* The future of a call is dropped at an await: no compensation runs.
Crash(p) ==
  /\ MayCrash /\ pc[p] # "idle"
  /\ Finish(p)
  /\ UNCHANGED <<store, used, device, committed, rolledBack>>

-----------------------------------------------------------------------------
LoginStep(p) ==
  \/ ReadShare(p) \/ CheckShareMark(p) \/ CheckShareBody(p)
  \/ ReadBefore(p) \/ ListTerminals(p) \/ ListTokens(p) \/ AddMappingTarget(p)
  \/ \E t \in Tokens : ReplaceOne(p, t)
  \/ ReplaceDone(p)
  \/ AppendIndex(p) \/ Snapshot(p) \/ ReadSession(p) \/ SaveSession(p)
  \/ SaveTokenId(p) \/ SaveBody(p)
  \/ CommitConcurrent(p) \/ CommitCas(p) \/ CasRefused(p)
  \/ CommitAbsent(p) \/ CasLost(p)
  \/ Rollback(p) \/ RolledBack(p)

LogoutStep(p) ==
  \/ RangeBody(p) \/ RangeId(p)
  \/ ResolveBody(p) \/ ResolveId(p) \/ DeleteBody(p) \/ Mark(p)
  \/ RemoveIndex(p) \/ ReadTerminals(p) \/ SaveTerminals(p)
  \/ CountTerminals(p) \/ DeleteSession(p) \/ CasDelete(p)

AccountStep(p) ==
  \/ ListIndex(p) \/ Probe(p) \/ Prune(p) \/ PruneDone(p)
  \/ Enforce(p) \/ \E t \in Tokens : EvictOne(p, t)
  \/ EvictDone(p)
  \/ Collect(p) \/ ScanBodies(p) \/ MappingFallback(p)
  \/ \E t \in Tokens : AccountOne(p, t)
  \/ AccountDone(p) \/ DropSession(p)

RenewStep(p) == RenewCheckMark(p) \/ RenewReadBody(p) \/ RenewWriteBody(p)

\* The steps a scheduled task takes once its call has started.
Step(p) == LoginStep(p) \/ LogoutStep(p) \/ AccountStep(p) \/ RenewStep(p)
             \/ Return(p)

Begin(p) ==
  \/ \E t \in Tokens, d \in Devices \cup {NoDevice} : Login(p, t, d)
  \/ \E t \in Tokens : \/ Logout(p, t)
                       \/ KickOutByToken(p, t)
                       \/ ReplacedByToken(p, t)
                       \/ Renew(p, t)
  \/ LogoutByLoginId(p)
  \/ KickOut(p)

Disturb(p) ==
  Fault(p) \/ UndoFault(p) \/ ProbeFault(p) \/ PruneFault(p) \/ Crash(p)

Next == /\ \E p \in Procs : Begin(p) \/ Step(p) \/ Disturb(p)
        /\ UNCHANGED config

Spec == Init /\ [][Next]_vars

-----------------------------------------------------------------------------
(***************************************************************************)
(* Properties                                                              *)
(***************************************************************************)

\* With is_concurrent = false and the whole account in range, two tokens of the
\* account never authenticate at the same time: whatever logins race each other,
\* handle_replaced_on_login and the CAS of commit_login_mapping leave one winner.
AtMostOneLive == Exclusive => \A t, u \in Live : t = u

\* The same per device type (replaced_range = CurrDeviceType): two live tokens
\* of an exclusive account belong to different devices.
OneTokenPerDevice ==
  ~IsConcurrent => \A t, u \in Live :
    device[t] = device[u] /\ device[t] # NoDevice => t = u

\* Of an exclusive account, a live token is the one login:token names: a racing
\* login, rollback or stale cas_delete never unhooks it (get_token_by_login_id).
LiveIsMapped == Exclusive => Live \subseteq {mapping}

\* A login that failed and ran its compensation left no body, no identity, no
\* index entry and no commit-point mapping behind, whatever ran meanwhile.
CleanRollback ==
  \A t \in rolledBack :
    /\ t \notin body /\ t \notin Range(index) /\ mapping # t
    /\ tokenId[t] # "identity"

\* ... and no terminal in the Account-Session.
NoGhostTerminal == rolledBack \cap session.terminals = {}

\* A committed token that stopped authenticating never authenticates again.
RevokedForever ==
  [][\A t \in committed : ~Usable(t) => ~Usable(t)']_vars

\* ... and a committed token that carries a marker is refused from then on, even
\* when a renewal that read its body earlier writes the body back.
KickedOutForever ==
  [][\A t \in committed : Marked(t) => ~Usable(t)']_vars

\* A new login of an exclusive NewDevice account is refused only because of a
\* token that is live, or of another login that is still in flight.
RefusedOnlyWhenLoggedIn ==
  [][\A p \in Procs :
       (pc[p] = "mappingTarget" /\ pc'[p] = "rollback")
         => Live # {} \/ \E q \in Procs \ {p} : tok[q] # NoToken]_vars

\* When an account-wide logout or kick-out returns, no token that was live when
\* it started is live any more (auth_service.rs: "all tokens of the account").
AccountCallComplete ==
  [][\A p \in Procs : pc[p] # "idle" /\ pc'[p] = "idle" => must[p] \cap Live' = {}]_vars

\* The token a login returns is live when the login returns it.
LoginReturnsLive ==
  [][\A p \in Procs :
       pc[p] # "idle" /\ pc'[p] = "idle" /\ tok[p] \in committed'
         => tok[p] \in Live']_vars

Quiet == \A p \in Procs : pc[p] = "idle"

\* With no call in progress the index, the terminals and the live tokens agree.
QuietAgreement ==
  Quiet => Live = Range(index) /\ Live = session.terminals

\* With no call in progress at most max_login_count tokens are live.
MaxLoginRespected ==
  Quiet /\ IsConcurrent /\ MaxLoginCount > 0 => Cardinality(Live) <= MaxLoginCount

\* With is_share, logins of the account share one live token.
ShareOneToken == Quiet /\ IsShare => Cardinality(Live) <= 1

\* What the login policy promises of the tokens of an account: one per device
\* type when logins replace each other, one when they share, and otherwise no
\* more than the limit that enforce_login_limits keeps.
LoginLimits == OneTokenPerDevice /\ ShareOneToken /\ MaxLoginRespected

\* What the tokens of the account look like from outside (see AccountTokens).
Account == INSTANCE AccountTokens WITH
             granted <- committed, live <- Live,
             exclusive <- Exclusive

\* The staged writes, the replacements and the CAS implement atomic grants and
\* revocations.
ImplementsAccount == Account!Spec

=============================================================================
