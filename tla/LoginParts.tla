------------------------------ MODULE LoginParts ------------------------------
(***************************************************************************)
(* What a login stores around its token: list entry, identity mapping,      *)
(* body, Token-Session and refresh record in stages that are undone when    *)
(* one or the commit fails, and, after it, presence and distributed         *)
(* session; the cleaning of a logout, a kick-out of the whole account, the  *)
(* ban that a login looks at first, and the calls that store something for  *)
(* a token they found valid.  A storage call that fails has no effect; the  *)
(* code ends the call, skips the part, or skips the token.  One account,    *)
(* logged in many times; which login wins the commit is AuthService's       *)
(* matter, here either may.                                                *)
(***************************************************************************)
EXTENDS Requests, Sequences

CONSTANTS
  LoginTokens,      \* generated tokens
  KeepTokenSession  \* is_logout_keep_token_session

ASSUME PartsAssumption ==
  /\ KeepTokenSession \in BOOLEAN
  /\ Nil \notin LoginTokens /\ \A some \in SUBSET LoginTokens : some # Nil

VARIABLES
  banned,     \* the disable key of the account
  parts,     \* parts[p]: the tokens that have part p
  subject,    \* the token a task works on
  step,       \* stages done by a login, or cleaned by a logout
  listing,    \* tokens a kick-out has still to go through
  \* ---- history
  drawn,      \* tokens drawn
  handed,     \* tokens a login has returned
  excused,    \* tokens revoked under another call on them, or half-treated
  overlapped, \* tokens whose login met a ban, its lifting or a kick-out
  underBan,   \* tasks whose kick-out began under the ban that stands
  emptied,    \* such a kick-out has returned
  lost,       \* lost[p]: the tokens of which a failed call left part p
  missed      \* tokens that a failed call has kept from a kick-out

lpStore == <<banned, parts>>
lpLocals == <<subject, step, listing>>
failures == <<lost, missed>>
lpHistory == <<drawn, handed, excused, overlapped, underBan, emptied, failures>>
lpState == <<lpStore, lpLocals, lpHistory>>
lpVars == <<control, lpState>>

LoginStages == <<"index", "id", "body", "session", "record">>
Cleaned == <<"body", "session", "id", "index", "shared", "online">>
Parts == {"index", "id", "body", "session", "record", "online", "shared"}
LoginLabels == {"checkBan", "write", "undo", "goOnline", "share"}
LpLabels == LoginLabels \cup {"identify", "clean", "cleanOwn", "goOffline", "collect",
                              "nextToken", "connect", "keepSession"}

LpTypeOK ==
  /\ pc \in [Tasks -> LpLabels \cup {"idle"}] /\ calls \in Nat
  /\ banned \in BOOLEAN /\ parts \in [Parts -> SUBSET LoginTokens]
  /\ subject \in [Tasks -> LoginTokens \cup {Nil}] /\ step \in [Tasks -> 0..6]
  /\ listing \in [Tasks -> (SUBSET LoginTokens) \cup {Nil}]
  /\ drawn \subseteq LoginTokens /\ handed \subseteq drawn
  /\ excused \subseteq LoginTokens
  /\ overlapped \subseteq LoginTokens
  /\ underBan \subseteq Tasks /\ emptied \in BOOLEAN
  /\ lost \in [Parts -> SUBSET LoginTokens] /\ missed \subseteq LoginTokens

LpInit ==
  /\ banned = FALSE /\ parts = [p \in Parts |-> {}]
  /\ subject = [t \in Tasks |-> Nil] /\ step = [t \in Tasks |-> 0]
  /\ listing = [t \in Tasks |-> Nil]
  /\ drawn = {} /\ handed = {} /\ excused = {} /\ overlapped = {}
  /\ underBan = {} /\ emptied = FALSE
  /\ lost = [p \in Parts |-> {}] /\ missed = {}

\* One storage call on one part of token k.
With(p, k) == parts' = [parts EXCEPT ![p] = @ \cup {k}]
Without(p, k) == parts' = [parts EXCEPT ![p] = @ \ {k}]

\* Calls on these parts of token k fail.
Leave(ps, k) ==
  lost' = [p \in Parts |-> lost[p] \cup (IF p \in ps THEN {k} ELSE {})]

Take(t, k, s) ==
  /\ subject' = [subject EXCEPT ![t] = k]
  /\ step' = [step EXCEPT ![t] = s]

LpEnd(t) ==
  /\ Finish(t) /\ Take(t, Nil, 0)
  /\ listing' = [listing EXCEPT ![t] = Nil]

Others(t, k) == \E q \in Tasks \ {t} : subject[q] = k
LoggingIn == {subject[q] : q \in {r \in Tasks : pc[r] \in LoginLabels}} \ {Nil}
KickingOut == \E q \in Tasks : listing[q] # Nil

-----------------------------------------------------------------------------
(***************************************************************************)
(* login                                                                   *)
(***************************************************************************)
LoginCall(t, k) ==
  /\ k \notin drawn /\ Begin(t, "checkBan") /\ drawn' = drawn \cup {k}
  /\ Take(t, k, 0)
  /\ overlapped' = overlapped \cup (IF KickingOut THEN {k} ELSE {})
  /\ UNCHANGED <<lpStore, listing, handed, excused, underBan, emptied, failures>>

\* Mutant: the ban is not looked at.
CheckBanNever(t) ==
  /\ pc[t] = "checkBan" /\ Goto(t, "write")
  /\ UNCHANGED lpState

CheckBan(t) ==
  /\ pc[t] = "checkBan"
  /\ IF banned THEN LpEnd(t) ELSE Goto(t, "write") /\ UNCHANGED lpLocals
  /\ UNCHANGED <<lpStore, lpHistory>>

\* write_login_stages
WriteStage(t) ==
  /\ pc[t] = "write" /\ step[t] < Len(LoginStages)
  /\ step' = [step EXCEPT ![t] = @ + 1]
  /\ With(LoginStages[step'[t]], subject[t])
  /\ UNCHANGED <<control, banned, subject, listing, lpHistory>>

\* A stage fails; the record may be written before its call fails, and is
\* not undone then, for a stage is registered when it has succeeded.
StageFails(t) ==
  /\ pc[t] = "write" /\ step[t] < Len(LoginStages) /\ MayFail /\ Goto(t, "undo")
  /\ \/ UNCHANGED parts
     \/ /\ step[t] + 1 = Len(LoginStages)
        /\ With("record", subject[t])
  /\ UNCHANGED <<banned, lpLocals, lpHistory>>

\* commit_login_mapping succeeds, or fails or finds another login there.
CommitMapping(t) ==
  /\ pc[t] = "write" /\ step[t] = Len(LoginStages)
  /\ Goto(t, "goOnline") \/ Goto(t, "undo")
  /\ UNCHANGED lpState

\* Mutant: the first undo that fails ends the rollback.
UndoStops(t) ==
  /\ pc[t] = "undo"
  /\ IF step[t] > 0
     THEN \/ /\ Without(LoginStages[step[t]], subject[t]) /\ UNCHANGED failures
             /\ step' = [step EXCEPT ![t] = @ - 1] /\ UNCHANGED <<control, subject, listing>>
          \/ /\ MayFail /\ LpEnd(t) /\ UNCHANGED parts
             /\ Leave({LoginStages[step[t]]}, subject[t])
             /\ missed' = missed \cup (parts["body"] \cap {subject[t]})
     ELSE LpEnd(t) /\ UNCHANGED <<parts, failures>>
  /\ UNCHANGED <<banned, drawn, handed, excused, overlapped, underBan, emptied>>

\* LoginCompensator::rollback, last stage first, whichever of its calls fail.
Undo(t) ==
  /\ pc[t] = "undo"
  /\ IF step[t] > 0
     THEN /\ \/ Without(LoginStages[step[t]], subject[t]) /\ UNCHANGED failures
             \/ /\ MayFail /\ UNCHANGED parts
                /\ Leave({LoginStages[step[t]]}, subject[t])
                /\ missed' = missed \cup
                     {k \in {subject[t]} : LoginStages[step[t]] = "body"}
          /\ step' = [step EXCEPT ![t] = @ - 1] /\ UNCHANGED <<control, subject, listing>>
     ELSE LpEnd(t) /\ UNCHANGED <<parts, failures>>
  /\ UNCHANGED <<banned, drawn, handed, excused, overlapped, underBan, emptied>>

\* Neither failure after the commit fails the login.
GoOnline(t) ==
  /\ pc[t] = "goOnline" /\ Goto(t, "share")
  /\ \/ With("online", subject[t])
     \/ MayFail /\ UNCHANGED parts
  /\ UNCHANGED <<banned, lpLocals, lpHistory>>

Share(t) ==
  /\ pc[t] = "share" /\ LpEnd(t)
  /\ \/ With("shared", subject[t])
     \/ MayFail /\ UNCHANGED parts
  /\ handed' = handed \cup {subject[t]}
  /\ UNCHANGED <<banned, drawn, excused, overlapped, underBan, emptied, failures>>

-----------------------------------------------------------------------------
(***************************************************************************)
(* logout of a token, kick-out of the account                              *)
(***************************************************************************)
LogoutToken(t, k) ==
  /\ k \in handed /\ Begin(t, "identify") /\ Take(t, k, 0)
  /\ UNCHANGED <<lpStore, listing, lpHistory>>

Kept(p) == p = "session" /\ KeepTokenSession

\* The revocation of t's token is over, done or failed.
Revoked(t) ==
  IF listing[t] = Nil THEN LpEnd(t)
  ELSE Goto(t, "nextToken") /\ Take(t, Nil, 0) /\ UNCHANGED listing

\* An error ends the revocation; a kick-out goes on to its next token.
GiveUp(t, left) ==
  /\ MayFail /\ Revoked(t) /\ UNCHANGED parts
  /\ Leave(left, subject[t])
  /\ missed' = missed \cup
       (IF listing[t] = Nil THEN {} ELSE parts["body"] \cap {subject[t]})

\* Without body and mapping only the token's own keys can be cleaned.
Identify(t) ==
  /\ pc[t] = "identify"
  /\ \/ /\ Goto(t, IF subject[t] \in parts["body"] \cup parts["id"]
                   THEN "clean" ELSE "cleanOwn")
        /\ excused' = excused \cup (IF Others(t, subject[t]) THEN {subject[t]} ELSE {})
        /\ UNCHANGED <<parts, lpLocals, failures>>
     \/ GiveUp(t, {}) /\ UNCHANGED excused
  /\ UNCHANGED <<banned, drawn, handed, overlapped, underBan, emptied>>

\* The next part in order is removed; or its call fails, which for body and
\* mapping ends the revocation and for the others is only logged.
CleanNext(t, order) ==
  LET p == order[step[t] + 1]
      NextPart == /\ step' = [step EXCEPT ![t] = @ + 1]
                  /\ UNCHANGED <<control, subject, listing>>
  IN \/ /\ NextPart /\ UNCHANGED failures
        /\ IF Kept(p) THEN UNCHANGED parts ELSE Without(p, subject[t])
     \/ /\ p \in {"body", "id"}
        /\ GiveUp(t, {order[i] : i \in (step[t] + 1)..Len(order)})
     \/ /\ MayFail /\ p \notin {"body", "id"} /\ NextPart
        /\ Leave({p}, subject[t]) /\ UNCHANGED <<parts, missed>>

Cleaning(t, order) ==
  /\ IF step[t] < Len(order)
     THEN /\ CleanNext(t, order)
          /\ excused' = excused \cup
               (IF Others(t, subject[t]) THEN {subject[t]} ELSE {})
     ELSE Revoked(t) /\ UNCHANGED <<parts, excused, failures>>
  /\ UNCHANGED <<banned, drawn, handed, overlapped, underBan, emptied>>

\* logout_internal
Clean(t) ==
  \/ pc[t] = "clean" /\ Cleaning(t, Cleaned)
  \/ pc[t] = "cleanOwn" /\ Cleaning(t, SubSeq(Cleaned, 1, 3))

KickOut(t) ==
  /\ Begin(t, "goOffline") /\ listing' = [listing EXCEPT ![t] = {}]
  /\ overlapped' = overlapped \cup LoggingIn
  /\ underBan' = IF banned THEN underBan \cup {t} ELSE underBan \ {t}
  /\ UNCHANGED <<lpStore, subject, step, drawn, handed, excused, emptied, failures>>

\* mark_offline_all_with_type; its failure is ignored.
GoOffline(t) ==
  /\ pc[t] = "goOffline" /\ Goto(t, "collect")
  /\ \/ parts' = [parts EXCEPT !["online"] = {}]
     \/ MayFail /\ UNCHANGED parts
  /\ UNCHANGED <<banned, lpLocals, lpHistory>>

\* Committed logins: the account's mapping names the last of them.
Committed ==
  handed \cup {subject[q] : q \in {r \in Tasks : pc[r] \in {"goOnline", "share"}}}

\* Where the list names no token: what a scan finds, else what the mapping names.
Fallback(t, found) ==
  /\ \/ listing' = [listing EXCEPT ![t] = found]
     \/ found = {} /\ \E k \in Committed : listing' = [listing EXCEPT ![t] = {k}]
  /\ missed' = missed \cup (parts["body"] \ listing'[t])

\* prune_index takes out the entries without a body: those it could not look
\* up stay and count as alive, those it could not remove stay.
CollectTokens(t) ==
  /\ pc[t] = "collect" /\ Goto(t, "nextToken")
  /\ \E stay \in SUBSET (parts["index"] \ parts["body"]) : \E unknown \in SUBSET stay :
       LET alive == (parts["index"] \cap parts["body"]) \cup unknown
       IN /\ stay = {} \/ MayFail
          /\ parts' = [parts EXCEPT !["index"] = (@ \cap parts["body"]) \cup stay]
          /\ IF alive # {}
             THEN listing' = [listing EXCEPT ![t] = alive] /\ UNCHANGED missed
             ELSE \E found \in SUBSET parts["body"] :
                    (found = parts["body"] \/ MayFail) /\ Fallback(t, found)
  /\ UNCHANGED <<banned, subject, step, drawn, handed, excused, overlapped, underBan,
                 emptied, lost>>

\* Its read of the list, or of the mapping, ends the kick-out.
CollectFails(t) ==
  /\ pc[t] = "collect" /\ MayFail /\ LpEnd(t)
  /\ UNCHANGED <<lpStore, lpHistory>>

NextToken(t) ==
  /\ pc[t] = "nextToken"
  /\ \/ \E k \in listing[t] :
          /\ listing' = [listing EXCEPT ![t] = @ \ {k}]
          /\ Goto(t, "identify") /\ Take(t, k, 0) /\ UNCHANGED emptied
     \/ listing[t] = {} /\ LpEnd(t) /\ emptied' = (emptied \/ t \in underBan)
  /\ UNCHANGED <<lpStore, drawn, handed, excused, overlapped, underBan, failures>>

Disable ==
  /\ ~banned /\ banned' = TRUE
  /\ overlapped' = overlapped \cup LoggingIn
  /\ UNCHANGED <<control, parts, lpLocals, drawn, handed, excused, underBan, emptied,
                 failures>>

UntieDisable ==
  /\ banned /\ banned' = FALSE /\ underBan' = {} /\ emptied' = FALSE
  /\ UNCHANGED <<control, parts, lpLocals, drawn, handed, excused, overlapped, failures>>

-----------------------------------------------------------------------------
(***************************************************************************)
(* Calls that store something for a valid token                            *)
(***************************************************************************)
\* WsAuth::authenticate and get_token_session look at the body first.
ForValid(t, k, l) ==
  /\ k \in handed \cap parts["body"] /\ Begin(t, l) /\ Take(t, k, 0)
  /\ UNCHANGED <<lpStore, listing, lpHistory>>

WsAuthenticate(t, k) == ForValid(t, k, "connect")
GetTokenSession(t, k) == ForValid(t, k, "keepSession")

Connect(t) ==
  /\ pc[t] = "connect" /\ LpEnd(t) /\ With("online", subject[t])
  /\ UNCHANGED <<banned, lpHistory>>

KeepSession(t) ==
  /\ pc[t] = "keepSession" /\ LpEnd(t) /\ With("session", subject[t])
  /\ UNCHANGED <<banned, lpHistory>>

LpDropped(t) ==
  /\ MayFail /\ pc[t] # "idle" /\ LpEnd(t)
  /\ excused' = excused \cup ({subject[t]} \ {Nil})
  /\ UNCHANGED <<lpStore, drawn, handed, overlapped, underBan, emptied, failures>>

LpTask(t) ==
  \/ \E k \in LoginTokens :
       \/ LoginCall(t, k) \/ LogoutToken(t, k)
       \/ WsAuthenticate(t, k) \/ GetTokenSession(t, k)
  \/ CheckBan(t) \/ WriteStage(t) \/ StageFails(t) \/ CommitMapping(t) \/ Undo(t)
  \/ GoOnline(t) \/ Share(t)
  \/ Identify(t) \/ Clean(t)
  \/ KickOut(t) \/ GoOffline(t) \/ CollectTokens(t) \/ CollectFails(t) \/ NextToken(t)
  \/ Connect(t) \/ KeepSession(t) \/ LpDropped(t)

LpNext == Disable \/ UntieDisable \/ \E t \in Tasks : LpTask(t)

LpSpec == ControlInit /\ LpInit /\ [][LpNext]_lpVars

-----------------------------------------------------------------------------
(***************************************************************************)
(* A token without a body, on which no call works, has no presence, no      *)
(* distributed session, no list entry and no Token-Session (unless those    *)
(* are kept) but a part whose own removal failed, or that was still to be   *)
(* removed when an error ended its revocation: one part that fails never    *)
(* costs another one of a rollback or of the cleaning after it.  Excused    *)
(* are tokens revoked while another call worked on them and tokens whose    *)
(* call was dropped.                                                       *)
(***************************************************************************)
NothingLeft ==
  \A k \in LoginTokens \ excused :
    k \notin parts["body"] /\ (\A t \in Tasks : subject[t] # k) =>
      \A p \in {"index", "session", "shared", "online"} :
        k \in parts[p] => Kept(p) \/ k \in lost[p]

(***************************************************************************)
(* When an account has been banned and then kicked out, nothing is logged   *)
(* in but what was being logged in meanwhile, and the tokens whose own      *)
(* revocation failed, which the kick-out skips: no login slips past the     *)
(* ban, and a token that fails, is added or goes while the others are       *)
(* revoked costs none of them.                                             *)
(***************************************************************************)
BanKeepsOut == emptied => parts["body"] \subseteq overlapped \cup missed

=============================================================================
