------------------------------- MODULE OAuth2 -------------------------------
(***************************************************************************)
(* The OAuth2 server: authorization codes exchanged once, the access and    *)
(* refresh token of a grant written in two steps, and refresh tokens taken  *)
(* out of storage, rotated, and written back when their successors cannot   *)
(* be stored.  A failed write is one that was not applied.  Registered      *)
(* clients do not change; what a client proves of itself (secret, redirect  *)
(* URI, scope) is an input, and a request refused before it writes anything *)
(* is not a step.                                                          *)
(***************************************************************************)
EXTENDS Requests

CONSTANTS
  Clients,
  Public,       \* public clients: no secret, PKCE with S256 required
  RequirePkce,  \* require_pkce, of every client
  Codes,        \* authorization codes, each issued once
  Ids           \* generate_access_token: names a new access and refresh token

ASSUME OAuthAssumption ==
  /\ Public \subseteq Clients /\ RequirePkce \in BOOLEAN
  /\ Nil \notin Clients \cup Codes \cup Ids /\ Codes \cap Ids = {}

VARIABLES
  code,       \* stored authorization codes
  access,     \* stored access tokens
  refresh,    \* stored refresh tokens
  owner,      \* client_id of a token's record
  \* ---- a call's arguments and local variables
  form,       \* what the client presents
  new, old,   \* the tokens being written, and those they replace
  \* ---- history
  grant,      \* the grant a token descends from: a code, or its first token
  coded,      \* codes issued
  answered,   \* tokens a client has been given
  disturbed   \* grants with a refused, broken-off or overlapping call

oaStore == <<code, access, refresh, owner>>
oaHistory == <<grant, coded, answered, disturbed>>
oaState == <<oaStore, form, new, old, oaHistory>>
oaVars == <<control, oaState>>

Methods == {"none", "plain", "S256"}
Grants == Codes \cup Ids
Writing == {"saveAccess", "saveRefresh"}
Rotating == Writing \cup {"takeRefresh", "deleteOld", "writeBack"}
Form == [client : Clients, code : Codes, sameUri : BOOLEAN,
         verifier : {"none", "right", "wrong"}]

\* The absent value is none of the values it stands in for.
ASSUME OAuthNil == \A r \in [client : Clients, pkce : Methods] : r # Nil

OaTypeOK ==
  /\ pc \in [Tasks -> Rotating \cup {"consumeCode", "idle"}] /\ calls \in Nat
  /\ code \in [Codes -> [client : Clients, pkce : Methods] \cup {Nil}]
  /\ access \subseteq Ids /\ refresh \subseteq Ids
  /\ owner \in [Ids -> Clients \cup {Nil}]
  /\ form \in [Tasks -> Form \cup Clients \cup {Nil}]
  /\ new \in [Tasks -> Ids \cup {Nil}] /\ old \in [Tasks -> Ids \cup {Nil}]
  /\ grant \in [Ids -> Grants \cup {Nil}]
  /\ coded \subseteq Codes /\ answered \subseteq Ids /\ disturbed \subseteq Grants

OaInit ==
  /\ code = [k \in Codes |-> Nil] /\ access = {} /\ refresh = {}
  /\ owner = [n \in Ids |-> Nil]
  /\ form = [t \in Tasks |-> Nil]
  /\ new = [t \in Tasks |-> Nil] /\ old = [t \in Tasks |-> Nil]
  /\ grant = [n \in Ids |-> Nil]
  /\ coded = {} /\ answered = {} /\ disturbed = {}

OaEnd(t) ==
  /\ Finish(t)
  /\ form' = [form EXCEPT ![t] = Nil]
  /\ new' = [new EXCEPT ![t] = Nil] /\ old' = [old EXCEPT ![t] = Nil]

\* The grants a call works on.
On(t) == {grant[n] : n \in {new[t], old[t]} \ {Nil}}
Overlapped(g) == IF \E q \in Tasks : g \in On(q) THEN {g} ELSE {}

\* generate_access_token makes a pair of tokens for a grant of client c.
Generate(t, n, g, c) ==
  /\ grant[n] = Nil
  /\ grant' = [grant EXCEPT ![n] = g]
  /\ owner' = [owner EXCEPT ![n] = c]
  /\ new' = [new EXCEPT ![t] = n]

-----------------------------------------------------------------------------
(***************************************************************************)
(* New grants                                                              *)
(***************************************************************************)

\* issue_authorization_code, and the code's storage.
IssueCode(c, k, p) ==
  /\ k \notin coded /\ Call
  /\ c \in Public \/ RequirePkce => p # "none"
  /\ coded' = coded \cup {k}
  /\ code' = [code EXCEPT ![k] = [client |-> c, pkce |-> p]]
  /\ UNCHANGED <<pc, access, refresh, owner, form, new, old, grant, answered,
                 disturbed>>

\* exchange_code_for_token, by a client that has proved who it is.
Exchange(t, c, k, uri, v) ==
  /\ k \in coded /\ Begin(t, "consumeCode")
  /\ form' = [form EXCEPT ![t] =
       [client |-> c, code |-> k, sameUri |-> uri, verifier |-> v]]
  /\ UNCHANGED <<oaStore, new, old, oaHistory>>

\* Client, redirect URI and PKCE verifier fit the code.
Fits(f, k) ==
  /\ k.client = f.client /\ f.sameUri
  /\ f.client \in Public => k.pkce = "S256"
  /\ f.client \in Public \/ RequirePkce \/ k.pkce # "none" =>
       k.pkce # "none" /\ f.verifier = "right"

\* The code is taken out before anything is compared: a misfit burns it.
ConsumeCode(t) ==
  /\ pc[t] = "consumeCode"
  /\ LET f == form[t]
         k == code[f.code]
     IN /\ code' = [code EXCEPT ![f.code] = Nil]
        /\ IF k # Nil /\ Fits(f, k)
           THEN /\ \E n \in Ids : Generate(t, n, f.code, f.client)
                /\ Goto(t, "saveAccess") /\ UNCHANGED <<form, old>>
           ELSE OaEnd(t) /\ UNCHANGED <<owner, grant>>
  /\ UNCHANGED <<access, refresh, coded, answered, disturbed>>

\* password_grant and client_credentials_grant start a grant of their own.
DirectGrant(t, c, kind, n) ==
  /\ kind = "client_credentials" => c \notin Public
  /\ Begin(t, "saveAccess")
  /\ Generate(t, n, n, c)
  /\ UNCHANGED <<code, access, refresh, form, old, coded, answered, disturbed>>

-----------------------------------------------------------------------------
(***************************************************************************)
(* generate_access_token and refresh_access_token                          *)
(***************************************************************************)
SaveAccess(t) ==
  /\ pc[t] = "saveAccess"
  /\ access' = access \cup {new[t]}
  /\ Goto(t, "saveRefresh")
  /\ UNCHANGED <<code, refresh, owner, form, new, old, oaHistory>>

SaveRefresh(t) ==
  /\ pc[t] = "saveRefresh"
  /\ refresh' = refresh \cup {new[t]}
  /\ IF old[t] = Nil
     THEN answered' = answered \cup {new[t]} /\ OaEnd(t)
     ELSE Goto(t, "deleteOld") /\ UNCHANGED <<form, new, old, answered>>
  /\ UNCHANGED <<code, access, owner, grant, coded, disturbed>>

\* A refresh of token n, by a client c that has proved who it is.
RefreshGrant(t, c, n) ==
  /\ n \in answered /\ Begin(t, "takeRefresh")
  /\ form' = [form EXCEPT ![t] = c] /\ old' = [old EXCEPT ![t] = n]
  /\ disturbed' = disturbed \cup Overlapped(grant[n])
  /\ UNCHANGED <<oaStore, new, grant, coded, answered>>

\* Mutant: the refresh token is read and left in storage.
TakeRefreshKept(t) ==
  /\ pc[t] = "takeRefresh"
  /\ LET n == old[t]
     IN IF n \notin refresh THEN OaEnd(t) /\ UNCHANGED <<owner, grant>>
        ELSE /\ owner[n] = form[t]
             /\ \E m \in Ids : Generate(t, m, grant[n], form[t])
             /\ Goto(t, "saveAccess") /\ UNCHANGED <<form, old>>
  /\ UNCHANGED <<code, access, refresh, coded, answered, disturbed>>

\* The refresh token is taken out; another client's is put back.
TakeRefresh(t) ==
  /\ pc[t] = "takeRefresh"
  /\ LET n == old[t]
     IN /\ refresh' = refresh \ {n}
        /\ \/ n \notin refresh /\ OaEnd(t) /\ UNCHANGED <<owner, grant>>
           \/ /\ n \in refresh /\ owner[n] # form[t]
              /\ Goto(t, "writeBack") /\ UNCHANGED <<owner, grant, form, new, old>>
           \/ /\ n \in refresh /\ owner[n] = form[t]
              /\ \E m \in Ids : Generate(t, m, grant[n], form[t])
              /\ Goto(t, "saveAccess") /\ UNCHANGED <<form, old>>
  /\ UNCHANGED <<code, access, coded, answered, disturbed>>

\* A token that could not be stored: the old refresh token is put back.
SaveFails(t) ==
  /\ MayFail /\ pc[t] \in Writing
  /\ disturbed' = disturbed \cup On(t)
  /\ IF old[t] = Nil THEN OaEnd(t)
     ELSE Goto(t, "writeBack") /\ UNCHANGED <<form, new, old>>
  /\ UNCHANGED <<oaStore, grant, coded, answered>>

WriteBack(t) ==
  /\ pc[t] = "writeBack"
  /\ refresh' = refresh \cup {old[t]}
  /\ OaEnd(t)
  /\ UNCHANGED <<code, access, owner, oaHistory>>

\* Mutant: the access token that was replaced is forgotten.
DeleteOldSkipped(t) ==
  /\ pc[t] = "deleteOld"
  /\ answered' = answered \cup {new[t]}
  /\ OaEnd(t)
  /\ UNCHANGED <<oaStore, grant, coded, disturbed>>

DeleteOld(t) ==
  /\ pc[t] = "deleteOld"
  /\ access' = access \ {old[t]}
  /\ answered' = answered \cup {new[t]}
  /\ OaEnd(t)
  /\ UNCHANGED <<code, refresh, owner, grant, coded, disturbed>>

-----------------------------------------------------------------------------
\* revoke_token deletes the one key its argument names.
RevokeToken(n) ==
  /\ n \in answered /\ Call
  /\ \/ access' = access \ {n} /\ UNCHANGED refresh
     \/ refresh' = refresh \ {n} /\ UNCHANGED access
  /\ UNCHANGED <<pc, code, owner, form, new, old, oaHistory>>

ExpireGrant ==
  /\ \/ \E k \in Codes : code[k] # Nil /\ code' = [code EXCEPT ![k] = Nil]
                         /\ UNCHANGED <<access, refresh>>
     \/ \E n \in access : access' = access \ {n} /\ UNCHANGED <<code, refresh>>
     \/ \E n \in refresh : refresh' = refresh \ {n} /\ UNCHANGED <<code, access>>
  /\ UNCHANGED <<control, owner, form, new, old, oaHistory>>

OaDropped(t) ==
  /\ MayFail /\ pc[t] # "idle"
  /\ disturbed' = disturbed \cup On(t)
  /\ OaEnd(t)
  /\ UNCHANGED <<oaStore, grant, coded, answered>>

OaTask(t) ==
  \/ \E c \in Clients, k \in Codes, uri \in BOOLEAN, v \in {"none", "right", "wrong"} :
       Exchange(t, c, k, uri, v)
  \/ \E c \in Clients, n \in Ids, kind \in {"password", "client_credentials"} :
       DirectGrant(t, c, kind, n)
  \/ \E c \in Clients, n \in Ids : RefreshGrant(t, c, n)
  \/ ConsumeCode(t) \/ SaveAccess(t) \/ SaveRefresh(t) \/ TakeRefresh(t)
  \/ SaveFails(t) \/ WriteBack(t) \/ DeleteOld(t) \/ OaDropped(t)

OaNext ==
  \/ \E t \in Tasks : OaTask(t)
  \/ \E c \in Clients, k \in Codes, p \in Methods : IssueCode(c, k, p)
  \/ (\E n \in Ids : RevokeToken(n)) \/ ExpireGrant

OaSpec == ControlInit /\ OaInit /\ [][OaNext]_oaVars

-----------------------------------------------------------------------------
\* The calls that have taken a grant's code or refresh token out of storage.
Holds(t, g) ==
  \/ pc[t] \in Writing /\ grant[new[t]] = g
  \/ pc[t] = "writeBack" /\ grant[old[t]] = g

\* One credential that can be turned into tokens, at most: the grant's code, one
\* stored refresh token, or one call that has taken either out of storage.
OneRefreshPerGrant ==
  \A g \in Grants :
    /\ \A m, n \in refresh : grant[m] = g /\ grant[n] = g => m = n
    /\ \A t, q \in Tasks : Holds(t, g) /\ Holds(q, g) => t = q
    /\ \A t \in Tasks, n \in refresh : ~(Holds(t, g) /\ grant[n] = g)
    /\ \A k \in Codes : k = g /\ code[k] # Nil =>
         /\ \A t \in Tasks : ~Holds(t, g)
         /\ \A n \in refresh : grant[n] # g

\* Between calls, at most one live access token, unless a call of the grant has
\* been refused or broken off, or has overlapped another.
OneAccessPerGrant ==
  \A m, n \in access :
    /\ grant[m] = grant[n] /\ grant[m] \notin disturbed
    /\ \A t \in Tasks : grant[m] \notin On(t)
    => m = n

\* However many exchanges and refreshes of a grant overlap, fail or are written
\* back, it has one credential that can be turned into tokens; and where none has
\* overlapped or failed, a refresh leaves it one live access token: it ends the
\* one that it replaces.
OnePairPerGrant == OneRefreshPerGrant /\ OneAccessPerGrant

=============================================================================
