----------------------------- MODULE MCServices -----------------------------
(***************************************************************************)
(* Small instances of the services beside the account logic.  They share no *)
(* keys of the storage and do not call one another, so one run takes them   *)
(* one at a time: a behaviour is about the service in focus, and the state  *)
(* of the others stays as it was at the start.                              *)
(***************************************************************************)
EXTENDS SameToken, Sso, OAuth2, DistributedSessions, TempTokens, Nonces,
        Presence, Backends, Permissions, EventBus, Keys, MCContext

CONSTANTS
  Focused,    \* the services to take
  Long,       \* those whose calls take many steps
  LongCalls   \* bound on the calls of these: fewer than MaxCalls

VARIABLE focus

services == <<stState, ssoState, oaState, dsState, tmState, ncState, prState,
              beState, pmState, evState, keyState, rcState>>
restState == <<evState, keyState, rcState>>
servicesVars == <<control, services, focus>>

\* The choices a service's Init leaves open are made when it is in focus.
ServicesInit ==
  /\ focus \in Focused
  /\ ControlInit /\ StInit /\ SsoInit /\ OaInit /\ TmInit /\ NcInit /\ PrInit
  /\ DsInit /\ (focus # "sessions" => storage = CHOOSE s \in Storages : TRUE)
  /\ BeInit /\ (focus # "backends" => store = CHOOSE s \in Stores : TRUE)
  /\ IF focus = "permissions" THEN PmInit
     ELSE owned = {} /\ required = <<>> /\ verdicts = {}
  /\ EvInit /\ (focus # "events" => mode = CHOOSE m \in Modes : TRUE)
  /\ KeysInit /\ (focus # "keys" => layout = CHOOSE l \in Layouts : TRUE)
  /\ RcInit /\ (focus # "contexts" =>
                 /\ layer = CHOOSE y \in Layers : TRUE
                 /\ rules = CHOOSE r \in RulesOf(layer) : TRUE)

\* Generated names are interchangeable: they are numbers, taken in order.
InOrder(used, usedNext) == \A n \in usedNext \ used : 1..(n - 1) \subseteq usedNext

SameTokenNext ==
  /\ focus = "sameToken" /\ StNext /\ InOrder(minted, minted')
  /\ UNCHANGED <<ssoState, oaState, dsState, tmState, ncState, prState, beState, pmState,
                 restState>>
SsoServerNext ==
  /\ focus = "sso" /\ SsoNext /\ InOrder(Issued, Issued')
  /\ UNCHANGED <<stState, oaState, dsState, tmState, ncState, prState, beState, pmState,
                 restState>>
OAuth2Next ==
  /\ focus = "oauth2" /\ OaNext
  /\ InOrder({n \in Ids : grant[n] # Nil}, {n \in Ids : grant'[n] # Nil})
  /\ UNCHANGED <<stState, ssoState, dsState, tmState, ncState, prState, beState, pmState,
                 restState>>
SessionsNext ==
  /\ focus = "sessions" /\ DsNext
  /\ LET Made == {s \in Sessions : made[s] # Nil}
     IN InOrder(Made, Made') /\ InOrder({made[s].token : s \in Made},
                                       {made'[s].token : s \in Made'})
  /\ UNCHANGED <<stState, ssoState, oaState, tmState, ncState, prState, beState, pmState,
                 restState>>
TempTokensNext ==
  /\ focus = "tempTokens" /\ TmNext /\ InOrder(known, known')
  /\ UNCHANGED <<stState, ssoState, oaState, dsState, ncState, prState, beState, pmState,
                 restState>>
NoncesNext ==
  /\ focus = "nonces" /\ NcNext
  /\ UNCHANGED <<stState, ssoState, oaState, dsState, tmState, prState, beState, pmState,
                 restState>>
PresenceNext ==
  /\ focus = "presence" /\ PrNext
  /\ UNCHANGED <<stState, ssoState, oaState, dsState, tmState, ncState, beState, pmState,
                 restState>>
BackendsNext ==
  /\ focus = "backends" /\ BeNext
  /\ UNCHANGED <<stState, ssoState, oaState, dsState, tmState, ncState, prState, pmState,
                 restState>>
PermissionsNext ==
  /\ focus = "permissions" /\ PmNext
  /\ UNCHANGED <<control, stState, ssoState, oaState, dsState, tmState, ncState,
                 prState, beState, restState>>

firstState == <<stState, ssoState, oaState, dsState, tmState, ncState, prState,
                beState, pmState>>
EventBusNext ==
  /\ focus = "events" /\ EvNext
  /\ InOrder({e \in Events : present[e] # Nil}, {e \in Events : present'[e] # Nil})
  /\ UNCHANGED <<firstState, keyState, rcState>>
KeyNext ==
  /\ focus = "keys" /\ KeysNext
  /\ UNCHANGED <<control, firstState, evState, rcState>>
ContextsNext ==
  /\ focus = "contexts" /\ RcNext
  /\ UNCHANGED <<firstState, evState, keyState>>

ServicesNext ==
  /\ \/ SameTokenNext \/ SsoServerNext \/ OAuth2Next \/ SessionsNext
     \/ TempTokensNext \/ NoncesNext \/ PresenceNext \/ BackendsNext
     \/ PermissionsNext \/ EventBusNext \/ KeyNext \/ ContextsNext
  /\ focus \in Long => calls' <= LongCalls
  /\ UNCHANGED focus

ServicesSpec == ServicesInit /\ [][ServicesNext]_servicesVars

SignersSkew == {-1, 0, 1}

\* "", "login", "default", "a" and "a:b"; the ids "u" and "b:u".
KeyTypes == {<<>>, Path(<<"login">>), Path(<<"default">>), Path(<<"a">>), Path(<<"a", "b">>)}
KeyIds == {Path(<<"u">>), Path(<<"b", "u">>)}

TaskSymmetry == Permutations(Tasks)

=============================================================================
