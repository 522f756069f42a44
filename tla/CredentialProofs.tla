-------------------------- MODULE CredentialProofs ---------------------------
(***************************************************************************)
(* What is handed out to be used once or for a time, for any number of     *)
(* requests and credentials: same-tokens, SSO tickets, OAuth2 codes and    *)
(* tokens, temporary tokens and nonces.                                    *)
(***************************************************************************)
EXTENDS SameToken, Sso, OAuth2, TempTokens, Nonces, TLAPS

-----------------------------------------------------------------------------
(***************************************************************************)
(* Same-Token, for any number of requests, secrets and calls: callers are  *)
(* handed secrets the cluster used, and a token that is stored throughout  *)
(* an is_valid is accepted by it.  The second rests on an order: a check   *)
(* that has passed the current value can only be overtaken by a rotation   *)
(* that installs a secret nobody could ask about yet.                      *)
(***************************************************************************)
\* Secrets come into use in this order: minted, installed, answered.
Known ==
  /\ installed \subseteq minted /\ answers \subseteq installed
  /\ current \in installed \cup {Nil}

\* What a running is_valid may rely on: at its second look the asked token is
\* not the current value, and if it was held all along it is the past one.
Asking ==
  \A t \in Tasks :
    /\ pc[t] \in {"stCheck", "stCheckPast"} => asked[t] \in minted
    /\ pc[t] = "stCheck" /\ held[t] => asked[t] \in {current, past}
    /\ pc[t] = "stCheckPast" => asked[t] # current /\ (held[t] => asked[t] = past)

StInv == StTypeOK /\ Known /\ Asking /\ ~refused

LEMMA StInitial == ControlInit /\ StInit => StInv
<1> SUFFICES ASSUME ControlInit, StInit PROVE StInv
  OBVIOUS
<1> USE SameTokenAssumption DEF ControlInit, StInit
<1>1. StTypeOK /\ Known /\ ~refused
  BY DEF StTypeOK, Known, Secret, StLabels
<1>2. Asking
  BY DEF Asking
<1> QED BY <1>1, <1>2 DEF StInv

LEMMA StStep ==
  ASSUME StInv, [StNext]_stVars
  PROVE  StInv'
<1> USE SameTokenAssumption, RequestsAssumption
    DEF StInv, StTypeOK, Known, Asking, Secret, StLabels, stStore, stHistory, stState,
        Begin, Call, Goto, Finish
<1>1. ASSUME NEW t \in Tasks, GetToken(t)
      PROVE  StInv'
  BY <1>1 DEF GetToken
<1>2. ASSUME NEW t \in Tasks, RefreshToken(t)
      PROVE  StInv'
  BY <1>2 DEF RefreshToken
<1>3. ASSUME NEW t \in Tasks, ReadCurrent(t)
      PROVE  StInv'
  BY <1>3 DEF ReadCurrent
<1>4. ASSUME NEW t \in Tasks, SavePast(t)
      PROVE  StInv'
  BY <1>4 DEF SavePast, Store
<1>5. ASSUME NEW t \in Tasks, CasCurrent(t)
      PROVE  StInv'
  <2>1. PICK s \in Secrets \ minted :
          /\ minted' = minted \cup {s}
          /\ \/ current = seen[t] /\ Store(s, past) /\ installed' = installed \cup {s}
                /\ replaced' = seen[t] /\ Answer(t, s)
             \/ Goto(t, "stReread")
                /\ UNCHANGED <<stStore, held, installed, replaced, answers>>
    BY <1>5 DEF CasCurrent
  <2>2. /\ pc[t] = "stCas" /\ seen' = [seen EXCEPT ![t] = Nil]
        /\ UNCHANGED <<asked, refused>>
    BY <1>5 DEF CasCurrent
  <2> QED BY <2>1, <2>2 DEF Store, Answer
<1>6. ASSUME NEW t \in Tasks, Reread(t)
      PROVE  StInv'
  BY <1>6 DEF Reread, Answer
<1>7. ASSUME NEW t \in Tasks, NEW s \in minted, IsValid(t, s)
      PROVE  StInv'
  BY <1>7 DEF IsValid
<1>8. ASSUME NEW t \in Tasks, CheckSecret(t)
      PROVE  StInv'
  BY <1>8 DEF CheckSecret
<1>9. ASSUME ExpireSecret
      PROVE  StInv'
  BY <1>9 DEF ExpireSecret, Store, control
<1>10. ASSUME NEW t \in Tasks, StDropped(t)
       PROVE  StInv'
  BY <1>10 DEF StDropped, Dropped
<1>11. CASE UNCHANGED stVars
  BY <1>11 DEF stVars, control
<1> QED
  BY <1>1, <1>2, <1>3, <1>4, <1>5, <1>6, <1>7, <1>8, <1>9, <1>10, <1>11
  DEF StNext, StTask

\* However many refreshes race and break off, no caller is handed a secret that
\* was never the cluster's current one, and is_valid refuses no token that was
\* the current or the previous value from its call to its answer.
THEOREM SameTokenCorrect == StSpec => [](StTypeOK /\ SecretNotSplit /\ HeldIsAccepted)
<1>1. StInv => StTypeOK /\ SecretNotSplit /\ HeldIsAccepted
  BY DEF StInv, Known, SecretNotSplit, HeldIsAccepted
<1> QED BY StInitial, StStep, <1>1, PTL DEF StSpec

-----------------------------------------------------------------------------
(***************************************************************************)
(* The SSO server, for any number of requests, users, services and tickets.*)
(* Three parts make the invariant inductive: where a ticket is in its life,*)
(* which sessions are over, and who has yet to be told of a logout.        *)
(***************************************************************************)
Arguments == [user : Users, service : Services \cup {Nil},
              ticket : Tickets \cup {Nil}, via : Redeemers \cup {Nil}]

\* A call knows its user; one that works on a ticket knows whose it is.
Requested ==
  \A t \in Tasks :
    /\ pc[t] # "idle" => req[t] \in Arguments
    /\ pc[t] \in {"saveTicket"} \cup UpsertLabels => req[t].service \in Services
    /\ pc[t] \in {"saveTicket"} \cup RedeemLabels =>
         /\ req[t].ticket \in Issued
         /\ issuedTo[req[t].ticket].user = req[t].user
    /\ pc[t] \in RedeemLabels => req[t].via \in Redeemers

\* A ticket is saved by one call, once, and leaves the storage to be redeemed.
OneLife ==
  /\ \A k \in Tickets : redeemed[k] <= 1
  /\ \A k \in Tickets : k \in stored \/ k \notin Issued => redeemed[k] = 0
  /\ stored \subseteq Issued
  /\ \A t \in Tasks : pc[t] = "saveTicket" =>
       req[t].ticket \notin stored /\ redeemed[req[t].ticket] = 0
  /\ \A t, q \in Tasks :
       pc[t] = "saveTicket" /\ pc[q] = "saveTicket" /\ req[t].ticket = req[q].ticket
         => t = q

\* A void ticket's user has no session, so the server looks and finds none.
Ended ==
  /\ void \subseteq Issued
  /\ \A k \in void : session[issuedTo[k].user] = Nil
  /\ \A t \in Tasks : pc[t] \in RedeemLabels /\ barred[t] => session[req[t].user] = Nil
  /\ \A t \in Tasks : pc[t] = "consume" /\ req[t].via = "server" => ~barred[t]
  /\ SloEndsTickets

\* The services to tell are in the session until a logout holds the list.
Owed ==
  /\ ClientsKept
  /\ \A t \in Tasks : pc[t] = "listClients" => owed[t] \subseteq joined[req[t].user]
  /\ LogoutTellsAll

SsoInv == SsoTypeOK /\ Requested /\ OneLife /\ Ended /\ Owed

LEMMA RequestFacts ==
  /\ Nil \in Request /\ Arguments \subseteq Request
  /\ \A r \in Arguments : r.user \in Users /\ r.service \in Services \cup {Nil}
  /\ \A u \in Users, s \in Services \cup {Nil}, k \in Tickets \cup {Nil},
       v \in Redeemers \cup {Nil} :
       [user |-> u, service |-> s, ticket |-> k, via |-> v] \in Arguments
BY DEF Request, Arguments

\* A call that ends forgets its arguments.
LEMMA EndType ==
  ASSUME SsoTypeOK, NEW t \in Tasks, End(t)
  PROVE  /\ pc' \in [Tasks -> SsoLabels \cup {"idle"}] /\ calls' \in Nat
         /\ req' \in [Tasks -> Request]
         /\ read' \in [Tasks -> (SUBSET Services) \cup {Nil}]
         /\ tries' \in [Tasks -> Nat] /\ clients' \in [Tasks -> SUBSET Services]
<1>1. pc' \in [Tasks -> SsoLabels \cup {"idle"}] /\ calls' \in Nat
  BY DEF SsoTypeOK, End, Finish, Goto
<1>2. req' \in [Tasks -> Request]
  BY RequestFacts DEF SsoTypeOK, End, Clear
<1>3. read' \in [Tasks -> (SUBSET Services) \cup {Nil}]
  BY DEF SsoTypeOK, End, Clear
<1>4. tries' \in [Tasks -> Nat] /\ clients' \in [Tasks -> SUBSET Services]
  BY DEF SsoTypeOK, End, Clear
<1> QED BY <1>1, <1>2, <1>3, <1>4

LEMMA StartType ==
  ASSUME SsoTypeOK, NEW t \in Tasks, NEW l \in SsoLabels, NEW u \in Users,
         NEW s \in Services \cup {Nil}, NEW k \in Tickets \cup {Nil},
         NEW v \in Redeemers \cup {Nil}, Start(t, l, u, s, k, v)
  PROVE  /\ pc' \in [Tasks -> SsoLabels \cup {"idle"}] /\ calls' \in Nat
         /\ req' \in [Tasks -> Request] /\ barred' \in [Tasks -> BOOLEAN]
<1>1. pc' \in [Tasks -> SsoLabels \cup {"idle"}] /\ calls' \in Nat
  BY DEF SsoTypeOK, Start, Begin, Call
<1>2. req' \in [Tasks -> Request]
  BY RequestFacts DEF SsoTypeOK, Start
<1>3. barred' \in [Tasks -> BOOLEAN]
  BY DEF SsoTypeOK, Start
<1> QED BY <1>1, <1>2, <1>3

LEMMA SsoInitial == ControlInit /\ SsoInit => SsoInv
<1> SUFFICES ASSUME ControlInit, SsoInit PROVE SsoInv
  OBVIOUS
<1> USE SsoNil DEF ControlInit, SsoInit, Issued, ClientsOf
<1>1. SsoTypeOK
  <2>1. req \in [Tasks -> Request] /\ pc \in [Tasks -> SsoLabels \cup {"idle"}]
    BY RequestFacts
  <2>2. read \in [Tasks -> (SUBSET Services) \cup {Nil}] /\ calls \in Nat
    OBVIOUS
  <2>3. clients \in [Tasks -> SUBSET Services] /\ owed \in [Tasks -> SUBSET Services]
    OBVIOUS
  <2>4. joined \in [Users -> SUBSET Services]
    OBVIOUS
  <2>5. session \in [Users -> (SUBSET Services) \cup {Nil}]
    OBVIOUS
  <2> QED BY <2>1, <2>2, <2>3, <2>4, <2>5 DEF SsoTypeOK
<1>2. Requested /\ OneLife
  BY DEF Requested, OneLife, UpsertLabels, RedeemLabels
<1>3. Ended /\ Owed
  BY DEF Ended, Owed, ClientsKept, LogoutTellsAll, SloEndsTickets, RedeemLabels,
     EndLabels
<1> QED BY <1>1, <1>2, <1>3 DEF SsoInv

LEMMA SsoStep ==
  ASSUME SsoInv, [SsoNext]_ssoVars
  PROVE  SsoInv'
<1> USE SsoAssumption, SsoNil, RequestFacts
    DEF SsoInv, SsoLabels, UpsertLabels, RedeemLabels, EndLabels, Issued, ClientsOf,
        ssoStore, ssoHistory, ssoState, Begin, Call, Goto, Finish, control
<1>1. ASSUME NEW t \in Tasks, NEW u \in Users, LogoutWithSlo(t, u)
      PROVE  SsoInv'
  <2>1. SsoTypeOK'
    BY <1>1, StartType DEF LogoutWithSlo, Start, SsoTypeOK
  <2>2. Requested'
    BY ZenonT(30), <1>1, <2>1 DEF LogoutWithSlo, Start, Requested, SsoTypeOK
  <2>3. OneLife'
    BY <1>1, <2>1 DEF LogoutWithSlo, Start, OneLife, Requested, SsoTypeOK
  <2>4. Ended'
    BY <1>1, <2>1 DEF LogoutWithSlo, Start, Ended, SloEndsTickets, Requested, SsoTypeOK
  <2>5. Owed'
    BY <1>1, <2>1 DEF LogoutWithSlo, Start, Owed, ClientsKept, LogoutTellsAll,
       Requested, SsoTypeOK
  <2> QED BY <2>1, <2>2, <2>3, <2>4, <2>5
<1>2. ASSUME NEW t \in Tasks, NEW u \in Users, NEW s \in Services,
             NEW k \in Tickets, CreateTicket(t, u, s, k)
      PROVE  SsoInv'
  <2>1. SsoTypeOK'
    <3>1. Start(t, "saveTicket", u, s, k, Nil) /\ "saveTicket" \in SsoLabels
      BY <1>2 DEF CreateTicket
    <3>2. UNCHANGED <<read, tries, clients>>
      BY <3>1 DEF Start
    <3>3. issuedTo' \in [Tickets -> [user : Users, service : Services] \cup {Nil}]
      BY <1>2 DEF CreateTicket, SsoTypeOK
    <3> HIDE DEF SsoLabels
    <3>4. /\ pc' \in [Tasks -> SsoLabels \cup {"idle"}] /\ calls' \in Nat
          /\ req' \in [Tasks -> Request] /\ barred' \in [Tasks -> BOOLEAN]
      BY <3>1, StartType
    <3> QED BY <1>2, <3>2, <3>3, <3>4 DEF CreateTicket, SsoTypeOK
  <2>2. Requested'
    BY <1>2, <2>1 DEF CreateTicket, Start, Requested, SsoTypeOK
  <2>3. OneLife'
    BY <1>2, <2>1 DEF CreateTicket, Start, OneLife, Requested, SsoTypeOK
  <2>4. Ended'
    BY <1>2, <2>1 DEF CreateTicket, Start, Ended, SloEndsTickets, Requested, SsoTypeOK
  <2>5. Owed'
    BY <1>2, <2>1 DEF CreateTicket, Start, Owed, ClientsKept, LogoutTellsAll,
       Requested, SsoTypeOK
  <2> QED BY <2>1, <2>2, <2>3, <2>4, <2>5
<1>3. ASSUME NEW t \in Tasks, NEW k \in Tickets, NEW s \in Services,
             NEW v \in Redeemers, Redeem(t, k, s, v)
      PROVE  SsoInv'
  <2>1. SsoTypeOK'
    <3>1. issuedTo[k].user \in Users
      BY <1>3 DEF Redeem, SsoTypeOK
    <3>2. PICK l \in SsoLabels : Start(t, l, issuedTo[k].user, s, k, v)
      BY <1>3 DEF Redeem
    <3>3. UNCHANGED <<read, tries, clients>>
      BY <3>2 DEF Start
    <3> HIDE DEF SsoLabels
    <3>4. /\ pc' \in [Tasks -> SsoLabels \cup {"idle"}] /\ calls' \in Nat
          /\ req' \in [Tasks -> Request] /\ barred' \in [Tasks -> BOOLEAN]
      BY <3>1, <3>2, StartType
    <3> QED BY <1>3, <3>3, <3>4 DEF Redeem, SsoTypeOK
  <2>2. Requested'
    BY <1>3, <2>1 DEF Redeem, Start, Requested, SsoTypeOK
  <2>3. OneLife'
    BY <1>3, <2>1 DEF Redeem, Start, OneLife, Requested, SsoTypeOK
  <2>4. Ended'
    BY ZenonT(30), <1>3, <2>1 DEF Redeem, Start, Ended, SloEndsTickets, Requested,
       SsoTypeOK
  <2>5. Owed'
    BY <1>3, <2>1 DEF Redeem, Start, Owed, ClientsKept, LogoutTellsAll, Requested,
       SsoTypeOK
  <2> QED BY <2>1, <2>2, <2>3, <2>4, <2>5
<1>4. ASSUME NEW t \in Tasks, SaveTicket(t)
      PROVE  SsoInv'
  <2>1. SsoTypeOK'
    BY <1>4 DEF SaveTicket, SsoTypeOK, Requested, Arguments
  <2>2. Requested'
    BY <1>4, <2>1 DEF SaveTicket, Requested, SsoTypeOK
  <2>3. OneLife'
    BY <1>4, <2>1 DEF SaveTicket, OneLife, Requested, SsoTypeOK
  <2>4. Ended'
    BY <1>4, <2>1 DEF SaveTicket, Ended, SloEndsTickets, Requested, SsoTypeOK
  <2>5. Owed'
    BY <1>4, <2>1 DEF SaveTicket, Owed, ClientsKept, LogoutTellsAll, Requested,
       SsoTypeOK
  <2> QED BY <2>1, <2>2, <2>3, <2>4, <2>5
<1>5. ASSUME NEW t \in Tasks, ReadSession(t)
      PROVE  SsoInv'
  <2>1. SsoTypeOK'
    BY <1>5 DEF ReadSession, SsoTypeOK, Requested, Arguments
  <2>2. Requested'
    BY <1>5, <2>1 DEF ReadSession, Requested, SsoTypeOK
  <2>3. OneLife'
    BY <1>5, <2>1 DEF ReadSession, OneLife, Requested, SsoTypeOK
  <2>4. Ended'
    BY <1>5, <2>1 DEF ReadSession, Ended, SloEndsTickets, Requested, SsoTypeOK
  <2>5. Owed'
    BY <1>5, <2>1 DEF ReadSession, Owed, ClientsKept, LogoutTellsAll, Requested,
       SsoTypeOK
  <2> QED BY <2>1, <2>2, <2>3, <2>4, <2>5
<1>6. ASSUME NEW t \in Tasks, CasSession(t)
      PROVE  SsoInv'
  <2>1. SsoTypeOK'
    <3>1. CASE End(t)
      <4>1. req[t].user \in Users /\ req[t].service \in Services
        BY <1>6 DEF CasSession, Requested, Arguments
      <4>2. CASE UNCHANGED <<session, joined, void, barred>>
        BY <1>6, <3>1, <4>2, EndType DEF CasSession, SsoTypeOK
      <4>3. CASE \E c \in SUBSET Services : Joins(req[t].user, req[t].service, c)
        <5>1. PICK c \in SUBSET Services : Joins(req[t].user, req[t].service, c)
          BY <4>3
        <5>2. session' \in [Users -> (SUBSET Services) \cup {Nil}]
          BY <4>1, <5>1 DEF Joins, SsoTypeOK
        <5>3. joined' \in [Users -> SUBSET Services] /\ void' \subseteq Tickets
          BY <4>1, <5>1 DEF Joins, SsoTypeOK
        <5>4. barred' \in [Tasks -> BOOLEAN]
          BY <5>1 DEF Joins, SsoTypeOK
        <5> QED BY <1>6, <3>1, <5>2, <5>3, <5>4, EndType DEF CasSession, SsoTypeOK
      <4> QED BY <1>6, <4>1, <4>2, <4>3 DEF CasSession, SsoTypeOK
    <3>2. CASE ~End(t)
      BY <1>6, <3>2 DEF CasSession, Joins, TicketsOf, SsoTypeOK
    <3> QED BY <3>1, <3>2
  <2>2. Requested'
    <3>1. CASE End(t)
      BY <1>6, <2>1, <3>1 DEF CasSession, Joins, TicketsOf, Requested, SsoTypeOK,
         End, Clear
    <3>2. CASE ~End(t)
      BY <1>6, <2>1, <3>2 DEF CasSession, Joins, TicketsOf, Requested, SsoTypeOK
    <3> QED BY <3>1, <3>2
  <2>3. OneLife'
    <3>1. CASE End(t)
      BY <1>6, <2>1, <3>1 DEF CasSession, Joins, TicketsOf, OneLife, Requested,
         SsoTypeOK, End, Clear
    <3>2. CASE ~End(t)
      BY <1>6, <2>1, <3>2 DEF CasSession, Joins, TicketsOf, OneLife, Requested,
         SsoTypeOK
    <3> QED BY <3>1, <3>2
  <2>4. Ended'
    <3>1. CASE End(t)
      BY <1>6, <2>1, <3>1 DEF CasSession, Joins, TicketsOf, Ended, SloEndsTickets,
         Requested, SsoTypeOK, End, Clear
    <3>2. CASE ~End(t)
      BY <1>6, <2>1, <3>2 DEF CasSession, Joins, TicketsOf, Ended, SloEndsTickets,
         Requested, SsoTypeOK
    <3> QED BY <3>1, <3>2
  <2>5. Owed'
    <3>1. CASE End(t)
      <4> DEFINE u == req[t].user
                 s == req[t].service
      <4>0. u \in Users /\ s \in Services
        BY <1>6 DEF CasSession, Requested, Arguments
      <4>1. ClientsKept' /\ joined[u] \subseteq joined'[u]
            /\ \A v \in Users \ {u} : joined'[v] = joined[v]
        <5>1. CASE UNCHANGED <<session, joined>>
          BY <5>1 DEF Owed, ClientsKept
        <5>2. CASE session[u] = read[t]
                   /\ Joins(u, s, (IF read[t] = Nil THEN {} ELSE read[t]) \cup {s})
          <6> DEFINE c == ClientsOf(u) \cup {s}
          <6>1. session' = [session EXCEPT ![u] = c]
                /\ joined' = [joined EXCEPT ![u] = @ \cup {s}]
            BY <5>2 DEF Joins
          <6>2. c \in SUBSET Services /\ c # Nil
            BY <4>0 DEF SsoTypeOK
          <6> QED BY <4>0, <6>1, <6>2 DEF Owed, ClientsKept, SsoTypeOK
        <5> QED BY <1>6, <5>1, <5>2 DEF CasSession
      <4>2. /\ pc' = [pc EXCEPT ![t] = "idle"] /\ req' = [req EXCEPT ![t] = Nil]
            /\ clients' = [clients EXCEPT ![t] = {}] /\ UNCHANGED owed
        BY <1>6, <3>1 DEF CasSession, End, Clear
      <4>3. \A q \in Tasks \ {t} : pc[q] = "listClients" => req[q].user \in Users
        BY DEF Requested, Arguments
      <4> QED BY <4>1, <4>2, <4>3 DEF Owed, LogoutTellsAll, SsoTypeOK
    <3>2. CASE ~End(t)
      BY <1>6, <2>1, <3>2 DEF CasSession, Joins, TicketsOf, Owed, ClientsKept,
         LogoutTellsAll, Requested, SsoTypeOK
    <3> QED BY <3>1, <3>2
  <2> QED BY <2>1, <2>2, <2>3, <2>4, <2>5
<1>7. ASSUME NEW t \in Tasks, Preview(t)
      PROVE  SsoInv'
  <2>1. SsoTypeOK'
    <3>1. CASE End(t)
      BY <1>7, <3>1, EndType DEF Preview, SsoTypeOK, Requested, Arguments
    <3>2. CASE ~End(t)
      BY <1>7, <3>2 DEF Preview, SsoTypeOK
    <3> QED BY <3>1, <3>2
  <2>2. Requested'
    <3>1. CASE End(t)
      BY <1>7, <2>1, <3>1 DEF Preview, Requested, SsoTypeOK, End, Clear
    <3>2. CASE ~End(t)
      BY <1>7, <2>1, <3>2 DEF Preview, Requested, SsoTypeOK
    <3> QED BY <3>1, <3>2
  <2>3. OneLife'
    <3>1. CASE End(t)
      BY <1>7, <2>1, <3>1 DEF Preview, OneLife, Requested, SsoTypeOK, End, Clear
    <3>2. CASE ~End(t)
      BY <1>7, <2>1, <3>2 DEF Preview, OneLife, Requested, SsoTypeOK
    <3> QED BY <3>1, <3>2
  <2>4. Ended'
    <3>1. CASE End(t)
      BY <1>7, <2>1, <3>1 DEF Preview, Ended, SloEndsTickets, Requested,
         SsoTypeOK, End, Clear
    <3>2. CASE ~End(t)
      BY <1>7, <2>1, <3>2 DEF Preview, Ended, SloEndsTickets, Requested, SsoTypeOK
    <3> QED BY <3>1, <3>2
  <2>5. Owed'
    <3>1. /\ pc[t] = "preview" /\ pc'[t] \notin EndLabels
          /\ \A q \in Tasks \ {t} : pc'[q] = pc[q] /\ req'[q] = req[q]
                                     /\ clients'[q] = clients[q]
          /\ UNCHANGED <<ssoStore, ssoHistory>>
      BY <1>7 DEF Preview, End, Clear, SsoTypeOK
    <3> QED BY <3>1 DEF Owed, ClientsKept, LogoutTellsAll
  <2> QED BY <2>1, <2>2, <2>3, <2>4, <2>5
<1>8. ASSUME NEW t \in Tasks, CheckSession(t)
      PROVE  SsoInv'
  <2>1. SsoTypeOK'
    <3>1. CASE End(t)
      BY <1>8, <3>1, EndType DEF CheckSession, SsoTypeOK, Requested, Arguments
    <3>2. CASE ~End(t)
      BY <1>8, <3>2 DEF CheckSession, SsoTypeOK
    <3> QED BY <3>1, <3>2
  <2>2. Requested'
    <3>1. CASE End(t)
      BY <1>8, <2>1, <3>1 DEF CheckSession, Requested, SsoTypeOK, End, Clear
    <3>2. CASE ~End(t)
      BY <1>8, <2>1, <3>2 DEF CheckSession, Requested, SsoTypeOK
    <3> QED BY <3>1, <3>2
  <2>3. OneLife'
    <3>1. CASE End(t)
      BY <1>8, <2>1, <3>1 DEF CheckSession, OneLife, Requested, SsoTypeOK, End, Clear
    <3>2. CASE ~End(t)
      BY <1>8, <2>1, <3>2 DEF CheckSession, OneLife, Requested, SsoTypeOK
    <3> QED BY <3>1, <3>2
  <2>4. Ended'
    <3>1. CASE End(t)
      BY <1>8, <2>1, <3>1 DEF CheckSession, Ended, SloEndsTickets, Requested,
         SsoTypeOK, End, Clear
    <3>2. CASE ~End(t)
      BY <1>8, <2>1, <3>2 DEF CheckSession, Ended, SloEndsTickets, Requested, SsoTypeOK
    <3> QED BY <3>1, <3>2
  <2>5. Owed'
    <3>1. CASE End(t)
      BY <1>8, <2>1, <3>1 DEF CheckSession, Owed, ClientsKept, LogoutTellsAll,
         Requested, SsoTypeOK, End, Clear
    <3>2. CASE ~End(t)
      <4>1. UNCHANGED <<session, joined, clients, owed, req>> /\ pc[t] = "checkSession"
        BY <1>8, <3>2 DEF CheckSession
      <4>2. pc' = [pc EXCEPT ![t] = "consume"]
        BY <1>8, <3>2 DEF CheckSession
      <4> QED BY <4>1, <4>2 DEF Owed, ClientsKept, LogoutTellsAll, SsoTypeOK
    <3> QED BY <3>1, <3>2
  <2> QED BY <2>1, <2>2, <2>3, <2>4, <2>5
<1>9. ASSUME NEW t \in Tasks, Consume(t)
      PROVE  SsoInv'
  <2>1. SsoTypeOK'
    <3>1. CASE End(t)
      <4>1. req[t].ticket \in Tickets /\ req[t].via \in Redeemers
        BY <1>9 DEF Consume, Requested
      <4>2. stored' \subseteq Tickets /\ redeemed' \in [Tickets -> Nat]
        BY <1>9, <4>1 DEF Consume, Redeemed, SsoTypeOK
      <4>3. afterSlo' \subseteq Tickets \X Redeemers
        BY <1>9, <4>1 DEF Consume, Redeemed, SsoTypeOK
      <4> QED BY <1>9, <3>1, <4>2, <4>3, EndType DEF Consume, SsoTypeOK
    <3> QED BY <1>9, <3>1 DEF Consume, Redeemed, End
  <2>2. Requested'
    BY <1>9, <2>1 DEF Consume, Redeemed, Requested, SsoTypeOK, End, Clear
  <2>3. OneLife'
    BY <1>9, <2>1 DEF Consume, Redeemed, OneLife, Requested, SsoTypeOK, End, Clear
  <2>4. Ended'
    BY <1>9, <2>1 DEF Consume, Redeemed, Ended, SloEndsTickets, Requested,
       SsoTypeOK, End, Clear
  <2>5. Owed'
    BY <1>9, <2>1 DEF Consume, Redeemed, Owed, ClientsKept, LogoutTellsAll,
       Requested, SsoTypeOK, End, Clear
  <2> QED BY <2>1, <2>2, <2>3, <2>4, <2>5
<1>10. ASSUME NEW t \in Tasks, ListClients(t)
      PROVE  SsoInv'
  <2>1. SsoTypeOK'
    BY <1>10 DEF ListClients, SsoTypeOK, Requested, Arguments
  <2>2. Requested'
    BY <1>10, <2>1 DEF ListClients, Requested, SsoTypeOK
  <2>3. OneLife'
    BY <1>10, <2>1 DEF ListClients, OneLife, Requested, SsoTypeOK
  <2>4. Ended'
    BY <1>10, <2>1 DEF ListClients, Ended, SloEndsTickets, Requested, SsoTypeOK
  <2>5. Owed'
    BY <1>10, <2>1 DEF ListClients, Owed, ClientsKept, LogoutTellsAll, Requested,
       SsoTypeOK
  <2> QED BY <2>1, <2>2, <2>3, <2>4, <2>5
<1>11. ASSUME NEW t \in Tasks, RemoveSession(t)
      PROVE  SsoInv'
  <2>1. SsoTypeOK'
    BY <1>11 DEF RemoveSession, TicketsOf, SsoTypeOK, Requested, Arguments
  <2>2. Requested'
    BY <1>11, <2>1 DEF RemoveSession, TicketsOf, Requested, SsoTypeOK
  <2>3. OneLife'
    BY <1>11, <2>1 DEF RemoveSession, TicketsOf, OneLife, Requested, SsoTypeOK
  <2>4. Ended'
    BY <1>11, <2>1 DEF RemoveSession, TicketsOf, Ended, SloEndsTickets, Requested,
       SsoTypeOK
  <2>5. Owed'
    BY <1>11, <2>1 DEF RemoveSession, TicketsOf, Owed, ClientsKept, LogoutTellsAll,
       Requested, SsoTypeOK
  <2> QED BY <2>1, <2>2, <2>3, <2>4, <2>5
<1>12. ASSUME NEW t \in Tasks, EndTokens(t)
      PROVE  SsoInv'
  <2>1. SsoTypeOK'
    BY <1>12 DEF EndTokens, SsoTypeOK
  <2>2. Requested'
    BY <1>12, <2>1 DEF EndTokens, Requested, SsoTypeOK
  <2>3. OneLife'
    BY <1>12, <2>1 DEF EndTokens, OneLife, Requested, SsoTypeOK
  <2>4. Ended'
    BY <1>12, <2>1 DEF EndTokens, Ended, SloEndsTickets, Requested, SsoTypeOK
  <2>5. Owed'
    BY <1>12, <2>1 DEF EndTokens, Owed, ClientsKept, LogoutTellsAll, Requested,
       SsoTypeOK
  <2> QED BY <2>1, <2>2, <2>3, <2>4, <2>5
<1>13. ASSUME NEW t \in Tasks, LogoutDone(t)
      PROVE  SsoInv'
  <2>1. SsoTypeOK'
    <3>1. CASE End(t)
      BY <1>13, <3>1, EndType DEF LogoutDone, SsoTypeOK, Requested, Arguments
    <3> QED BY <1>13, <3>1 DEF LogoutDone, End
  <2>2. Requested'
    BY <1>13, <2>1 DEF LogoutDone, Requested, SsoTypeOK, End, Clear
  <2>3. OneLife'
    BY <1>13, <2>1 DEF LogoutDone, OneLife, Requested, SsoTypeOK, End, Clear
  <2>4. Ended'
    BY <1>13, <2>1 DEF LogoutDone, Ended, SloEndsTickets, Requested, SsoTypeOK, End,
       Clear
  <2>5. Owed'
    BY <1>13, <2>1 DEF LogoutDone, Owed, ClientsKept, LogoutTellsAll, Requested,
       SsoTypeOK, End, Clear
  <2> QED BY <2>1, <2>2, <2>3, <2>4, <2>5
<1>14. ASSUME NEW t \in Tasks, SsoDropped(t)
      PROVE  SsoInv'
  <2>1. SsoTypeOK'
    <3>1. CASE End(t)
      BY <1>14, <3>1, EndType DEF SsoDropped, Dropped, SsoTypeOK, Requested, Arguments
    <3> QED BY <1>14, <3>1 DEF SsoDropped, Dropped, End
  <2>2. Requested'
    BY <1>14, <2>1 DEF SsoDropped, Dropped, Requested, SsoTypeOK, End, Clear
  <2>3. OneLife'
    BY <1>14, <2>1 DEF SsoDropped, Dropped, OneLife, Requested, SsoTypeOK, End, Clear
  <2>4. Ended'
    BY <1>14, <2>1 DEF SsoDropped, Dropped, Ended, SloEndsTickets, Requested,
       SsoTypeOK, End, Clear
  <2>5. Owed'
    BY <1>14, <2>1 DEF SsoDropped, Dropped, Owed, ClientsKept, LogoutTellsAll,
       Requested, SsoTypeOK, End, Clear
  <2> QED BY <2>1, <2>2, <2>3, <2>4, <2>5
<1>15. ASSUME NEW t \in Tasks, NEW s \in Services, NotifyLogout(t, s)
      PROVE  SsoInv'
  <2>1. SsoTypeOK'
    BY <1>15 DEF NotifyLogout, SsoTypeOK
  <2>2. Requested'
    BY <1>15, <2>1 DEF NotifyLogout, Requested, SsoTypeOK
  <2>3. OneLife'
    BY <1>15, <2>1 DEF NotifyLogout, OneLife, Requested, SsoTypeOK
  <2>4. Ended'
    BY <1>15, <2>1 DEF NotifyLogout, Ended, SloEndsTickets, Requested, SsoTypeOK
  <2>5. Owed'
    BY <1>15, <2>1 DEF NotifyLogout, Owed, ClientsKept, LogoutTellsAll, Requested,
       SsoTypeOK
  <2> QED BY <2>1, <2>2, <2>3, <2>4, <2>5
<1>16. ASSUME NEW k \in Tickets, ExpireTicket(k)
      PROVE  SsoInv'
  <2>1. SsoTypeOK'
    BY <1>16 DEF ExpireTicket, SsoTypeOK
  <2>2. Requested'
    BY <1>16, <2>1 DEF ExpireTicket, Requested, SsoTypeOK
  <2>3. OneLife'
    BY <1>16, <2>1 DEF ExpireTicket, OneLife, Requested, SsoTypeOK
  <2>4. Ended'
    BY <1>16, <2>1 DEF ExpireTicket, Ended, SloEndsTickets, Requested, SsoTypeOK
  <2>5. Owed'
    BY <1>16, <2>1 DEF ExpireTicket, Owed, ClientsKept, LogoutTellsAll, Requested,
       SsoTypeOK
  <2> QED BY <2>1, <2>2, <2>3, <2>4, <2>5
<1>17. CASE UNCHANGED ssoVars
  BY <1>17 DEF ssoVars, SsoTypeOK, Requested, OneLife, Ended, Owed, ClientsKept,
     LogoutTellsAll, SloEndsTickets
<1> QED
  BY <1>1, <1>2, <1>3, <1>4, <1>5, <1>6, <1>7, <1>8, <1>9, <1>10, <1>11, <1>12, <1>13,
     <1>14, <1>15, <1>16, <1>17
  DEF SsoNext, SsoTask

\* However many requests race, fail and break off: a ticket is redeemed at most
\* once, the server redeems none of an ended session, and a logout that runs to
\* its end tells every service that had joined when it began.
THEOREM SsoCorrect ==
  SsoSpec => [](SsoTypeOK /\ TicketOnce /\ SloEndsTickets /\ LogoutTellsAll)
<1>1. SsoInv => SsoTypeOK /\ TicketOnce /\ SloEndsTickets /\ LogoutTellsAll
  BY DEF SsoInv, OneLife, Ended, Owed, TicketOnce
<1> QED BY SsoInitial, SsoStep, <1>1, PTL DEF SsoSpec

-----------------------------------------------------------------------------
(***************************************************************************)
(* The OAuth2 server, for any number of requests, clients, codes and       *)
(* tokens: a grant has one credential that can become tokens, and one live *)
(* access token.                                                           *)
(***************************************************************************)
\* What a call holds at each label: new tokens and old ones are of one grant.
Working ==
  \A t \in Tasks :
    /\ pc[t] \in {"idle", "consumeCode"} => new[t] = Nil /\ old[t] = Nil
    /\ pc[t] = "consumeCode" => form[t] \in Form
    /\ pc[t] = "takeRefresh" => new[t] = Nil
    /\ pc[t] \in Writing \cup {"deleteOld"} => new[t] \in Ids
    /\ pc[t] \in {"takeRefresh", "deleteOld", "writeBack"} => old[t] \in Ids
    /\ new[t] \in Ids => grant[new[t]] # Nil
    /\ old[t] \in Ids => grant[old[t]] # Nil
    /\ new[t] \in Ids /\ old[t] \in Ids => grant[new[t]] = grant[old[t]]

\* A stored token descends from a grant; a code that is not yet used, and a
\* token that is not yet generated, have no descendants.
Granted ==
  /\ \A n \in access \cup refresh \cup answered : grant[n] # Nil
  /\ \A n \in Ids : grant[n] \in Ids => grant[grant[n]] = grant[n]
  /\ \A k \in Codes : k \notin coded => code[k] = Nil
  /\ \A k \in Codes : k \notin coded \/ code[k] # Nil => \A n \in Ids : grant[n] # k

\* No two tokens of grant g are stored that do not belong together.
Paired(g) ==
  /\ \A m, n \in access : grant[m] = g /\ grant[n] = g => m = n
  /\ \A m \in access, n \in refresh : grant[m] = g /\ grant[n] = g => m = n

AccessOf(g) == {n \in access : grant[n] = g}

Touches(t, g) ==
  \/ new[t] \in Ids /\ grant[new[t]] = g
  \/ old[t] \in Ids /\ grant[old[t]] = g

\* On an undisturbed grant one call works at a time; between calls its tokens
\* belong together, and during one the access tokens are its old and new one.
Alone(g) == \A t, q \in Tasks : Touches(t, g) /\ Touches(q, g) => t = q
Rested(g) == (\A t \in Tasks : ~Touches(t, g)) => Paired(g)
Worked(g) ==
  \A t \in Tasks : Touches(t, g) =>
    /\ pc[t] = "takeRefresh" => Paired(g)
    /\ pc[t] \in {"saveAccess", "writeBack"} => AccessOf(g) \subseteq {old[t]}
    /\ pc[t] = "saveRefresh" => AccessOf(g) \subseteq {old[t], new[t]}
    /\ pc[t] = "deleteOld" =>
         /\ AccessOf(g) \subseteq {old[t], new[t]}
         /\ \A n \in refresh : grant[n] = g => n = new[t]

Undisturbed == \A g \in Grants \ disturbed : Alone(g) /\ Rested(g) /\ Worked(g)

OaInv == OaTypeOK /\ Working /\ Granted /\ OneRefreshPerGrant /\ Undisturbed

LEMMA OnIs ==
  ASSUME OaTypeOK
  PROVE  \A t \in Tasks : \A g : g \in On(t) <=> Touches(t, g)
BY OAuthAssumption DEF OaTypeOK, On, Touches

LEMMA OnGrants ==
  ASSUME OaTypeOK, Working
  PROVE  \A t \in Tasks : On(t) \subseteq Grants
BY OAuthAssumption DEF OaTypeOK, On, Working, Grants

LEMMA OaInitial == ControlInit /\ OaInit => OaInv
<1> SUFFICES ASSUME ControlInit, OaInit PROVE OaInv
  OBVIOUS
<1> USE OAuthAssumption DEF ControlInit, OaInit
<1>1. OaTypeOK
  BY DEF OaTypeOK
<1>2. Working /\ Granted
  BY DEF Working, Granted, Writing
<1>3. OneRefreshPerGrant /\ Undisturbed
  BY DEF OneRefreshPerGrant, Undisturbed, Alone, Rested, Worked, Holds, Writing,
     Touches, Paired, AccessOf, Grants
<1> QED BY <1>1, <1>2, <1>3 DEF OaInv

LEMMA OaStep ==
  ASSUME OaInv, [OaNext]_oaVars
  PROVE  OaInv'
<1> USE OAuthAssumption, OAuthNil
    DEF OaInv, oaStore, oaHistory, oaState, Begin, Call, Goto, Finish, control, Rotating,
        Writing
<1>1. ASSUME NEW t \in Tasks, NEW c \in Clients, NEW k \in Codes,
             NEW uri \in BOOLEAN, NEW v \in {"none", "right", "wrong"},
             Exchange(t, c, k, uri, v)
      PROVE  OaInv'
  <2>1. OaTypeOK'
    BY <1>1 DEF Exchange, Form, OaTypeOK, Working, Granted, Grants
  <2>2. Working'
    BY <1>1, <2>1 DEF Exchange, Form, Working, Granted, OaTypeOK
  <2>3. Granted'
    BY <1>1, <2>1 DEF Exchange, Form, Granted, Working, OaTypeOK, Grants
  <2>4. OneRefreshPerGrant'
    BY <1>1, <2>1 DEF Exchange, Form, OneRefreshPerGrant, Holds, Granted, Working,
       OaTypeOK, Grants
  <2>5. Undisturbed'
    BY <1>1, <2>1 DEF Exchange, Form, Undisturbed, Alone, Rested, Worked, Touches,
       Paired, AccessOf, OneRefreshPerGrant, Holds, Granted, Working, OaTypeOK,
       Grants
  <2> QED BY <2>1, <2>2, <2>3, <2>4, <2>5
<1>2. ASSUME NEW t \in Tasks, NEW c \in Clients, NEW n \in Ids,
             NEW kind \in {"password", "client_credentials"}, DirectGrant(t, c, kind, n)
      PROVE  OaInv'
  <2>1. OaTypeOK'
    BY <1>2 DEF DirectGrant, Generate, OaTypeOK, Working, Granted, Grants
  <2>2. Working'
    BY <1>2, <2>1 DEF DirectGrant, Generate, Working, Granted, OaTypeOK
  <2>3. Granted'
    BY <1>2, <2>1 DEF DirectGrant, Generate, Granted, Working, OaTypeOK, Grants
  <2>4. OneRefreshPerGrant'
    BY <1>2, <2>1 DEF DirectGrant, Generate, OneRefreshPerGrant, Holds, Granted,
       Working, OaTypeOK, Grants
  <2>5. Undisturbed'
    <3> SUFFICES ASSUME NEW g \in Grants \ disturbed'
                 PROVE  Alone(g)' /\ Rested(g)' /\ Worked(g)'
      BY DEF Undisturbed
    <3>1. Alone(g) /\ Rested(g) /\ Worked(g)
      BY <1>2, <2>1 DEF DirectGrant, Generate, Undisturbed
    <3>2. Alone(g)'
      BY <1>2, <2>1, <3>1 DEF DirectGrant, Generate, Alone, Alone, Touches,
         Working, Granted, OaTypeOK
    <3>3. Rested(g)'
      BY <1>2, <2>1, <3>1 DEF DirectGrant, Generate, Alone, Rested, Touches,
         Paired, AccessOf, OneRefreshPerGrant, Holds, Grants, Worked, Working,
         Granted, OaTypeOK
    <3>4. Worked(g)'
      BY <1>2, <2>1, <3>1 DEF DirectGrant, Generate, Alone, Worked, Touches,
         Paired, AccessOf, OneRefreshPerGrant, Holds, Grants, Working, Granted,
         OaTypeOK
    <3> QED BY <3>2, <3>3, <3>4
  <2> QED BY <2>1, <2>2, <2>3, <2>4, <2>5
<1>3. ASSUME NEW t \in Tasks, NEW c \in Clients, NEW n \in Ids, RefreshGrant(t, c, n)
      PROVE  OaInv'
  <2>1. OaTypeOK'
    BY <1>3, OnIs, OnGrants DEF RefreshGrant, Overlapped, OaTypeOK, Working,
       Granted, Grants
  <2>2. Working'
    BY <1>3, <2>1, OnIs, OnGrants DEF RefreshGrant, Overlapped, Working, Granted,
       OaTypeOK
  <2>3. Granted'
    BY <1>3, <2>1, OnIs, OnGrants DEF RefreshGrant, Overlapped, Granted, Working,
       OaTypeOK, Grants
  <2>4. OneRefreshPerGrant'
    BY <1>3, <2>1, OnIs, OnGrants DEF RefreshGrant, Overlapped, OneRefreshPerGrant,
       Holds, Granted, Working, OaTypeOK, Grants
  <2>5. Undisturbed'
    BY <1>3, <2>1, OnIs, OnGrants DEF RefreshGrant, Overlapped, Undisturbed, Alone,
       Rested, Worked, Touches, Paired, AccessOf, OneRefreshPerGrant, Holds,
       Granted, Working, OaTypeOK, Grants
  <2> QED BY <2>1, <2>2, <2>3, <2>4, <2>5
<1>4. ASSUME NEW t \in Tasks, ConsumeCode(t)
      PROVE  OaInv'
  <2>1. OaTypeOK'
    <3>1. CASE OaEnd(t) /\ UNCHANGED <<owner, grant>>
      BY <1>4, <3>1 DEF ConsumeCode, OaEnd, Form, Working, Granted, OaTypeOK, Grants
    <3>2. CASE /\ code[form[t].code] # Nil
               /\ Goto(t, "saveAccess")
               /\ UNCHANGED <<form, old>>
               /\ \E n \in Ids : Generate(t, n, form[t].code, form[t].client)
      <4>1. PICK n \in Ids : Generate(t, n, form[t].code, form[t].client)
        BY <3>2
      <4>2. form[t].code \in Codes /\ form[t].client \in Clients
        BY <1>4 DEF ConsumeCode, Working, Form
      <4> QED BY <1>4, <3>2, <4>1, <4>2 DEF ConsumeCode, Generate, Working, Granted,
            OaTypeOK, Grants
    <3> QED BY <1>4, <3>1, <3>2 DEF ConsumeCode
  <2>2. Working'
    BY <1>4, <2>1 DEF ConsumeCode, Generate, Form, OaEnd, Working, Granted, OaTypeOK
  <2>3. Granted'
    BY <1>4, <2>1 DEF ConsumeCode, Generate, Form, OaEnd, Granted, Working,
       OaTypeOK, Grants
  <2>4. OneRefreshPerGrant'
    <3>1. CASE OaEnd(t) /\ UNCHANGED <<owner, grant>>
      BY <1>4, <3>1, <2>1 DEF ConsumeCode, OaEnd, Form, OneRefreshPerGrant, Holds,
         Working, Granted, OaTypeOK, Grants
    <3>2. CASE /\ code[form[t].code] # Nil
               /\ Goto(t, "saveAccess")
               /\ UNCHANGED <<form, old>>
               /\ \E n \in Ids : Generate(t, n, form[t].code, form[t].client)
      <4>1. PICK n \in Ids : Generate(t, n, form[t].code, form[t].client)
        BY <3>2
      <4>2. form[t].code \in Codes /\ form[t].client \in Clients
        BY <1>4 DEF ConsumeCode, Working, Form
      <4> QED BY <1>4, <3>2, <4>1, <4>2, <2>1 DEF ConsumeCode, Generate,
            OneRefreshPerGrant, Holds, Working, Granted, OaTypeOK, Grants
    <3> QED BY <1>4, <3>1, <3>2 DEF ConsumeCode
  <2>5. Undisturbed'
    <3>1. CASE OaEnd(t) /\ UNCHANGED <<owner, grant>>
      <4> SUFFICES ASSUME NEW g \in Grants \ disturbed'
                   PROVE  Alone(g)' /\ Rested(g)' /\ Worked(g)'
        BY DEF Undisturbed
      <4>1. Alone(g) /\ Rested(g) /\ Worked(g)
        BY <1>4, <3>1, <2>1 DEF ConsumeCode, OaEnd, Undisturbed
      <4>2. Alone(g)'
        BY <1>4, <3>1, <2>1, <4>1 DEF ConsumeCode, OaEnd, Alone, Alone, Touches,
           Working, Granted, OaTypeOK
      <4>3. Rested(g)'
        BY <1>4, <3>1, <2>1, <4>1 DEF ConsumeCode, OaEnd, Alone, Rested,
           Touches, Paired, AccessOf, OneRefreshPerGrant, Holds, Grants, Worked,
           Working, Granted, OaTypeOK
      <4>4. Worked(g)'
        BY <1>4, <3>1, <2>1, <4>1 DEF ConsumeCode, OaEnd, Alone, Worked,
           Touches, Paired, AccessOf, OneRefreshPerGrant, Holds, Grants,
           Working, Granted, OaTypeOK
      <4> QED BY <4>2, <4>3, <4>4
    <3>2. CASE /\ code[form[t].code] # Nil
               /\ Goto(t, "saveAccess")
               /\ UNCHANGED <<form, old>>
               /\ \E n \in Ids : Generate(t, n, form[t].code, form[t].client)
      <4>8. PICK n \in Ids : Generate(t, n, form[t].code, form[t].client)
        BY <3>2
      <4>9. form[t].code \in Codes /\ form[t].client \in Clients
        BY <1>4 DEF ConsumeCode, Working, Form
      <4> SUFFICES ASSUME NEW g \in Grants \ disturbed'
                   PROVE  Alone(g)' /\ Rested(g)' /\ Worked(g)'
        BY DEF Undisturbed
      <4>1. Alone(g) /\ Rested(g) /\ Worked(g)
        BY <1>4, <3>2, <4>8, <4>9, <2>1 DEF ConsumeCode, Generate, Undisturbed
      <4>2. Alone(g)'
        BY <1>4, <3>2, <4>8, <4>9, <2>1, <4>1 DEF ConsumeCode, Generate, Alone,
           Alone, Touches, Working, Granted, OaTypeOK
      <4>3. Rested(g)'
        BY <1>4, <3>2, <4>8, <4>9, <2>1, <4>1 DEF ConsumeCode, Generate, Alone,
           Rested, Touches, Paired, AccessOf, OneRefreshPerGrant, Holds, Grants,
           Worked, Working, Granted, OaTypeOK
      <4>4. Worked(g)'
        BY <1>4, <3>2, <4>8, <4>9, <2>1, <4>1 DEF ConsumeCode, Generate, Alone,
           Worked, Touches, Paired, AccessOf, OneRefreshPerGrant, Holds, Grants,
           Working, Granted, OaTypeOK
      <4> QED BY <4>2, <4>3, <4>4
    <3> QED BY <1>4, <3>1, <3>2 DEF ConsumeCode
  <2> QED BY <2>1, <2>2, <2>3, <2>4, <2>5
<1>5. ASSUME NEW t \in Tasks, SaveAccess(t)
      PROVE  OaInv'
  <2>1. OaTypeOK'
    BY <1>5 DEF SaveAccess, OaTypeOK, Working, Granted, Grants
  <2>2. Working'
    BY <1>5, <2>1 DEF SaveAccess, Working, Granted, OaTypeOK
  <2>3. Granted'
    BY <1>5, <2>1 DEF SaveAccess, Granted, Working, OaTypeOK, Grants
  <2>4. OneRefreshPerGrant'
    BY <1>5, <2>1 DEF SaveAccess, OneRefreshPerGrant, Holds, Granted, Working,
       OaTypeOK, Grants
  <2>5. Undisturbed'
    BY <1>5, <2>1 DEF SaveAccess, Undisturbed, Alone, Rested, Worked, Touches,
       Paired, AccessOf, OneRefreshPerGrant, Holds, Granted, Working, OaTypeOK,
       Grants
  <2> QED BY <2>1, <2>2, <2>3, <2>4, <2>5
<1>6. ASSUME NEW t \in Tasks, SaveRefresh(t)
      PROVE  OaInv'
  <2>1. OaTypeOK'
    BY <1>6 DEF SaveRefresh, OaEnd, OaTypeOK, Working, Granted, Grants
  <2>2. Working'
    BY <1>6, <2>1 DEF SaveRefresh, OaEnd, Working, Granted, OaTypeOK
  <2>3. Granted'
    BY <1>6, <2>1 DEF SaveRefresh, OaEnd, Granted, Working, OaTypeOK, Grants
  <2>4. OneRefreshPerGrant'
    <3>1. \A q \in Tasks, g \in Grants : Holds(q, g)' => Holds(q, g) /\ q # t
      BY <1>6, <2>1 DEF SaveRefresh, OaEnd, Holds, Working, Granted, OaTypeOK, Grants
    <3>2. UNCHANGED <<code, grant>> /\ refresh' = refresh \cup {new[t]}
      BY <1>6 DEF SaveRefresh, OaEnd
    <3>3. new[t] \in Ids /\ grant[new[t]] \in Grants /\ Holds(t, grant[new[t]])
      BY <1>6 DEF SaveRefresh, Working, Holds, OaTypeOK
    <3> QED BY <3>1, <3>2, <3>3 DEF OneRefreshPerGrant, OaTypeOK, Grants
  <2>5. Undisturbed'
    <3>1. CASE old[t] = Nil
      <4> SUFFICES ASSUME NEW g \in Grants \ disturbed'
                   PROVE  Alone(g)' /\ Rested(g)' /\ Worked(g)'
        BY DEF Undisturbed
      <4>1. Alone(g) /\ Rested(g) /\ Worked(g)
        BY <1>6, <3>1, <2>1 DEF SaveRefresh, OaEnd, Undisturbed
      <4>2. Alone(g)'
        BY <1>6, <3>1, <2>1, <4>1 DEF SaveRefresh, OaEnd, Alone, Alone, Touches,
           Working, Granted, OaTypeOK
      <4>3. Rested(g)'
        BY SMTT(30), <1>6, <3>1, <2>1, <4>1 DEF SaveRefresh, OaEnd, Alone, Rested,
           Touches, Paired, AccessOf, OneRefreshPerGrant, Holds, Grants, Worked,
           Working, Granted, OaTypeOK
      <4>4. Worked(g)'
        BY <1>6, <3>1, <2>1, <4>1 DEF SaveRefresh, OaEnd, Alone, Worked,
           Touches, Paired, AccessOf, OneRefreshPerGrant, Holds, Grants,
           Working, Granted, OaTypeOK
      <4> QED BY <4>2, <4>3, <4>4
    <3>2. CASE old[t] # Nil
      <4> SUFFICES ASSUME NEW g \in Grants \ disturbed'
                   PROVE  Alone(g)' /\ Rested(g)' /\ Worked(g)'
        BY DEF Undisturbed
      <4>1. Alone(g) /\ Rested(g) /\ Worked(g)
        BY <1>6, <3>2, <2>1 DEF SaveRefresh, OaEnd, Undisturbed
      <4>2. Alone(g)'
        BY <1>6, <3>2, <2>1, <4>1 DEF SaveRefresh, OaEnd, Alone, Alone, Touches,
           Working, Granted, OaTypeOK
      <4>3. Rested(g)'
        BY <1>6, <3>2, <2>1, <4>1 DEF SaveRefresh, OaEnd, Alone, Rested,
           Touches, Paired, AccessOf, OneRefreshPerGrant, Holds, Grants, Worked,
           Working, Granted, OaTypeOK
      <4>4. Worked(g)'
        BY <1>6, <3>2, <2>1, <4>1 DEF SaveRefresh, OaEnd, Alone, Worked,
           Touches, Paired, AccessOf, OneRefreshPerGrant, Holds, Grants,
           Working, Granted, OaTypeOK
      <4> QED BY <4>2, <4>3, <4>4
    <3> QED BY <3>1, <3>2
  <2> QED BY <2>1, <2>2, <2>3, <2>4, <2>5
<1>7. ASSUME NEW t \in Tasks, TakeRefresh(t)
      PROVE  OaInv'
  <2>1. OaTypeOK'
    BY <1>7 DEF TakeRefresh, Generate, OaEnd, OaTypeOK, Working, Granted, Grants
  <2>2. Working'
    BY <1>7, <2>1 DEF TakeRefresh, Generate, OaEnd, Working, Granted, OaTypeOK
  <2>3. Granted'
    BY <1>7, <2>1 DEF TakeRefresh, Generate, OaEnd, Granted, Working, OaTypeOK, Grants
  <2>4. OneRefreshPerGrant'
    <3>1. CASE old[t] \notin refresh /\ OaEnd(t) /\ UNCHANGED <<owner, grant>>
      BY <1>7, <3>1, <2>1 DEF TakeRefresh, OaEnd, OneRefreshPerGrant, Holds,
         Working, Granted, OaTypeOK, Grants
    <3>2. CASE /\ old[t] \in refresh
               /\ Goto(t, "writeBack")
               /\ UNCHANGED <<owner, grant, form, new, old>>
      BY <1>7, <3>2, <2>1 DEF TakeRefresh, OneRefreshPerGrant, Holds, Working,
         Granted, OaTypeOK, Grants
    <3>3. CASE /\ old[t] \in refresh /\ Goto(t, "saveAccess") /\ UNCHANGED <<form, old>>
               /\ \E m \in Ids : Generate(t, m, grant[old[t]], form[t])
      <4>8. PICK m \in Ids : Generate(t, m, grant[old[t]], form[t])
        BY <3>3
      <4> QED BY <1>7, <3>3, <2>1, <4>8 DEF TakeRefresh, Generate, OneRefreshPerGrant,
            Holds, Working, Granted, OaTypeOK, Grants
    <3> QED BY <1>7, <3>1, <3>2, <3>3 DEF TakeRefresh
  <2>5. Undisturbed'
    <3>1. CASE old[t] \notin refresh /\ OaEnd(t) /\ UNCHANGED <<owner, grant>>
      <4> SUFFICES ASSUME NEW g \in Grants \ disturbed'
                   PROVE  Alone(g)' /\ Rested(g)' /\ Worked(g)'
        BY DEF Undisturbed
      <4>1. Alone(g) /\ Rested(g) /\ Worked(g)
        BY <1>7, <3>1, <2>1 DEF TakeRefresh, OaEnd, Undisturbed
      <4>2. Alone(g)'
        BY <1>7, <3>1, <2>1, <4>1 DEF TakeRefresh, OaEnd, Alone, Alone, Touches,
           Working, Granted, OaTypeOK
      <4>3. Rested(g)'
        BY <1>7, <3>1, <2>1, <4>1 DEF TakeRefresh, OaEnd, Alone, Rested,
           Touches, Paired, AccessOf, OneRefreshPerGrant, Holds, Grants, Worked,
           Working, Granted, OaTypeOK
      <4>4. Worked(g)'
        BY <1>7, <3>1, <2>1, <4>1 DEF TakeRefresh, OaEnd, Alone, Worked,
           Touches, Paired, AccessOf, OneRefreshPerGrant, Holds, Grants,
           Working, Granted, OaTypeOK
      <4> QED BY <4>2, <4>3, <4>4
    <3>2. CASE /\ old[t] \in refresh
               /\ Goto(t, "writeBack")
               /\ UNCHANGED <<owner, grant, form, new, old>>
      <4> SUFFICES ASSUME NEW g \in Grants \ disturbed'
                   PROVE  Alone(g)' /\ Rested(g)' /\ Worked(g)'
        BY DEF Undisturbed
      <4>1. Alone(g) /\ Rested(g) /\ Worked(g)
        BY <1>7, <3>2, <2>1 DEF TakeRefresh, Undisturbed
      <4>2. Alone(g)'
        BY <1>7, <3>2, <2>1, <4>1 DEF TakeRefresh, Alone, Alone, Touches,
           Working, Granted, OaTypeOK
      <4>3. Rested(g)'
        BY <1>7, <3>2, <2>1, <4>1 DEF TakeRefresh, Alone, Rested, Touches,
           Paired, AccessOf, OneRefreshPerGrant, Holds, Grants, Worked, Working,
           Granted, OaTypeOK
      <4>4. Worked(g)'
        BY <1>7, <3>2, <2>1, <4>1 DEF TakeRefresh, Alone, Worked, Touches,
           Paired, AccessOf, OneRefreshPerGrant, Holds, Grants, Working,
           Granted, OaTypeOK
      <4> QED BY <4>2, <4>3, <4>4
    <3>3. CASE /\ old[t] \in refresh /\ Goto(t, "saveAccess") /\ UNCHANGED <<form, old>>
               /\ \E m \in Ids : Generate(t, m, grant[old[t]], form[t])
      <4>8. PICK m \in Ids : Generate(t, m, grant[old[t]], form[t])
        BY <3>3
      <4> SUFFICES ASSUME NEW g \in Grants \ disturbed'
                   PROVE  Alone(g)' /\ Rested(g)' /\ Worked(g)'
        BY DEF Undisturbed
      <4>1. Alone(g) /\ Rested(g) /\ Worked(g)
        BY <1>7, <3>3, <2>1, <4>8 DEF TakeRefresh, Generate, Undisturbed
      <4>2. Alone(g)'
        BY <1>7, <3>3, <2>1, <4>8, <4>1 DEF TakeRefresh, Generate, Alone, Alone,
           Touches, Working, Granted, OaTypeOK
      <4>3. Rested(g)'
        <5>1. ASSUME grant[old[t]] # g, \A q \in Tasks : ~Touches(q, g)'
              PROVE  \A q \in Tasks : ~Touches(q, g)
          BY <1>7, <3>3, <4>8, <5>1, <2>1 DEF TakeRefresh, Generate, Touches,
             Working, OaTypeOK
        <5>2. refresh' \subseteq refresh /\ UNCHANGED access
              /\ \A n \in access \cup refresh : grant'[n] = grant[n]
          BY <1>7, <4>8 DEF TakeRefresh, Generate, Granted, OaTypeOK
        <5>3. CASE grant[old[t]] = g
          BY <1>7, <3>3, <4>8, <5>3, <2>1 DEF TakeRefresh, Generate, Touches,
             Rested, Working,
             OaTypeOK
        <5>4. CASE grant[old[t]] # g
          BY <4>1, <5>1, <5>2, <5>4 DEF Rested, Paired
        <5> QED BY <5>3, <5>4
      <4>4. Worked(g)'
        BY <1>7, <3>3, <2>1, <4>8, <4>1 DEF TakeRefresh, Generate, Alone,
           Worked, Touches, Paired, AccessOf, OneRefreshPerGrant, Holds, Grants,
           Working, Granted, OaTypeOK
      <4> QED BY <4>2, <4>3, <4>4
    <3> QED BY <1>7, <3>1, <3>2, <3>3 DEF TakeRefresh
  <2> QED BY <2>1, <2>2, <2>3, <2>4, <2>5
<1>8. ASSUME NEW t \in Tasks, SaveFails(t)
      PROVE  OaInv'
  <2>1. OaTypeOK'
    BY <1>8, OnIs, OnGrants DEF SaveFails, OaEnd, OaTypeOK, Working, Granted, Grants
  <2>2. Working'
    BY <1>8, <2>1, OnIs, OnGrants DEF SaveFails, OaEnd, Working, Granted, OaTypeOK
  <2>3. Granted'
    BY <1>8, <2>1, OnIs, OnGrants DEF SaveFails, OaEnd, Granted, Working, OaTypeOK,
       Grants
  <2>4. OneRefreshPerGrant'
    <3>1. \A q \in Tasks, g \in Grants : Holds(q, g)' => Holds(q, g)
      BY <1>8, <2>1 DEF SaveFails, OaEnd, Holds, Working, Granted, OaTypeOK, Grants
    <3>2. UNCHANGED <<code, refresh, grant>>
      BY <1>8 DEF SaveFails
    <3> QED BY <3>1, <3>2 DEF OneRefreshPerGrant, OaTypeOK, Grants
  <2>5. Undisturbed'
    <3>1. CASE old[t] = Nil
      <4> SUFFICES ASSUME NEW g \in Grants \ disturbed'
                   PROVE  Alone(g)' /\ Rested(g)' /\ Worked(g)'
        BY DEF Undisturbed
      <4>1. Alone(g) /\ Rested(g) /\ Worked(g)
        BY <1>8, <3>1, <2>1 DEF SaveFails, OaEnd, Undisturbed
      <4>2. Alone(g)'
        BY <1>8, <3>1, <2>1, <4>1, OnIs DEF SaveFails, OaEnd, Alone, Alone,
           Touches, Working, Granted, OaTypeOK
      <4>3. Rested(g)'
        BY <1>8, <3>1, <2>1, <4>1, OnIs DEF SaveFails, OaEnd, Alone, Rested,
           Touches, Paired, AccessOf, OneRefreshPerGrant, Holds, Grants, Worked,
           Working, Granted, OaTypeOK
      <4>4. Worked(g)'
        BY <1>8, <3>1, <2>1, <4>1, OnIs DEF SaveFails, OaEnd, Alone, Worked,
           Touches, Paired, AccessOf, OneRefreshPerGrant, Holds, Grants,
           Working, Granted, OaTypeOK
      <4> QED BY <4>2, <4>3, <4>4
    <3>2. CASE old[t] # Nil
      <4> SUFFICES ASSUME NEW g \in Grants \ disturbed'
                   PROVE  Alone(g)' /\ Rested(g)' /\ Worked(g)'
        BY DEF Undisturbed
      <4>1. Alone(g) /\ Rested(g) /\ Worked(g)
        BY <1>8, <3>2, <2>1 DEF SaveFails, OaEnd, Undisturbed
      <4>2. Alone(g)'
        BY <1>8, <3>2, <2>1, <4>1, OnIs DEF SaveFails, OaEnd, Alone, Alone,
           Touches, Working, Granted, OaTypeOK
      <4>3. Rested(g)'
        BY <1>8, <3>2, <2>1, <4>1, OnIs DEF SaveFails, OaEnd, Alone, Rested,
           Touches, Paired, AccessOf, OneRefreshPerGrant, Holds, Grants, Worked,
           Working, Granted, OaTypeOK
      <4>4. Worked(g)'
        BY <1>8, <3>2, <2>1, <4>1, OnIs DEF SaveFails, OaEnd, Alone, Worked,
           Touches, Paired, AccessOf, OneRefreshPerGrant, Holds, Grants,
           Working, Granted, OaTypeOK
      <4> QED BY <4>2, <4>3, <4>4
    <3> QED BY <3>1, <3>2
  <2> QED BY <2>1, <2>2, <2>3, <2>4, <2>5
<1>9. ASSUME NEW t \in Tasks, WriteBack(t)
      PROVE  OaInv'
  <2>1. OaTypeOK'
    BY <1>9 DEF WriteBack, OaEnd, OaTypeOK, Working, Granted, Grants
  <2>2. Working'
    BY <1>9, <2>1 DEF WriteBack, OaEnd, Working, Granted, OaTypeOK
  <2>3. Granted'
    BY <1>9, <2>1 DEF WriteBack, OaEnd, Granted, Working, OaTypeOK, Grants
  <2>4. OneRefreshPerGrant'
    BY <1>9, <2>1 DEF WriteBack, OaEnd, OneRefreshPerGrant, Holds, Granted, Working,
       OaTypeOK, Grants
  <2>5. Undisturbed'
    BY <1>9, <2>1 DEF WriteBack, OaEnd, Undisturbed, Alone, Rested, Worked, Touches,
       Paired, AccessOf, OneRefreshPerGrant, Holds, Granted, Working, OaTypeOK,
       Grants
  <2> QED BY <2>1, <2>2, <2>3, <2>4, <2>5
<1>10. ASSUME NEW t \in Tasks, DeleteOld(t)
      PROVE  OaInv'
  <2>1. OaTypeOK'
    BY <1>10 DEF DeleteOld, OaEnd, OaTypeOK, Working, Granted, Grants
  <2>2. Working'
    BY <1>10, <2>1 DEF DeleteOld, OaEnd, Working, Granted, OaTypeOK
  <2>3. Granted'
    BY <1>10, <2>1 DEF DeleteOld, OaEnd, Granted, Working, OaTypeOK, Grants
  <2>4. OneRefreshPerGrant'
    BY <1>10, <2>1 DEF DeleteOld, OaEnd, OneRefreshPerGrant, Holds, Granted,
       Working, OaTypeOK, Grants
  <2>5. Undisturbed'
    <3> SUFFICES ASSUME NEW g \in Grants \ disturbed'
                 PROVE  Alone(g)' /\ Rested(g)' /\ Worked(g)'
      BY DEF Undisturbed
    <3>1. Alone(g) /\ Rested(g) /\ Worked(g)
      BY <1>10, <2>1 DEF DeleteOld, OaEnd, Undisturbed
    <3>2. Alone(g)'
      BY <1>10, <2>1, <3>1 DEF DeleteOld, OaEnd, Alone, Alone, Touches, Working,
         Granted, OaTypeOK
    <3>3. Rested(g)'
      BY <1>10, <2>1, <3>1 DEF DeleteOld, OaEnd, Alone, Rested, Touches, Paired,
         AccessOf, OneRefreshPerGrant, Holds, Grants, Worked, Working, Granted,
         OaTypeOK
    <3>4. Worked(g)'
      BY <1>10, <2>1, <3>1 DEF DeleteOld, OaEnd, Alone, Worked, Touches, Paired,
         AccessOf, OneRefreshPerGrant, Holds, Grants, Working, Granted, OaTypeOK
    <3> QED BY <3>2, <3>3, <3>4
  <2> QED BY <2>1, <2>2, <2>3, <2>4, <2>5
<1>11. ASSUME NEW t \in Tasks, OaDropped(t)
      PROVE  OaInv'
  <2>1. OaTypeOK'
    BY <1>11, OnIs, OnGrants DEF OaDropped, OaEnd, OaTypeOK, Working, Granted, Grants
  <2>2. Working'
    BY <1>11, <2>1, OnIs, OnGrants DEF OaDropped, OaEnd, Working, Granted, OaTypeOK
  <2>3. Granted'
    BY <1>11, <2>1, OnIs, OnGrants DEF OaDropped, OaEnd, Granted, Working, OaTypeOK,
       Grants
  <2>4. OneRefreshPerGrant'
    BY <1>11, <2>1, OnIs, OnGrants DEF OaDropped, OaEnd, OneRefreshPerGrant, Holds,
       Granted, Working, OaTypeOK, Grants
  <2>5. Undisturbed'
    <3> SUFFICES ASSUME NEW g \in Grants \ disturbed'
                 PROVE  Alone(g)' /\ Rested(g)' /\ Worked(g)'
      BY DEF Undisturbed
    <3>1. Alone(g) /\ Rested(g) /\ Worked(g)
      BY <1>11, <2>1 DEF OaDropped, OaEnd, Undisturbed
    <3>2. Alone(g)'
      BY <1>11, <2>1, <3>1, OnIs DEF OaDropped, OaEnd, Alone, Alone, Touches,
         Working, Granted, OaTypeOK
    <3>3. Rested(g)'
      BY <1>11, <2>1, <3>1, OnIs DEF OaDropped, OaEnd, Alone, Rested, Touches,
         Paired, AccessOf, OneRefreshPerGrant, Holds, Grants, Worked, Working,
         Granted, OaTypeOK
    <3>4. Worked(g)'
      BY <1>11, <2>1, <3>1, OnIs DEF OaDropped, OaEnd, Alone, Worked, Touches,
         Paired, AccessOf, OneRefreshPerGrant, Holds, Grants, Working, Granted,
         OaTypeOK
    <3> QED BY <3>2, <3>3, <3>4
  <2> QED BY <2>1, <2>2, <2>3, <2>4, <2>5
<1>12. ASSUME NEW c \in Clients, NEW k \in Codes, NEW p \in Methods, IssueCode(c, k, p)
      PROVE  OaInv'
  <2>1. OaTypeOK'
    BY <1>12 DEF IssueCode, OaTypeOK, Working, Granted, Grants
  <2>2. Working'
    BY <1>12, <2>1 DEF IssueCode, Working, Granted, OaTypeOK
  <2>3. Granted'
    BY <1>12, <2>1 DEF IssueCode, Granted, Working, OaTypeOK, Grants
  <2>4. OneRefreshPerGrant'
    BY <1>12, <2>1 DEF IssueCode, OneRefreshPerGrant, Holds, Granted, Working,
       OaTypeOK, Grants
  <2>5. Undisturbed'
    BY <1>12, <2>1 DEF IssueCode, Undisturbed, Alone, Rested, Worked, Touches,
       Paired, AccessOf, OneRefreshPerGrant, Holds, Granted, Working, OaTypeOK,
       Grants
  <2> QED BY <2>1, <2>2, <2>3, <2>4, <2>5
<1>13. ASSUME NEW n \in Ids, RevokeToken(n)
      PROVE  OaInv'
  <2>1. OaTypeOK'
    BY <1>13 DEF RevokeToken, OaTypeOK, Working, Granted, Grants
  <2>2. Working'
    BY <1>13, <2>1 DEF RevokeToken, Working, Granted, OaTypeOK
  <2>3. Granted'
    BY <1>13, <2>1 DEF RevokeToken, Granted, Working, OaTypeOK, Grants
  <2>4. OneRefreshPerGrant'
    BY <1>13, <2>1 DEF RevokeToken, OneRefreshPerGrant, Holds, Granted, Working,
       OaTypeOK, Grants
  <2>5. Undisturbed'
    BY <1>13, <2>1 DEF RevokeToken, Undisturbed, Alone, Rested, Worked, Touches,
       Paired, AccessOf, OneRefreshPerGrant, Holds, Granted, Working, OaTypeOK,
       Grants
  <2> QED BY <2>1, <2>2, <2>3, <2>4, <2>5
<1>14. ASSUME ExpireGrant
      PROVE  OaInv'
  <2>1. OaTypeOK'
    BY <1>14 DEF ExpireGrant, OaTypeOK, Working, Granted, Grants
  <2>2. Working'
    BY <1>14, <2>1 DEF ExpireGrant, Working, Granted, OaTypeOK
  <2>3. Granted'
    BY <1>14, <2>1 DEF ExpireGrant, Granted, Working, OaTypeOK, Grants
  <2>4. OneRefreshPerGrant'
    BY <1>14, <2>1 DEF ExpireGrant, OneRefreshPerGrant, Holds, Granted, Working,
       OaTypeOK, Grants
  <2>5. Undisturbed'
    BY <1>14, <2>1 DEF ExpireGrant, Undisturbed, Alone, Rested, Worked, Touches,
       Paired, AccessOf, OneRefreshPerGrant, Holds, Granted, Working, OaTypeOK,
       Grants
  <2> QED BY <2>1, <2>2, <2>3, <2>4, <2>5
<1>15. CASE UNCHANGED oaVars
  BY <1>15 DEF oaVars, OaTypeOK, Working, Granted, OneRefreshPerGrant, Undisturbed,
     Alone, Rested, Worked, Holds, Touches, Paired, AccessOf
<1> QED
  BY <1>1, <1>2, <1>3, <1>4, <1>5, <1>6, <1>7, <1>8, <1>9, <1>10, <1>11, <1>12, <1>13,
     <1>14, <1>15
  DEF OaNext, OaTask

\* However many exchanges and refreshes of a grant overlap, fail, break off and
\* are written back: one credential of it can be turned into tokens; and where
\* none has overlapped or failed, it has one access token between calls.
THEOREM OAuth2Correct ==
  OaSpec => [](OaTypeOK /\ OnePairPerGrant)
<1>1. OaInv => OaTypeOK /\ OnePairPerGrant
  BY OAuthAssumption, OnIs
  DEF OaInv, OnePairPerGrant, OneAccessPerGrant, Undisturbed, Rested, Paired,
      Granted, OaTypeOK, Grants
<1> QED BY OaInitial, OaStep, <1>1, PTL DEF OaSpec

-----------------------------------------------------------------------------
(***************************************************************************)
(* Temporary tokens: an index is written by a create whose token is stored,*)
(* and the deletion that removes a record has taken its index away before. *)
(***************************************************************************)
\* The labels of a deletion.
Deleting == {"readTemp", "dropName", "dropTemp"}

\* A create that is about to write the index of its value has a stored token of
\* its own, unless the token's TTL has ended.
Naming ==
  \A t \in Tasks : pc[t] = "saveName" =>
    /\ temp[t] \in known /\ value[t] \in Values
    /\ temp[t] \notin lapsed => records[temp[t]] = value[t]

\* A delete runs on a token whose create is over, and which no index names by the
\* time it deletes the record.
Unnaming ==
  \A t \in Tasks :
    /\ pc[t] \in Deleting =>
         /\ temp[t] \in known
         /\ \A q \in Tasks : pc[q] = "saveName" => temp[q] # temp[t]
    /\ pc[t] = "dropName" =>
         /\ value[t] \in Values
         /\ \A v \in Values : names[v] = temp[t] => v = value[t] \/ temp[t] \in lapsed
    /\ pc[t] = "dropTemp" =>
         \A v \in Values : names[v] = temp[t] => temp[t] \in lapsed

\* What is invariant of the temporary tokens.
TmInv ==
  /\ TmTypeOK /\ (\A t \in Tasks : pc[t] = "claimTemp" => value[t] \in Values)
  /\ Naming /\ Unnaming /\ IndexNamesLive

\* No token exists at first.
LEMMA TmInitial == ControlInit /\ TmInit => TmInv
BY TempAssumption DEF ControlInit, TmInit, TmInv, TmTypeOK, Naming, Unnaming, Deleting,
   IndexNamesLive

\* Every step keeps TmInv; one step of the proof per action.
LEMMA TmStep ==
  ASSUME TmInv, [TmNext]_tmVars
  PROVE  TmInv'
<1> USE TempAssumption, RequestsAssumption
    DEF TmInv, TmTypeOK, TmLabels, Naming, Unnaming, Deleting, IndexNamesLive,
        Begin, Call, Goto, Finish, TmEnd, tmHistory, tmLocals
<1>1. ASSUME NEW t \in Tasks, NEW v \in Values, NEW i \in BOOLEAN, Create(t, v, i)
      PROVE  TmInv'
  BY <1>1 DEF Create
<1>2. ASSUME NEW t \in Tasks, NEW k \in TempIds, DeleteTemp(t, k)
      PROVE  TmInv'
  BY <1>2 DEF DeleteTemp
<1>3. ASSUME NEW t \in Tasks, ClaimTemp(t)
      PROVE  TmInv'
  <2>0. PICK k \in TempIds :
          IF records[k] = Nil
          THEN /\ k \notin known
               /\ records' = [records EXCEPT ![k] = value[t]]
               /\ known' = known \cup {k}
               /\ IF indexing[t]
                  THEN /\ temp' = [temp EXCEPT ![t] = k]
                       /\ Goto(t, "saveName") /\ UNCHANGED <<indexing, value, attempts>>
                  ELSE TmEnd(t)
          ELSE /\ UNCHANGED <<records, known>>
               /\ IF attempts[t] + 1 < Retries
                  THEN /\ attempts' = [attempts EXCEPT ![t] = @ + 1]
                       /\ UNCHANGED <<control, indexing, value, temp>>
                  ELSE TmEnd(t)
    BY <1>3 DEF ClaimTemp
  <2>1. pc[t] = "claimTemp" /\ UNCHANGED <<names, lapsed>>
    BY <1>3 DEF ClaimTemp
  <2>2. CASE records[k] = Nil /\ indexing[t]
    BY <2>0, <2>1, <2>2
  <2>3. CASE records[k] = Nil /\ ~indexing[t]
    <3>1. /\ k \notin known /\ known' = known \cup {k} /\ TmEnd(t)
          /\ records' = [records EXCEPT ![k] = value[t]]
      BY <2>0, <2>3
    <3>2. TmTypeOK' /\ (\A q \in Tasks : pc'[q] = "claimTemp" => value'[q] \in Values)
      BY <2>1, <3>1
    <3>3. Naming' /\ Unnaming' /\ IndexNamesLive'
      BY <2>1, <2>3, <3>1
    <3> QED BY <3>2, <3>3
  <2>4. CASE records[k] # Nil
    <3>1. UNCHANGED <<records, known>>
      BY <2>0, <2>4
    <3>2. \/ /\ attempts' = [attempts EXCEPT ![t] = @ + 1]
             /\ UNCHANGED <<control, indexing, value, temp>>
          \/ TmEnd(t)
      BY <2>0, <2>4
    <3>3. CASE TmEnd(t)
      BY <2>1, <3>1, <3>3
    <3>4. CASE /\ attempts' = [attempts EXCEPT ![t] = @ + 1]
               /\ UNCHANGED <<control, indexing, value, temp>>
      BY <2>1, <3>1, <3>4 DEF control
    <3> QED BY <3>2, <3>3, <3>4
  <2> QED BY <2>2, <2>3, <2>4
<1>4. ASSUME NEW t \in Tasks, SaveName(t)
      PROVE  TmInv'
  BY <1>4 DEF SaveName
<1>5. ASSUME NEW t \in Tasks, ReadTemp(t)
      PROVE  TmInv'
  BY <1>5 DEF ReadTemp, Unreachable
<1>6. ASSUME NEW t \in Tasks, DropName(t)
      PROVE  TmInv'
  BY <1>6 DEF DropName, Unreachable
<1>7. ASSUME NEW t \in Tasks, DropTemp(t)
      PROVE  TmInv'
  BY <1>7 DEF DropTemp
<1>8. ASSUME NEW t \in Tasks, TmDropped(t)
      PROVE  TmInv'
  BY <1>8 DEF TmDropped
<1>9. ASSUME ExpireTemp
      PROVE  TmInv'
  BY <1>9 DEF ExpireTemp, control
<1>10. CASE UNCHANGED tmVars
  BY <1>10 DEF tmVars, tmState, control
<1> QED
  BY <1>1, <1>2, <1>3, <1>4, <1>5, <1>6, <1>7, <1>8, <1>9, <1>10 DEF TmNext, TmTask

\* The index of a value names a stored token that carries the value, until the token
\* expires, or unless storage failed under its deletion.
THEOREM TempTokensCorrect == TmSpec => [](TmTypeOK /\ IndexNamesLive)
<1>1. TmInv => TmTypeOK /\ IndexNamesLive
  BY DEF TmInv
<1> QED BY TmInitial, TmStep, <1>1, PTL DEF TmSpec

-----------------------------------------------------------------------------
(***************************************************************************)
(* Nonces: a claim is stored for its whole time to live, so a second one   *)
(* within that time finds it.                                              *)
(***************************************************************************)
\* A nonce's time to live.
LEMMA TtlOf ==
  ASSUME NEW n \in AllNonces
  PROVE  /\ Ttl(n) \in Nat
         /\ n \in Signed => Ttl(n) = Second * Window /\ Ttl(n) # 0
         /\ n \notin Signed /\ Timeout > 0 => Ttl(n) = Second * Timeout /\ Ttl(n) # 0
         /\ n \notin Signed /\ Timeout <= 0 => Ttl(n) = 0
<1>1. \A a, b \in Nat \ {0} : a * b \in Nat /\ a * b # 0
  OBVIOUS
<1>2. Second * 0 = 0
  BY NoncesAssumption
<1> QED BY <1>1, <1>2, NoncesAssumption DEF Ttl

\* The types of the nonces.
NcTypeOK ==
  /\ pc \in [Tasks -> NcLabels \cup {"idle"}] /\ calls \in Nat /\ now \in Nat
  /\ until \in [AllNonces -> Nat \cup {Nil}] /\ created \in [AllNonces -> Nat \cup {Nil}]
  /\ stamp \in [Signed -> Int \cup {Nil}]
  /\ nonce \in [Tasks -> AllNonces \cup {Nil}] /\ start \in [Tasks -> Nat]
  /\ genuine \in [Tasks -> BOOLEAN] /\ cutoff \in [Tasks -> Int]
  /\ last \in [AllNonces -> Nat \cup {Nil}]
  /\ again \subseteq AllNonces /\ swept \subseteq LoginNonces

\* Calls work on nonces that exist; only login nonces are swept.
Handling ==
  \A t \in Tasks :
    /\ pc[t] \in {"claimNonce", "compareSign"} => nonce[t] \in AllNonces
    /\ pc[t] = "removeNonce" => nonce[t] \in LoginNonces

\* A nonce that was claimed, and not swept, stays stored for its whole TTL.
KeptForTtl ==
  \A n \in AllNonces \ swept : last[n] # Nil =>
    last[n] <= now /\ until[n] # Nil /\ last[n] + Ttl(n) <= until[n]

\* What is invariant of the nonces.
NcInv == NcTypeOK /\ Handling /\ KeptForTtl /\ ClaimedOnce

\* No nonce is used at first.
LEMMA NcInitial == ControlInit /\ NcInit => NcInv
BY NoncesAssumption DEF ControlInit, NcInit, NcInv, NcTypeOK, Handling, KeptForTtl,
   ClaimedOnce, AllNonces

\* A nonce whose claim is kept is stored: it cannot be claimed.
LEMMA KeptIsStored ==
  ASSUME NcInv, NEW n \in AllNonces \ swept, last[n] # Nil,
         Ttl(n) = 0 \/ now <= last[n] + Ttl(n)
  PROVE  Stored(n)
<1>1. /\ last[n] \in Nat /\ until[n] \in Nat /\ now \in Nat
      /\ last[n] <= now /\ last[n] + Ttl(n) <= until[n]
  BY DEF NcInv, NcTypeOK, KeptForTtl
<1> QED BY <1>1, TtlOf, NoncesAssumption DEF Stored

\* Every step keeps NcInv; one step of the proof per action.
LEMMA NcStep ==
  ASSUME NcInv, [NcNext]_ncVars
  PROVE  NcInv'
<1> USE NoncesAssumption, RequestsAssumption
    DEF NcInv, NcTypeOK, NcLabels, Handling, KeptForTtl, ClaimedOnce, AllNonces,
        Begin, Call, Goto, Finish, NcEnd, ncStore, ncLocals, ncHistory, control
<1>1. ASSUME NEW t \in Tasks, NEW n \in Signed, NEW ok \in BOOLEAN, VerifyParams(t, n, ok)
      PROVE  NcInv'
  BY <1>1 DEF VerifyParams
<1>2. ASSUME NEW t \in Tasks, NEW n \in LoginNonces, ConsumeNonce(t, n)
      PROVE  NcInv'
  BY <1>2 DEF ConsumeNonce
<1>3. ASSUME NEW t \in Tasks, NEW n \in LoginNonces, ScanNonce(t, n)
      PROVE  NcInv'
  BY <1>3 DEF ScanNonce
<1>4. ASSUME NEW t \in Tasks, ClaimNonce(t)
      PROVE  NcInv'
  <2> DEFINE n == nonce[t]
  <2>0. n \in AllNonces /\ Ttl(n) \in Nat
    BY <1>4, TtlOf DEF ClaimNonce
  <2>1. CASE ~Stored(n) /\ Claimed(t, n)
    <3>1. n \notin swept /\ last[n] # Nil => ~(Ttl(n) = 0 \/ now <= last[n] + Ttl(n))
      BY <2>0, <2>1, KeptIsStored
    <3>2. /\ until' = [until EXCEPT ![n] = now + Ttl(n)]
          /\ created' = [created EXCEPT ![n] = start[t]]
          /\ last' = [last EXCEPT ![n] = now]
          /\ again' \subseteq swept
          /\ \/ Goto(t, "compareSign") /\ UNCHANGED ncLocals
             \/ NcEnd(t)
          /\ UNCHANGED <<now, stamp, swept>>
      BY <1>4, <2>1, <3>1 DEF ClaimNonce, Claimed, Put
    <3>3. pc[t] = "claimNonce"
      BY <1>4 DEF ClaimNonce
    <3> HIDE DEF n
    <3>4. NcTypeOK' /\ ClaimedOnce'
      <4>1. CASE Goto(t, "compareSign") /\ UNCHANGED ncLocals
        BY <2>0, <3>2, <4>1
      <4>2. CASE NcEnd(t)
        BY <2>0, <3>2, <4>2
      <4> QED BY <3>2, <4>1, <4>2
    <3>5. Handling'
      BY <2>0, <3>2, <3>3
    <3>6. KeptForTtl'
      <4>1. SUFFICES ASSUME NEW m \in AllNonces \ swept, last'[m] # Nil
                     PROVE  /\ last'[m] <= now /\ until'[m] # Nil
                            /\ last'[m] + Ttl(m) <= until'[m]
        BY <3>2
      <4>2. CASE m = n
        BY <2>0, <3>2, <4>2
      <4>3. CASE m # n
        BY <2>0, <3>2, <4>1, <4>3
      <4> QED BY <4>2, <4>3
    <3> QED BY <3>4, <3>5, <3>6
  <2>2. CASE Stored(n) /\ NcEnd(t) /\ UNCHANGED <<ncStore, last, again>>
    BY <1>4, <2>2 DEF ClaimNonce, Ttl
  <2> QED BY <1>4, <2>1, <2>2 DEF ClaimNonce
<1>5. ASSUME NEW t \in Tasks, CompareSign(t)
      PROVE  NcInv'
  BY <1>5 DEF CompareSign
<1>6. ASSUME NEW t \in Tasks, CleanupNonces(t)
      PROVE  NcInv'
  <2>1. now - Second * Timeout \in Int
    OBVIOUS
  <2> QED BY <1>6, <2>1 DEF CleanupNonces
<1>7. ASSUME NEW t \in Tasks, RemoveNonce(t)
      PROVE  NcInv'
  BY <1>7 DEF RemoveNonce
<1>8. ASSUME NEW t \in Tasks, ScanDone(t)
      PROVE  NcInv'
  BY <1>8 DEF ScanDone
<1>9. ASSUME NEW n \in Signed, NEW skew \in Skews, CreateSigned(n, skew)
      PROVE  NcInv'
  <2>1. (now + skew) \div Second \in Int
    OBVIOUS
  <2> QED BY <1>9, <2>1 DEF CreateSigned
<1>10. ASSUME NEW n \in LoginNonces, StoreNonce(n)
       PROVE  NcInv'
  BY <1>10, TtlOf DEF StoreNonce, Put
<1>11. CASE Tick
  BY <1>11 DEF Tick
<1>12. CASE UNCHANGED ncVars
  BY <1>12 DEF ncVars, ncState
<1> HIDE DEF NcInv
<1> QED
  BY <1>1, <1>2, <1>3, <1>4, <1>5, <1>6, <1>7, <1>8, <1>9, <1>10, <1>11, <1>12
  DEF NcNext, NcTask

\* A claimed nonce is refused for as long as its claim is kept, whatever overlaps and
\* stalls, unless a cleanup found the record old.
THEOREM NoncesCorrect == NcSpec => []ClaimedOnce
<1>1. NcInv => ClaimedOnce
  BY DEF NcInv
<1> QED BY NcInitial, NcStep, <1>1, PTL DEF NcSpec

=============================================================================
