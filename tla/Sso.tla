-------------------------------- MODULE Sso --------------------------------
(***************************************************************************)
(* The SSO server: one-time tickets, the session that remembers which       *)
(* services a user's tickets were issued to, and single logout, which ends  *)
(* the session and the tokens and then tells those services.  A client      *)
(* redeems a ticket at the server (validate_ticket) or through a            *)
(* LocalTicketChecker on the server's storage.  The account logins and      *)
(* logouts around these calls are AuthService's.                            *)
(***************************************************************************)
EXTENDS Requests

CONSTANTS
  Users, Services,
  Allowed,    \* services validate_service_access accepts
  Tickets,    \* ticket ids, each issued once
  Attempts,   \* CAS attempts of upsert_client (8)
  Redeemers   \* "server": validate_ticket; "local": LocalTicketChecker

ASSUME SsoAssumption ==
  /\ Allowed \subseteq Services /\ Attempts \in Nat
  /\ Redeemers \subseteq {"server", "local"}

VARIABLES
  stored,     \* tickets in storage, not past expire_time
  session,    \* SsoSession.clients, Nil when the user has no session
  req,        \* the arguments of a call
  read,       \* the session as upsert_client read it
  tries,
  clients,    \* what remove returned, less the services already told
  \* ---- history
  issuedTo,   \* the user and service of each ticket
  joined,     \* services whose create_ticket returned since the session ended
  redeemed,   \* how often each ticket was redeemed
  void,       \* tickets of an ended session, until the user gets a new session
  barred,     \* the call's ticket has been void ever since the call began
  owed,       \* joined services a logout found when it began, not yet told
  afterSlo    \* tickets redeemed by a barred call, and through what

ssoStore == <<stored, session>>
ssoHistory == <<issuedTo, joined, redeemed, void, barred, owed, afterSlo>>
ssoState == <<ssoStore, req, read, tries, clients, ssoHistory>>
ssoVars == <<control, ssoState>>

UpsertLabels == {"readSession", "casSession"}
RedeemLabels == {"preview", "checkSession", "consume"}
EndLabels == {"listClients", "dropSession", "endTokens", "notify"}
SsoLabels == UpsertLabels \cup RedeemLabels \cup EndLabels \cup {"saveTicket"}

Request == [user : Users, service : Services \cup {Nil},
            ticket : Tickets \cup {Nil}, via : Redeemers \cup {Nil}] \cup {Nil}

\* The absent value is none of the values it stands in for.
ASSUME SsoNil ==
  /\ \A c \in SUBSET Services : c # Nil
  /\ \A i \in [user : Users, service : Services] : i # Nil

SsoTypeOK ==
  /\ pc \in [Tasks -> SsoLabels \cup {"idle"}] /\ calls \in Nat
  /\ stored \subseteq Tickets
  /\ session \in [Users -> (SUBSET Services) \cup {Nil}]
  /\ req \in [Tasks -> Request]
  /\ read \in [Tasks -> (SUBSET Services) \cup {Nil}]
  /\ tries \in [Tasks -> Nat] /\ clients \in [Tasks -> SUBSET Services]
  /\ issuedTo \in [Tickets -> [user : Users, service : Services] \cup {Nil}]
  /\ joined \in [Users -> SUBSET Services] /\ redeemed \in [Tickets -> Nat]
  /\ void \subseteq Tickets /\ barred \in [Tasks -> BOOLEAN]
  /\ owed \in [Tasks -> SUBSET Services]
  /\ afterSlo \subseteq Tickets \X Redeemers

SsoInit ==
  /\ stored = {} /\ session = [u \in Users |-> Nil]
  /\ req = [t \in Tasks |-> Nil] /\ read = [t \in Tasks |-> Nil]
  /\ tries = [t \in Tasks |-> 0] /\ clients = [t \in Tasks |-> {}]
  /\ issuedTo = [k \in Tickets |-> Nil] /\ joined = [u \in Users |-> {}]
  /\ redeemed = [k \in Tickets |-> 0] /\ void = {}
  /\ barred = [t \in Tasks |-> FALSE] /\ owed = [t \in Tasks |-> {}]
  /\ afterSlo = {}

Issued == {k \in Tickets : issuedTo[k] # Nil}
TicketsOf(u) == {k \in Issued : issuedTo[k].user = u}
ClientsOf(u) == IF session[u] = Nil THEN {} ELSE session[u]

Clear(t) ==
  /\ req' = [req EXCEPT ![t] = Nil] /\ read' = [read EXCEPT ![t] = Nil]
  /\ tries' = [tries EXCEPT ![t] = 0] /\ clients' = [clients EXCEPT ![t] = {}]

End(t) == Finish(t) /\ Clear(t)

Start(t, l, u, s, k, v) ==
  /\ Begin(t, l)
  /\ req' = [req EXCEPT ![t] = [user |-> u, service |-> s, ticket |-> k, via |-> v]]
  /\ barred' = [barred EXCEPT ![t] = k \in void]
  /\ UNCHANGED <<read, tries, clients>>

-----------------------------------------------------------------------------
(***************************************************************************)
(* create_ticket: save the ticket, then add the service to the session      *)
(***************************************************************************)
CreateTicket(t, u, s, k) ==
  /\ s \in Allowed /\ k \in Tickets \ Issued
  /\ Start(t, "saveTicket", u, s, k, Nil)
  /\ issuedTo' = [issuedTo EXCEPT ![k] = [user |-> u, service |-> s]]
  /\ UNCHANGED <<ssoStore, joined, redeemed, void, owed, afterSlo>>

SaveTicket(t) ==
  /\ pc[t] = "saveTicket"
  /\ stored' = stored \cup {req[t].ticket}
  /\ Goto(t, "readSession")
  /\ UNCHANGED <<session, req, read, tries, clients, ssoHistory>>

ReadSession(t) ==
  /\ pc[t] = "readSession"
  /\ read' = [read EXCEPT ![t] = session[req[t].user]]
  /\ tries' = [tries EXCEPT ![t] = @ + 1]
  /\ Goto(t, "casSession")
  /\ UNCHANGED <<ssoStore, req, clients, ssoHistory>>

\* The session of user u becomes c: the user is logged in, and tickets that an
\* ended session left over count again.
Joins(u, s, c) ==
  /\ session' = [session EXCEPT ![u] = c]
  /\ joined' = [joined EXCEPT ![u] = @ \cup {s}]
  /\ void' = void \ TicketsOf(u)
  /\ barred' = [q \in Tasks |-> barred[q] /\ req[q] # Nil /\ req[q].user # u]

\* Mutant: the session is written whatever is there now.
CasSessionBlind(t) ==
  /\ pc[t] = "casSession"
  /\ LET u == req[t].user
         c == IF read[t] = Nil THEN {} ELSE read[t]
     IN Joins(u, req[t].service, c \cup {req[t].service}) /\ End(t)
  /\ UNCHANGED <<stored, issuedTo, redeemed, owed, afterSlo>>

\* The CAS compares the stored text, which also holds last_active_time: where
\* only that differs the code reads again and then writes the same clients.
CasSession(t) ==
  /\ pc[t] = "casSession"
  /\ LET u == req[t].user
         c == IF read[t] = Nil THEN {} ELSE read[t]
     IN IF session[u] = read[t]
        THEN Joins(u, req[t].service, c \cup {req[t].service}) /\ End(t)
        ELSE /\ UNCHANGED <<session, joined, void, barred>>
             /\ IF tries[t] < Attempts
                THEN Goto(t, "readSession") /\ UNCHANGED <<req, read, tries, clients>>
                ELSE End(t)
  /\ UNCHANGED <<stored, issuedTo, redeemed, owed, afterSlo>>

(***************************************************************************)
(* validate_ticket, and check_and_consume of a LocalTicketChecker           *)
(***************************************************************************)
Redeem(t, k, s, v) ==
  /\ k \in Issued /\ (v = "server" => s \in Allowed)
  /\ Start(t, IF v = "server" THEN "preview" ELSE "consume",
           issuedTo[k].user, s, k, v)
  /\ UNCHANGED <<ssoStore, issuedTo, joined, redeemed, void, owed, afterSlo>>

\* The ticket is looked at without being consumed.
Preview(t) ==
  /\ pc[t] = "preview"
  /\ LET k == req[t].ticket
     IN IF k \in stored /\ issuedTo[k].service = req[t].service
        THEN Goto(t, "checkSession") /\ UNCHANGED <<req, read, tries, clients>>
        ELSE End(t)
  /\ UNCHANGED <<ssoStore, ssoHistory>>

\* Mutant: a missing session is not noticed.
CheckSessionSkipped(t) ==
  /\ pc[t] = "checkSession"
  /\ Goto(t, "consume")
  /\ UNCHANGED <<ssoStore, req, read, tries, clients, ssoHistory>>

\* "after SLO the session is gone, and unused tickets cannot be redeemed".
CheckSession(t) ==
  /\ pc[t] = "checkSession"
  /\ IF session[req[t].user] # Nil
     THEN Goto(t, "consume") /\ UNCHANGED <<req, read, tries, clients>>
     ELSE End(t)
  /\ UNCHANGED <<ssoStore, ssoHistory>>

Redeemed(t, k) ==
  /\ redeemed' = [redeemed EXCEPT ![k] = @ + 1]
  /\ afterSlo' = IF barred[t] THEN afterSlo \cup {<<k, req[t].via>>} ELSE afterSlo

\* Mutant: the ticket is read, compared, and left in storage.
ConsumeKept(t) ==
  /\ pc[t] = "consume"
  /\ LET k == req[t].ticket
     IN IF k \in stored /\ issuedTo[k].service = req[t].service
        THEN Redeemed(t, k) ELSE UNCHANGED <<redeemed, afterSlo>>
  /\ End(t)
  /\ UNCHANGED <<stored, session, issuedTo, joined, void, barred, owed>>

\* The ticket is taken out first; for another service it is lost.
Consume(t) ==
  /\ pc[t] = "consume"
  /\ LET k == req[t].ticket
     IN /\ stored' = stored \ {k}
        /\ IF k \in stored /\ issuedTo[k].service = req[t].service
           THEN Redeemed(t, k) ELSE UNCHANGED <<redeemed, afterSlo>>
  /\ End(t)
  /\ UNCHANGED <<session, issuedTo, joined, void, barred, owed>>

\* expire_time passes.
ExpireTicket(k) ==
  /\ k \in stored
  /\ stored' = stored \ {k}
  /\ UNCHANGED <<control, session, req, read, tries, clients, ssoHistory>>

-----------------------------------------------------------------------------
(***************************************************************************)
(* logout_with_slo                                                         *)
(***************************************************************************)
LogoutWithSlo(t, u) ==
  /\ Start(t, "listClients", u, Nil, Nil, Nil)
  /\ owed' = [owed EXCEPT ![t] = joined[u]]
  /\ UNCHANGED <<ssoStore, issuedTo, joined, redeemed, void, afterSlo>>

ListClients(t) ==
  /\ pc[t] = "listClients"
  /\ clients' = [clients EXCEPT ![t] = ClientsOf(req[t].user)]
  /\ Goto(t, "dropSession")
  /\ UNCHANGED <<ssoStore, req, read, tries, ssoHistory>>

\* Services another logout of the user still owed are this one's to tell.
RemoveSession(t) ==
  /\ pc[t] = "dropSession"
  /\ LET u == req[t].user
     IN /\ session' = [session EXCEPT ![u] = Nil]
        /\ joined' = [joined EXCEPT ![u] = {}]
        /\ void' = void \cup TicketsOf(u)
        /\ owed' = [q \in Tasks |-> IF pc[q] = "listClients" /\ req[q].user = u
                                   THEN {} ELSE owed[q]]
  /\ Goto(t, "endTokens")
  /\ UNCHANGED <<stored, req, read, tries, clients, issuedTo, redeemed, barred,
                 afterSlo>>

\* The tokens of the account types sso, sso_client and default are logged out.
EndTokens(t) ==
  /\ pc[t] = "endTokens"
  /\ Goto(t, "notify")
  /\ UNCHANGED ssoState

\* A failed notification is logged and nothing else.
NotifyLogout(t, s) ==
  /\ pc[t] = "notify" /\ s \in clients[t]
  /\ clients' = [clients EXCEPT ![t] = @ \ {s}]
  /\ owed' = [owed EXCEPT ![t] = @ \ {s}]
  /\ UNCHANGED <<control, ssoStore, req, read, tries, issuedTo, joined, redeemed,
                 void, barred, afterSlo>>

LogoutDone(t) ==
  /\ pc[t] = "notify" /\ clients[t] = {}
  /\ End(t)
  /\ UNCHANGED <<ssoStore, ssoHistory>>

SsoDropped(t) == Dropped(t) /\ Clear(t) /\ UNCHANGED <<ssoStore, ssoHistory>>

SsoTask(t) ==
  \/ \E u \in Users : LogoutWithSlo(t, u)
  \/ \E u \in Users, s \in Services, k \in Tickets : CreateTicket(t, u, s, k)
  \/ \E k \in Tickets, s \in Services, v \in Redeemers : Redeem(t, k, s, v)
  \/ SaveTicket(t) \/ ReadSession(t) \/ CasSession(t)
  \/ Preview(t) \/ CheckSession(t) \/ Consume(t)
  \/ ListClients(t) \/ RemoveSession(t) \/ EndTokens(t)
  \/ LogoutDone(t) \/ SsoDropped(t) \/ \E s \in Services : NotifyLogout(t, s)

SsoNext == (\E t \in Tasks : SsoTask(t)) \/ (\E k \in Tickets : ExpireTicket(k))

SsoSpec == ControlInit /\ SsoInit /\ [][SsoNext]_ssoVars

-----------------------------------------------------------------------------
\* A ticket logs one client in at most once, however many redeem it at a time,
\* at the server or through a LocalTicketChecker.
TicketOnce == \A k \in Tickets : redeemed[k] <= 1

\* A service whose create_ticket had returned when a logout began is told by it,
\* whatever joined meanwhile, unless the logout broke off or another logout of
\* the same user had already taken the session.
LogoutTellsAll ==
  \A t \in Tasks : pc[t] \in EndLabels \ {"listClients"} => owed[t] \subseteq clients[t]

\* validate_ticket does not redeem a ticket that belonged to an ended session
\* when the call began, unless the user has a new session (sso_flow.rs,
\* test_slo_invalidates_client_tickets).
SloEndsTickets == \A k \in Tickets : <<k, "server">> \notin afterSlo

\* The services of a session are at least those that joined it.
ClientsKept == \A u \in Users : joined[u] \subseteq ClientsOf(u)

=============================================================================
