------------------------------ MODULE Presence ------------------------------
(***************************************************************************)
(* DistributedOnlineStore: who is connected.  A connection has a record,    *)
(* its account a list of tokens, and the login ids that have a list are     *)
(* kept in one more list; the three are changed one after the other.        *)
(***************************************************************************)
EXTENDS Requests

CONSTANTS
  LoginTypes, LoginIds,
  ConnTokens,      \* tokens of websocket connections
  EntriesExpire    \* whether the store has an entry_ttl

ASSUME PresenceAssumption == EntriesExpire \in BOOLEAN

Conns == [type : LoginTypes, id : LoginIds, token : ConnTokens]
NoConn == [type |-> Nil, id |-> Nil, token |-> Nil]

\* The connections of the account that connection c belongs to.
Account(c) == {d \in Conns : d.type = c.type /\ d.id = c.id}

VARIABLES
  items,     \* connections that have a record
  indexed,    \* connections that are in the list of their account
  users,     \* login ids that some connection was marked online under
  conn,      \* the connection, or the account, a call is about
  rest,      \* connections prune_index or mark_offline_all has left to do
  missing,   \* the connection prune_index found without a record
  \* ---- history
  online,    \* mark_online returned, and nothing has ended the connection since
  sound,     \* whether nothing in this mark_online's way drops what it writes
  hidden     \* login ids dropped on behalf of another login type

prStore == <<items, indexed, users>>
prLocals == <<conn, rest, missing>>
prHistory == <<online, sound, hidden>>
prState == <<prStore, prLocals, prHistory>>
prVars == <<control, prState>>

OnLabels == {"saveItem", "pushToken", "pushUser"}
OffLabels == {"offItem", "offToken"}
AllLabels == {"allRead", "allItems", "allIndex"}
PruneLabels == {"pruneRead", "pruneCheck", "pruneRemove"}
PrLabels == OnLabels \cup OffLabels \cup AllLabels \cup PruneLabels \cup
            {"countTokens", "dropIndex", "dropUser", "touch", "touchSave"}

PrTypeOK ==
  /\ pc \in [Tasks -> PrLabels \cup {"idle"}] /\ calls \in Nat
  /\ items \subseteq Conns /\ indexed \subseteq Conns /\ users \subseteq LoginIds
  /\ conn \in [Tasks -> Conns \cup {NoConn}] /\ rest \in [Tasks -> SUBSET Conns]
  /\ missing \in [Tasks -> Conns \cup {NoConn}]
  /\ online \subseteq Conns /\ sound \in [Tasks -> BOOLEAN]
  /\ hidden \subseteq LoginIds

PrInit ==
  /\ items = {} /\ indexed = {} /\ users = {}
  /\ conn = [t \in Tasks |-> NoConn] /\ rest = [t \in Tasks |-> {}]
  /\ missing = [t \in Tasks |-> NoConn]
  /\ online = {} /\ sound = [t \in Tasks |-> FALSE] /\ hidden = {}

PrStart(t, l, c) ==
  Begin(t, l) /\ conn' = [conn EXCEPT ![t] = c] /\ UNCHANGED <<rest, missing>>

PrEnd(t) ==
  /\ Finish(t)
  /\ conn' = [conn EXCEPT ![t] = NoConn] /\ rest' = [rest EXCEPT ![t] = {}]
  /\ missing' = [missing EXCEPT ![t] = NoConn]

\* A call ends the connections in S, or their TTL does.
Ended(S) ==
  /\ online' = online \ S
  /\ sound' = [q \in Tasks |-> sound[q] /\ conn[q] \notin S]

\* Connection c's own offline calls in progress, and the calls that have decided
\* to drop what its account lists, or c itself.
Leaving(c) == \E q \in Tasks :
  \/ conn[q] = c /\ pc[q] \in OffLabels
  \/ conn[q] \in Account(c) /\ pc[q] \in AllLabels
Dropping(c, labels) == \E q \in Tasks :
  \/ conn[q] \in Account(c) /\ pc[q] \in labels
  \/ missing[q] = c /\ pc[q] = "pruneRemove"

-----------------------------------------------------------------------------
(***************************************************************************)
(* mark_online                                                             *)
(***************************************************************************)
MarkOnline(t, c) ==
  /\ PrStart(t, "saveItem", c)
  /\ sound' = [sound EXCEPT ![t] = ~Leaving(c)]
  /\ UNCHANGED <<prStore, online, hidden>>

SaveItem(t) ==
  /\ pc[t] = "saveItem"
  /\ items' = items \cup {conn[t]}
  /\ Goto(t, "pushToken")
  /\ UNCHANGED <<indexed, users, prLocals, prHistory>>

PushToken(t) ==
  /\ pc[t] = "pushToken"
  /\ indexed' = indexed \cup {conn[t]}
  /\ sound' = [sound EXCEPT ![t] = @ /\ ~Dropping(conn[t], {"dropIndex"})]
  /\ Goto(t, "pushUser")
  /\ UNCHANGED <<items, users, prLocals, online, hidden>>

\* The login id is indexed without its type.
PushUser(t) ==
  /\ pc[t] = "pushUser"
  /\ users' = users \cup {conn[t].id}
  /\ online' = IF sound[t] /\ ~Dropping(conn[t], {"dropIndex", "dropUser"})
               THEN online \cup {conn[t]} ELSE online
  /\ hidden' = hidden \ {conn[t].id}
  /\ sound' = [sound EXCEPT ![t] = FALSE]
  /\ PrEnd(t)
  /\ UNCHANGED <<items, indexed>>

(***************************************************************************)
(* mark_offline and mark_offline_all                                       *)
(***************************************************************************)
MarkOffline(t, c) ==
  /\ PrStart(t, "offItem", c)
  /\ Ended({c})
  /\ UNCHANGED <<prStore, hidden>>

OffItem(t) ==
  /\ pc[t] = "offItem"
  /\ items' = items \ {conn[t]}
  /\ Goto(t, "offToken")
  /\ UNCHANGED <<indexed, users, prLocals, prHistory>>

OffToken(t) ==
  /\ pc[t] = "offToken"
  /\ indexed' = indexed \ {conn[t]}
  /\ Goto(t, "countTokens")
  /\ UNCHANGED <<items, users, prLocals, prHistory>>

MarkOfflineAll(t, c) ==
  /\ PrStart(t, "allRead", c)
  /\ Ended(Account(c))
  /\ UNCHANGED <<prStore, hidden>>

AllRead(t) ==
  /\ pc[t] = "allRead"
  /\ rest' = [rest EXCEPT ![t] = indexed \cap Account(conn[t])]
  /\ Goto(t, "allItems")
  /\ UNCHANGED <<prStore, conn, missing, prHistory>>

\* A record whose deletion fails is left behind.
AllItems(t) ==
  /\ pc[t] = "allItems"
  /\ IF rest[t] = {} THEN Goto(t, "allIndex") /\ UNCHANGED <<items, rest>>
     ELSE \E c \in rest[t] :
            /\ rest' = [rest EXCEPT ![t] = @ \ {c}]
            /\ items' = items \ {c} \/ (MayFail /\ UNCHANGED items)
            /\ UNCHANGED control
  /\ UNCHANGED <<indexed, users, conn, missing, prHistory>>

(***************************************************************************)
(* prune_index, which get_user_sessions and is_online begin with            *)
(***************************************************************************)
PruneIndex(t, c) == PrStart(t, "pruneRead", c) /\ UNCHANGED <<prStore, prHistory>>

PruneRead(t) ==
  /\ pc[t] = "pruneRead"
  /\ rest' = [rest EXCEPT ![t] = indexed \cap Account(conn[t])]
  /\ Goto(t, "pruneCheck")
  /\ UNCHANGED <<prStore, conn, missing, prHistory>>

PruneCheck(t) ==
  /\ pc[t] = "pruneCheck"
  /\ IF rest[t] = {} THEN Goto(t, "countTokens") /\ UNCHANGED <<rest, missing>>
     ELSE \E c \in rest[t] :
            /\ rest' = [rest EXCEPT ![t] = @ \ {c}]
            /\ IF c \in items THEN UNCHANGED <<control, missing>>
               ELSE Goto(t, "pruneRemove") /\ missing' = [missing EXCEPT ![t] = c]
  /\ UNCHANGED <<prStore, conn, prHistory>>

PruneRemove(t) ==
  /\ pc[t] = "pruneRemove"
  /\ indexed' = indexed \ {missing[t]}
  /\ missing' = [missing EXCEPT ![t] = NoConn]
  /\ Goto(t, "pruneCheck")
  /\ UNCHANGED <<items, users, conn, rest, prHistory>>

\* Mutant: the list is taken to be empty once the call's own tokens are done.
CountTokensSkipped(t) ==
  /\ pc[t] = "countTokens"
  /\ Goto(t, "dropIndex") /\ UNCHANGED prLocals
  /\ UNCHANGED <<prStore, prHistory>>

\* The account's list goes, and with it the login id, when it is seen empty.
CountTokens(t) ==
  /\ pc[t] = "countTokens"
  /\ IF indexed \cap Account(conn[t]) = {}
     THEN Goto(t, "dropIndex") /\ UNCHANGED prLocals
     ELSE PrEnd(t)
  /\ UNCHANGED <<prStore, prHistory>>

\* delete of the list's key: Redis keeps the list (see Backends).
DropIndex(t) ==
  /\ pc[t] \in {"dropIndex", "allIndex"}
  /\ indexed' = indexed \ Account(conn[t]) \/ UNCHANGED indexed
  /\ Goto(t, "dropUser")
  /\ UNCHANGED <<items, users, prLocals, prHistory>>

DropUser(t) ==
  /\ pc[t] = "dropUser"
  /\ users' = users \ {conn[t].id}
  /\ hidden' = IF \E c \in online : c.id = conn[t].id /\ c.type # conn[t].type
               THEN hidden \cup {conn[t].id} ELSE hidden
  /\ PrEnd(t)
  /\ UNCHANGED <<items, indexed, online, sound>>

-----------------------------------------------------------------------------
\* update_activity writes the record it read, even when it is gone by then.
UpdateActivity(t, c) == PrStart(t, "touch", c) /\ UNCHANGED <<prStore, prHistory>>

Touch(t) ==
  /\ pc[t] = "touch"
  /\ IF conn[t] \in items THEN Goto(t, "touchSave") /\ UNCHANGED prLocals
     ELSE PrEnd(t)
  /\ UNCHANGED <<prStore, prHistory>>

TouchSave(t) ==
  /\ pc[t] = "touchSave"
  /\ items' = items \cup {conn[t]}
  /\ PrEnd(t)
  /\ UNCHANGED <<indexed, users, prHistory>>

\* entry_ttl ends for a record, or for the list of an account, which activity
\* does not renew.
ExpireEntry ==
  /\ EntriesExpire
  /\ \E c \in Conns :
       \/ /\ c \in items /\ items' = items \ {c} /\ UNCHANGED indexed
          /\ Ended({c})
       \/ /\ c \in indexed /\ indexed' = indexed \ Account(c) /\ UNCHANGED items
          /\ Ended(Account(c))
  /\ UNCHANGED <<control, users, prLocals, hidden>>

PrDropped(t) ==
  /\ MayFail /\ pc[t] # "idle" /\ PrEnd(t)
  /\ sound' = [sound EXCEPT ![t] = FALSE]
  /\ UNCHANGED <<prStore, online, hidden>>

PrTask(t) ==
  \/ \E c \in Conns : MarkOnline(t, c) \/ MarkOffline(t, c) \/ UpdateActivity(t, c)
  \/ \E c \in Conns : MarkOfflineAll(t, c) \/ PruneIndex(t, c)
  \/ SaveItem(t) \/ PushToken(t) \/ PushUser(t) \/ OffItem(t) \/ OffToken(t)
  \/ AllRead(t) \/ AllItems(t) \/ PruneRead(t) \/ PruneCheck(t) \/ PruneRemove(t)
  \/ CountTokens(t) \/ DropIndex(t) \/ DropUser(t) \/ Touch(t) \/ TouchSave(t)
  \/ PrDropped(t)

PrNext == (\E t \in Tasks : PrTask(t)) \/ ExpireEntry

PrSpec == ControlInit /\ PrInit /\ [][PrNext]_prVars

-----------------------------------------------------------------------------
\* A connection that was marked online, and that neither its own offline calls
\* nor a TTL has ended, is found by every way to look for it: it has its record,
\* its place in its account's list, and its login id among the users, unless
\* another login type of that id took the id away.  Losing it takes a call that
\* saw the list empty, or the record missing, just before mark_online wrote it.
OnlineIsListed ==
  online \subseteq {c \in items \cap indexed : c.id \in users \cup hidden}

=============================================================================
