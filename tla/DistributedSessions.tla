------------------------ MODULE DistributedSessions ------------------------
(***************************************************************************)
(* DistributedSessionManager over its two storages.  The in-memory one keeps *)
(* sessions and login index under two tokio RwLocks and holds one while it   *)
(* waits for the other; SaStorageDistributedStorage is a series of storage   *)
(* calls without a lock.  An update (refresh_session, set_attribute,         *)
(* remove_attribute) reads a session and then saves it.                      *)
(***************************************************************************)
EXTENDS Requests

CONSTANTS
  Logins,     \* login ids
  Sessions,   \* session ids, each created once
  Carried,    \* access tokens a session may carry
  Storages    \* subset of {"memory", "stored"}

Kinds == {"save", "delete", "list", "deleteListed"}

ASSUME SessionsAssumption ==
  /\ Storages \subseteq {"memory", "stored"}
  /\ Nil \notin Tasks /\ Nil \notin Logins /\ Nil \notin Sessions
  /\ Nil \notin Carried /\ Nil \notin Kinds /\ Nil \notin [login : Logins, token : Carried]

VARIABLES
  storage,    \* the storage in use
  live,       \* stored sessions
  listed,     \* login index
  writer,     \* the task that holds the sessions lock for writing
  readers,    \* tasks that hold the login_index lock for reading
  \* ---- a call's arguments and local variables
  kind, login, sid,
  carrying,   \* the token delete_sessions_by_token looks for, else Nil
  todo, found,
  \* ---- history
  made,       \* login and token of each session created
  must,       \* sessions a call has to delete
  gone,       \* sessions a call has answered for
  contended,  \* sessions of overlapping or broken-off calls
  torn        \* sessions whose call was dropped between the two maps

dsStore == <<storage, live, listed>>
dsLocks == <<writer, readers>>
dsLocals == <<kind, login, sid, carrying, todo, found>>
dsHistory == <<made, must, gone, contended, torn>>
dsState == <<dsStore, dsLocks, dsLocals, dsHistory>>
dsVars == <<control, dsState>>

DeleteLabels == {"find", "dropAbsent", "dropSession", "unlist", "count", "dropList"}
DsLabels == DeleteLabels \cup
  {"readForUpdate", "putSession", "putIndex", "list", "collect", "prune", "deleteNext"}

DsTypeOK ==
  /\ pc \in [Tasks -> DsLabels \cup {"idle"}] /\ calls \in Nat
  /\ storage \in Storages /\ live \subseteq Sessions
  /\ listed \in [Logins -> SUBSET Sessions]
  /\ writer \in Tasks \cup {Nil} /\ readers \subseteq Tasks
  /\ kind \in [Tasks -> Kinds \cup {Nil}] /\ login \in [Tasks -> Logins \cup {Nil}]
  /\ sid \in [Tasks -> Sessions \cup {Nil}]
  /\ carrying \in [Tasks -> Carried \cup {Nil}]
  /\ todo \in [Tasks -> SUBSET Sessions] /\ found \in [Tasks -> SUBSET Sessions]
  /\ made \in [Sessions -> [login : Logins, token : Carried] \cup {Nil}]
  /\ must \in [Tasks -> SUBSET Sessions]
  /\ gone \subseteq Sessions /\ contended \subseteq Sessions
  /\ torn \subseteq Sessions

DsInit ==
  /\ storage \in Storages /\ live = {} /\ listed = [u \in Logins |-> {}]
  /\ writer = Nil /\ readers = {}
  /\ kind = [t \in Tasks |-> Nil] /\ login = [t \in Tasks |-> Nil]
  /\ sid = [t \in Tasks |-> Nil] /\ carrying = [t \in Tasks |-> Nil]
  /\ todo = [t \in Tasks |-> {}] /\ found = [t \in Tasks |-> {}]
  /\ made = [s \in Sessions |-> Nil] /\ must = [t \in Tasks |-> {}]
  /\ gone = {} /\ contended = {} /\ torn = {}

Locking == storage = "memory"
SessionsOf(u) == {s \in Sessions : made[s] # Nil /\ made[s].login = u}

\* A call on login u, about session s or about all of them.
DsBegin(t, l, k, u, s, c, m) ==
  /\ Begin(t, l)
  /\ kind' = [kind EXCEPT ![t] = k] /\ login' = [login EXCEPT ![t] = u]
  /\ sid' = [sid EXCEPT ![t] = s] /\ carrying' = [carrying EXCEPT ![t] = c]
  /\ must' = [must EXCEPT ![t] = m]
  /\ LET others == {q \in Tasks : login[q] = u}
     IN contended' = IF others = {} THEN contended
                     ELSE contended \cup (({s} \cup m \cup {sid[q] : q \in others}
                                             \cup UNION {must[q] : q \in others})
                                          \ {Nil})
  /\ UNCHANGED <<dsStore, dsLocks, todo, found, gone, torn>>

Return(t) ==
  /\ Finish(t)
  /\ kind' = [kind EXCEPT ![t] = Nil] /\ login' = [login EXCEPT ![t] = Nil]
  /\ sid' = [sid EXCEPT ![t] = Nil] /\ carrying' = [carrying EXCEPT ![t] = Nil]
  /\ todo' = [todo EXCEPT ![t] = {}] /\ found' = [found EXCEPT ![t] = {}]
  /\ must' = [must EXCEPT ![t] = {}]

-----------------------------------------------------------------------------
(***************************************************************************)
(* create_session and the updates: save_session                            *)
(***************************************************************************)
CreateSession(t, u, s, c) ==
  /\ made[s] = Nil
  /\ made' = [made EXCEPT ![s] = [login |-> u, token |-> c]]
  /\ DsBegin(t, "putSession", "save", u, s, Nil, {})

UpdateSession(t, s) ==
  /\ made[s] # Nil
  /\ DsBegin(t, "readForUpdate", "save", made[s].login, s, Nil, {})
  /\ UNCHANGED made

\* get_session: an absent session is SessionNotFound.
ReadForUpdate(t) ==
  /\ pc[t] = "readForUpdate" /\ writer = Nil
  /\ \/ sid[t] \in live /\ Goto(t, "putSession") /\ UNCHANGED <<dsLocals, must>>
     \/ sid[t] \notin live /\ Return(t)
  /\ UNCHANGED <<dsStore, dsLocks, made, gone, contended, torn>>

\* Mutant: the sessions lock is released before the index is written.
PutSessionUnlocked(t) ==
  /\ pc[t] = "putSession" /\ writer = Nil
  /\ live' = live \cup {sid[t]}
  /\ Goto(t, "putIndex")
  /\ UNCHANGED <<storage, listed, dsLocks, dsLocals, dsHistory>>

PutSession(t) ==
  /\ pc[t] = "putSession" /\ writer = Nil
  /\ live' = live \cup {sid[t]}
  /\ writer' = IF Locking THEN t ELSE Nil
  /\ Goto(t, "putIndex")
  /\ UNCHANGED <<storage, listed, readers, dsLocals, dsHistory>>

\* Mutant: only a user who has an index gets the entry.
PutIndexListed(t) ==
  /\ pc[t] = "putIndex" /\ readers = {}
  /\ listed' = [listed EXCEPT ![login[t]] = IF @ = {} THEN {} ELSE @ \cup {sid[t]}]
  /\ writer' = Nil
  /\ Return(t)
  /\ UNCHANGED <<storage, live, readers, made, gone, contended, torn>>

PutIndex(t) ==
  /\ pc[t] = "putIndex" /\ readers = {}
  /\ listed' = [listed EXCEPT ![login[t]] = @ \cup {sid[t]}]
  /\ writer' = Nil
  /\ Return(t)
  /\ UNCHANGED <<storage, live, readers, made, gone, contended, torn>>

-----------------------------------------------------------------------------
(***************************************************************************)
(* delete_session                                                          *)
(***************************************************************************)
DeleteFirst == IF Locking THEN "dropSession" ELSE "find"

DeleteSession(t, s) ==
  /\ made[s] # Nil
  /\ DsBegin(t, DeleteFirst, "delete", made[s].login, s, Nil, {s})
  /\ UNCHANGED made

\* One session is deleted: the call is over, or goes on with the next.
Deleted(t) ==
  IF kind[t] = "delete"
  THEN Return(t) /\ gone' = gone \cup must[t]
  ELSE Goto(t, "deleteNext") /\ UNCHANGED <<dsLocals, must, gone>>

\* Stored: the session is read first, for its login_id.
Find(t) ==
  /\ pc[t] = "find"
  /\ Goto(t, IF sid[t] \in live THEN "dropSession" ELSE "dropAbsent")
  /\ UNCHANGED <<dsStore, dsLocks, dsLocals, dsHistory>>

\* The key of a session that was not found is deleted all the same.
DropAbsent(t) ==
  /\ pc[t] = "dropAbsent"
  /\ live' = live \ {sid[t]}
  /\ Deleted(t)
  /\ UNCHANGED <<storage, listed, dsLocks, made, contended, torn>>

DropSession(t) ==
  /\ pc[t] = "dropSession" /\ writer = Nil
  /\ live' = live \ {sid[t]}
  /\ IF Locking /\ sid[t] \notin live
     THEN Deleted(t) /\ UNCHANGED writer
     ELSE /\ writer' = (IF Locking THEN t ELSE Nil)
          /\ Goto(t, "unlist") /\ UNCHANGED <<dsLocals, must, gone>>
  /\ UNCHANGED <<storage, listed, readers, made, contended, torn>>

Unlist(t) ==
  /\ pc[t] = "unlist" /\ readers = {}
  /\ listed' = [listed EXCEPT ![login[t]] = @ \ {sid[t]}]
  /\ writer' = Nil
  /\ IF Locking THEN Deleted(t)
     ELSE Goto(t, "count") /\ UNCHANGED <<dsLocals, must, gone>>
  /\ UNCHANGED <<storage, live, readers, made, contended, torn>>

\* Stored: an index found empty is deleted, one call later.
Count(t) ==
  /\ pc[t] = "count"
  /\ \/ /\ listed[login[t]] = {}
        /\ Goto(t, "dropList") /\ UNCHANGED <<dsLocals, must, gone>>
     \/ listed[login[t]] # {} /\ Deleted(t)
  /\ UNCHANGED <<dsStore, dsLocks, made, contended, torn>>

DropList(t) ==
  /\ pc[t] = "dropList"
  /\ listed' = [listed EXCEPT ![login[t]] = {}]
  /\ Deleted(t)
  /\ UNCHANGED <<storage, live, dsLocks, made, contended, torn>>

-----------------------------------------------------------------------------
(***************************************************************************)
(* get_sessions_by_login_id, delete_all_sessions, delete_sessions_by_token  *)
(***************************************************************************)
ListSessions(t, u) ==
  DsBegin(t, "list", "list", u, Nil, Nil, {}) /\ UNCHANGED made

Wanted(c, S) == {s \in S : c = Nil \/ made[s].token = c}

\* c = Nil: delete_all_sessions; otherwise only the sessions that carry c.
DeleteListed(t, u, c) ==
  /\ DsBegin(t, "list", "deleteListed", u, Nil, c, Wanted(c, SessionsOf(u)))
  /\ UNCHANGED made

\* In memory the index lock is held until the sessions have been read too.
List(t) ==
  /\ pc[t] = "list"
  /\ todo' = [todo EXCEPT ![t] = listed[login[t]]]
  /\ readers' = IF Locking THEN readers \cup {t} ELSE readers
  /\ Goto(t, "collect")
  /\ UNCHANGED <<dsStore, writer, kind, login, sid, carrying, found, dsHistory>>

Listed(t, S) ==
  IF kind[t] = "list" THEN Return(t)
  ELSE /\ Goto(t, "deleteNext")
       /\ todo' = [todo EXCEPT ![t] = Wanted(carrying[t], S)]
       /\ UNCHANGED <<kind, login, sid, carrying, found, must>>

CollectInMemory(t) ==
  /\ Locking /\ pc[t] = "collect" /\ writer = Nil
  /\ readers' = readers \ {t}
  /\ Listed(t, todo[t] \cap live)
  /\ UNCHANGED <<dsStore, writer, made, gone, contended, torn>>

\* Stored: the listed sessions are read one by one; an absent one is unlisted.
Collect(t) ==
  /\ ~Locking /\ pc[t] = "collect"
  /\ \/ todo[t] = {} /\ Listed(t, found[t])
     \/ \E s \in todo[t] :
          /\ todo' = [todo EXCEPT ![t] = @ \ {s}]
          /\ IF s \in live
             THEN /\ found' = [found EXCEPT ![t] = @ \cup {s}]
                  /\ UNCHANGED <<control, sid>>
             ELSE /\ sid' = [sid EXCEPT ![t] = s]
                  /\ Goto(t, "prune") /\ UNCHANGED found
          /\ UNCHANGED <<kind, login, carrying, must>>
  /\ UNCHANGED <<dsStore, dsLocks, made, gone, contended, torn>>

Prune(t) ==
  /\ pc[t] = "prune"
  /\ listed' = [listed EXCEPT ![login[t]] = @ \ {sid[t]}]
  /\ Goto(t, "collect")
  /\ UNCHANGED <<storage, live, dsLocks, dsLocals, dsHistory>>

DeleteNext(t) ==
  /\ pc[t] = "deleteNext"
  /\ \/ todo[t] = {} /\ Return(t) /\ gone' = gone \cup must[t]
     \/ \E s \in todo[t] :
          /\ todo' = [todo EXCEPT ![t] = @ \ {s}]
          /\ sid' = [sid EXCEPT ![t] = s]
          /\ Goto(t, DeleteFirst)
          /\ UNCHANGED <<kind, login, carrying, found, must, gone>>
  /\ UNCHANGED <<dsStore, dsLocks, made, contended, torn>>

\* Stored: the session's TTL ends; the index has none.
ExpireSession(s) ==
  /\ ~Locking /\ s \in live
  /\ live' = live \ {s}
  /\ UNCHANGED <<control, storage, listed, dsLocks, dsLocals, dsHistory>>

\* A request is dropped: its guards release their locks.
DsDropped(t) ==
  /\ MayFail /\ pc[t] # "idle"
  /\ contended' = contended \cup ((must[t] \cup {sid[t]}) \ {Nil})
  /\ torn' = IF writer = t THEN torn \cup {sid[t]} ELSE torn
  /\ writer' = (IF writer = t THEN Nil ELSE writer)
  /\ readers' = readers \ {t}
  /\ Return(t)
  /\ UNCHANGED <<dsStore, made, gone>>

DsCall(t) ==
  \/ \E u \in Logins, s \in Sessions, c \in Carried : CreateSession(t, u, s, c)
  \/ \E s \in Sessions : UpdateSession(t, s) \/ DeleteSession(t, s)
  \/ \E u \in Logins : ListSessions(t, u)
  \/ \E u \in Logins, c \in Carried \cup {Nil} : DeleteListed(t, u, c)

DsStep(t) ==
  \/ ReadForUpdate(t) \/ PutSession(t) \/ PutIndex(t)
  \/ Find(t) \/ DropAbsent(t) \/ DropSession(t) \/ Unlist(t) \/ Count(t) \/ DropList(t)
  \/ List(t) \/ CollectInMemory(t) \/ Collect(t) \/ Prune(t) \/ DeleteNext(t)

DsNext ==
  \/ \E t \in Tasks : DsCall(t) \/ DsStep(t) \/ DsDropped(t)
  \/ \E s \in Sessions : ExpireSession(s)

DsSpec == ControlInit /\ DsInit /\ [][DsNext]_dsVars

\* A task whose locks are free goes on.
DsFairSpec == DsSpec /\ \A t \in Tasks : WF_dsVars(DsStep(t))

-----------------------------------------------------------------------------
\* In memory, the login index lists exactly the stored sessions whenever nobody
\* holds the sessions lock, but for a session whose request was dropped between
\* the two maps ("session not found" never happens otherwise).
IndexAgrees ==
  Locking /\ writer = Nil =>
    \A u \in Logins : listed[u] \ torn = (live \cap SessionsOf(u)) \ torn

\* A session that delete_session, delete_all_sessions or delete_sessions_by_token
\* answered for is not stored, unless calls on its user overlapped or broke off:
\* an update that read it before writes it back.
DeletedStaysDeleted == gone \cap live \subseteq contended

\* "Delete a session from storage": every call on the sessions answers.
SessionCallsReturn == \A t \in Tasks : pc[t] # "idle" ~> pc[t] = "idle"

=============================================================================
