---------------------------- MODULE SessionProofs ----------------------------
(***************************************************************************)
(* What is kept about a login beside its token, for any number of requests:*)
(* distributed sessions, the online presence, and the parts a login stores *)
(* and a logout, a kick-out or a ban must find.                            *)
(***************************************************************************)
EXTENDS DistributedSessions, Presence, LoginParts, TLAPS

-----------------------------------------------------------------------------
(***************************************************************************)
(* Distributed sessions: in memory the two maps agree but for the session  *)
(* the holder of the sessions lock is at; in any storage a deletion has    *)
(* what it must delete still before it.                                    *)
(***************************************************************************)
\* Session s was created for login u.
Of(s, u) == made[s] # Nil /\ made[s].login = u

\* What the kind and the place of a call say about its arguments.
Working ==
  \A t \in Tasks :
    /\ pc[t] = "idle" <=> login[t] = Nil
    /\ pc[t] \in {"readForUpdate", "putSession", "putIndex"} =>
         kind[t] = "save" /\ sid[t] \in Sessions /\ Of(sid[t], login[t])
    /\ pc[t] \in DeleteLabels =>
         /\ kind[t] \in {"delete", "deleteListed"}
         /\ sid[t] \in Sessions /\ Of(sid[t], login[t])
    /\ pc[t] \in {"list", "collect", "prune"} => kind[t] \in {"list", "deleteListed"}
    /\ pc[t] = "prune" => sid[t] \in Sessions /\ Of(sid[t], login[t])
    /\ pc[t] = "deleteNext" => kind[t] = "deleteListed"
    /\ kind[t] \in {"save", "list", Nil} => must[t] = {}
    /\ kind[t] = "delete" => must[t] = {sid[t]}
    /\ kind[t] = "deleteListed" =>
         \A s \in must[t] : Of(s, login[t])
                            /\ (carrying[t] = Nil \/ made[s].token = carrying[t])
    /\ \A s \in todo[t] \cup found[t] : Of(s, login[t])

\* Sessions are stored, listed and deleted once they are made.
Existing ==
  /\ \A s \in live \cup gone : made[s] # Nil
  /\ \A u \in Logins : \A s \in listed[u] : Of(s, u)

\* In memory, a task between the two maps holds the sessions lock.
Locks ==
  /\ ~Locking => writer = Nil
  /\ Locking => \A t \in Tasks :
       /\ writer = t <=> pc[t] \in {"putIndex", "unlist"}
       /\ pc[t] \notin {"find", "dropAbsent", "count", "dropList", "prune"}
       /\ found[t] = {}

\* In memory, the maps agree but for the session the writer is at.
Agreement ==
  Locking =>
    /\ \A s \in Sessions \ torn :
         made[s] # Nil /\ (\A t \in Tasks : writer = t => sid[t] # s) =>
           (s \in live <=> s \in listed[made[s].login])
    /\ \A t \in Tasks : /\ pc[t] = "putIndex" => sid[t] \in live
                        /\ pc[t] = "unlist" => sid[t] \notin live

\* Of two calls on one login, neither relies on its own sessions.
Overlap ==
  \A t, q \in Tasks : t # q /\ login[t] # Nil /\ login[t] = login[q] =>
    must[t] \subseteq contended /\ (kind[t] = "save" => sid[t] \in contended)

\* The entry that is about to go is that of a session that is not stored, and a
\* list that is about to go is empty, unless calls overlapped.
Unlisting ==
  \A t \in Tasks :
    /\ pc[t] \in {"unlist", "count", "dropList", "prune"} =>
         sid[t] \notin live \/ sid[t] \in contended
    /\ pc[t] = "dropList" => listed[login[t]] \subseteq contended

\* A stored session is listed or about to be.
Findable ==
  \A s \in live \ contended :
    s \in listed[made[s].login] \/ \E t \in Tasks : pc[t] = "putIndex" /\ sid[t] = s

\* The sessions a deletion has still to delete are before it.
Remaining ==
  \A t \in Tasks : kind[t] = "deleteListed" =>
    \A s \in (must[t] \cap live) \ contended :
      /\ pc[t] \in {"collect", "prune"} => s \in todo[t] \cup found[t]
      /\ pc[t] \in {"find", "dropAbsent", "dropSession"} => s \in todo[t] \cup {sid[t]}
      /\ pc[t] \in {"deleteNext", "unlist", "count", "dropList"} => s \in todo[t]

\* A session that was answered for is not stored, and no save is at it.
Gone ==
  \A s \in gone \ contended :
    s \notin live /\ \A t \in Tasks : pc[t] = "putSession" => sid[t] # s

\* What is invariant of the distributed sessions.
DsInv ==
  /\ DsTypeOK /\ Working /\ Existing /\ Locks /\ Agreement
  /\ Overlap /\ Unlisting /\ Findable /\ Remaining /\ Gone

\* The types of a call's variables.
CallTypes ==
  /\ pc \in [Tasks -> DsLabels \cup {"idle"}] /\ calls \in Nat
  /\ kind \in [Tasks -> Kinds \cup {Nil}] /\ login \in [Tasks -> Logins \cup {Nil}]
  /\ sid \in [Tasks -> Sessions \cup {Nil}]
  /\ carrying \in [Tasks -> Carried \cup {Nil}]
  /\ todo \in [Tasks -> SUBSET Sessions] /\ found \in [Tasks -> SUBSET Sessions]
  /\ must \in [Tasks -> SUBSET Sessions]

\* A call that returns leaves nothing behind.
LEMMA WhenReturning ==
  ASSUME DsTypeOK, Working, NEW t \in Tasks, Return(t), UNCHANGED made
  PROVE  CallTypes' /\ Working'
<1> USE SessionsAssumption DEF DsTypeOK, DsLabels, DeleteLabels, Kinds, Return, Finish,
    Goto
<1>1. CallTypes'
  BY DEF CallTypes
<1>2. Working'
  BY DEF Working, Of
<1> QED BY <1>1, <1>2

\* One deletion is over: the call returns, or goes on with the next.
LEMMA WhenDeleted ==
  ASSUME DsTypeOK, Working, NEW t \in Tasks, pc[t] \in DeleteLabels, Deleted(t),
         UNCHANGED made
  PROVE  CallTypes' /\ Working' /\ gone' \subseteq Sessions
<1>1. CASE Return(t) /\ gone' = gone \cup must[t]
  BY <1>1, WhenReturning DEF DsTypeOK
<1>2. CASE /\ kind[t] # "delete" /\ Goto(t, "deleteNext")
           /\ UNCHANGED <<dsLocals, must, gone>>
  BY <1>2, SessionsAssumption DEF DsTypeOK, DsLabels, Goto, CallTypes, Working, Of,
     dsLocals
<1> QED BY <1>1, <1>2 DEF Deleted

\* The storage starts empty, with nobody calling.
LEMMA DsInitial == ControlInit /\ DsInit => DsInv
<1> USE SessionsAssumption DEF ControlInit, DsInit, Locking, Kinds
<1>1. ControlInit /\ DsInit => DsTypeOK /\ Working /\ Existing
  BY DEF DsTypeOK, DeleteLabels, Working, Existing
<1>2. ControlInit /\ DsInit => Locks /\ Agreement /\ Overlap
  BY DEF Locks, Agreement, Overlap
<1>3. ControlInit /\ DsInit => Unlisting /\ Findable /\ Remaining /\ Gone
  BY DEF Unlisting, Findable, Remaining, Gone
<1> QED BY <1>1, <1>2, <1>3 DEF DsInv

\* Every step of a call keeps the invariant; one step of the proof per action.
LEMMA DsInductive ==
  ASSUME DsInv, [DsNext]_dsVars
  PROVE  DsInv'
<1> USE SessionsAssumption, RequestsAssumption
    DEF Kinds, DsInv, dsStore, dsLocks, dsLocals, dsHistory, Locking, Of
<1>1. ASSUME NEW t \in Tasks, NEW u \in Logins, NEW s \in Sessions, NEW c \in Carried,
             CreateSession(t, u, s, c)
      PROVE  DsInv'
  <2> USE DEF CreateSession, DsBegin, Begin, Call
  <2>1. DsTypeOK'
    BY <1>1 DEF DsTypeOK, DsLabels
  <2>2. Working'
    BY <1>1 DEF DsTypeOK, DeleteLabels, Working
  <2>3. Existing'
    BY <1>1 DEF Existing
  <2>4. Locks'
    BY <1>1 DEF Locks
  <2>5. Agreement'
    BY <1>1 DEF Existing, Locks, Agreement
  <2>6. Overlap'
    BY <1>1 DEF DsTypeOK, DsLabels, DeleteLabels, Working, Existing, Locks, Overlap
  <2>7. Unlisting'
    BY <1>1 DEF Unlisting
  <2>8. Findable'
    BY <1>1 DEF Existing, Findable
  <2>9. Remaining'
    BY <1>1 DEF Remaining
  <2>10. Gone'
    BY <1>1 DEF DsTypeOK, Existing, Gone
  <2> QED BY <2>1, <2>2, <2>3, <2>4, <2>5, <2>6, <2>7, <2>8, <2>9, <2>10
<1>2. ASSUME NEW t \in Tasks, NEW s \in Sessions, UpdateSession(t, s)
      PROVE  DsInv'
  <2> USE DEF UpdateSession, DsBegin, Begin, Call
  <2>1. DsTypeOK'
    BY <1>2 DEF DsTypeOK, DsLabels
  <2>2. Working'
    BY <1>2 DEF DsTypeOK, DeleteLabels, Working
  <2>3. Existing'
    BY <1>2 DEF Existing
  <2>4. Locks'
    BY <1>2 DEF Locks
  <2>5. Agreement'
    BY <1>2 DEF Locks, Agreement
  <2>6. Overlap'
    BY <1>2 DEF DsTypeOK, DsLabels, Working, Overlap
  <2>7. Unlisting'
    BY <1>2 DEF Unlisting
  <2>8. Findable'
    BY <1>2 DEF Findable
  <2>9. Remaining'
    BY <1>2 DEF Remaining
  <2>10. Gone'
    BY <1>2 DEF Gone
  <2> QED BY <2>1, <2>2, <2>3, <2>4, <2>5, <2>6, <2>7, <2>8, <2>9, <2>10
<1>3. ASSUME NEW t \in Tasks, NEW s \in Sessions, DeleteSession(t, s)
      PROVE  DsInv'
  <2> USE DEF DeleteSession, DsBegin, Begin, Call, DeleteFirst
  <2>1. DsTypeOK'
    BY <1>3 DEF DsTypeOK, DsLabels, DeleteLabels
  <2>2. Working'
    BY <1>3 DEF DsTypeOK, Working
  <2>3. Existing'
    BY <1>3 DEF Existing
  <2>4. Locks'
    BY <1>3 DEF Locks
  <2>5. Agreement'
    BY <1>3 DEF Locks, Agreement
  <2>6. Overlap'
    BY <1>3 DEF DsTypeOK, DsLabels, Working, Existing, Overlap
  <2>7. Unlisting'
    BY <1>3 DEF Unlisting
  <2>8. Findable'
    BY <1>3 DEF Findable
  <2>9. Remaining'
    BY <1>3 DEF DsTypeOK, Remaining
  <2>10. Gone'
    BY <1>3 DEF Gone
  <2> QED BY <2>1, <2>2, <2>3, <2>4, <2>5, <2>6, <2>7, <2>8, <2>9, <2>10
<1>4. ASSUME NEW t \in Tasks, NEW u \in Logins, ListSessions(t, u)
      PROVE  DsInv'
  <2> USE DEF ListSessions, DsBegin, Begin, Call
  <2>1. DsTypeOK'
    BY <1>4 DEF DsTypeOK, DsLabels
  <2>2. Working'
    BY <1>4 DEF DsTypeOK, DeleteLabels, Working
  <2>3. Existing'
    BY <1>4 DEF Existing
  <2>4. Locks'
    BY <1>4 DEF Locks
  <2>5. Agreement'
    BY <1>4 DEF Locks, Agreement
  <2>6. Overlap'
    BY <1>4 DEF DsTypeOK, DsLabels, Working, Overlap
  <2>7. Unlisting'
    BY <1>4 DEF Unlisting
  <2>8. Findable'
    BY <1>4 DEF Findable
  <2>9. Remaining'
    BY <1>4 DEF Remaining
  <2>10. Gone'
    BY <1>4 DEF Gone
  <2> QED BY <2>1, <2>2, <2>3, <2>4, <2>5, <2>6, <2>7, <2>8, <2>9, <2>10
<1>5. ASSUME NEW t \in Tasks, NEW u \in Logins, NEW c \in Carried \cup {Nil},
             DeleteListed(t, u, c)
      PROVE  DsInv'
  <2> USE DEF DeleteListed, DsBegin, Begin, Call, Wanted, SessionsOf
  <2>1. DsTypeOK'
    BY <1>5 DEF DsTypeOK, DsLabels
  <2>2. Working'
    BY <1>5 DEF DsTypeOK, DeleteLabels, Working
  <2>3. Existing'
    BY <1>5 DEF Existing
  <2>4. Locks'
    BY <1>5 DEF Locks
  <2>5. Agreement'
    BY <1>5 DEF Locks, Agreement
  <2>6. Overlap'
    BY <1>5 DEF DsTypeOK, DsLabels, Working, Overlap
  <2>7. Unlisting'
    BY <1>5 DEF Unlisting
  <2>8. Findable'
    BY <1>5 DEF Findable
  <2>9. Remaining'
    BY <1>5 DEF Remaining
  <2>10. Gone'
    BY <1>5 DEF Gone
  <2> QED BY <2>1, <2>2, <2>3, <2>4, <2>5, <2>6, <2>7, <2>8, <2>9, <2>10
<1>6. ASSUME NEW t \in Tasks, ReadForUpdate(t)
      PROVE  DsInv'
  <2> USE DEF ReadForUpdate, Goto, Return, Finish
  <2>0. CallTypes' /\ gone' \subseteq Sessions
    <3> HIDE DEF Return, Deleted, Listed, Working
    <3>1. CASE Return(t)
      BY <1>6, <3>1, WhenReturning DEF DsTypeOK
    <3>2. CASE Goto(t, "putSession") /\ UNCHANGED <<dsLocals, must>>
      BY <1>6, <3>2 DEF DsTypeOK, DsLabels, CallTypes
    <3> QED BY <1>6, <3>1, <3>2
  <2>1. DsTypeOK'
    <3> HIDE DEF Deleted, Return, Listed
    <3> QED BY <1>6, <2>0 DEF DsTypeOK, CallTypes
  <2>2. Working'
    BY <1>6 DEF DsTypeOK, DeleteLabels, Working
  <2>3. Existing'
    BY <1>6 DEF Existing
  <2>4. Locks'
    BY <1>6 DEF DsTypeOK, Locks
  <2>5. Agreement'
    BY <1>6 DEF DsTypeOK, Agreement
  <2>6. Overlap'
    BY <1>6 DEF DsTypeOK, Overlap
  <2>7. Unlisting'
    BY <1>6 DEF DsTypeOK, Unlisting
  <2>8. Findable'
    BY <1>6 DEF DsTypeOK, Findable
  <2>9. Remaining'
    BY <1>6 DEF DsTypeOK, Remaining
  <2>10. Gone'
    BY <1>6 DEF DsTypeOK, Gone
  <2> QED BY <2>1, <2>2, <2>3, <2>4, <2>5, <2>6, <2>7, <2>8, <2>9, <2>10
<1>7. ASSUME NEW t \in Tasks, PutSession(t)
      PROVE  DsInv'
  <2> USE DEF PutSession, Goto
  <2>1. DsTypeOK'
    BY <1>7 DEF DsTypeOK, DsLabels, Working
  <2>2. Working'
    BY <1>7 DEF DeleteLabels, Working
  <2>3. Existing'
    BY <1>7 DEF Working, Existing
  <2>4. Locks'
    BY <1>7 DEF DsTypeOK, Locks
  <2>5. Agreement'
    BY <1>7 DEF Locks, Agreement
  <2>6. Overlap'
    BY <1>7 DEF Overlap
  <2>7. Unlisting'
    BY <1>7 DEF DeleteLabels, Working, Unlisting, Overlap
  <2>8. Findable'
    BY <1>7 DEF DsTypeOK, Findable
  <2>9. Remaining'
    BY <1>7 DEF Working, Remaining, Overlap
  <2>10. Gone'
    BY <1>7 DEF Gone
  <2> QED BY <2>1, <2>2, <2>3, <2>4, <2>5, <2>6, <2>7, <2>8, <2>9, <2>10
<1>8. ASSUME NEW t \in Tasks, PutIndex(t)
      PROVE  DsInv'
  <2> USE DEF PutIndex, Goto, Return, Finish
  <2>0. CallTypes' /\ Working'
    BY <1>8, WhenReturning
  <2>1. DsTypeOK'
    BY <1>8, <2>0 DEF DsTypeOK, Working
  <2>2. Working'
    BY <2>0
  <2>3. Existing'
    BY <1>8 DEF Working, Existing
  <2>4. Locks'
    BY <1>8 DEF DsTypeOK, Locks
  <2>5. Agreement'
    BY <1>8 DEF DsTypeOK, Working, Locks, Agreement
  <2>6. Overlap'
    BY <1>8 DEF DsTypeOK, Overlap
  <2>7. Unlisting'
    BY <1>8 DEF Working, Unlisting, Overlap
  <2>8. Findable'
    BY <1>8 DEF DsTypeOK, Working, Findable
  <2>9. Remaining'
    BY <1>8 DEF Remaining
  <2>10. Gone'
    BY <1>8 DEF Gone
  <2> QED BY <2>1, <2>2, <2>3, <2>4, <2>5, <2>6, <2>7, <2>8, <2>9, <2>10
<1>9. ASSUME NEW t \in Tasks, Find(t)
      PROVE  DsInv'
  <2> USE DEF Find, Goto
  <2>1. DsTypeOK'
    BY <1>9 DEF DsTypeOK, DsLabels, DeleteLabels
  <2>2. Working'
    BY <1>9 DEF DeleteLabels, Working
  <2>3. Existing'
    BY <1>9 DEF Existing
  <2>4. Locks'
    BY <1>9 DEF Locks
  <2>5. Agreement'
    BY <1>9 DEF Agreement
  <2>6. Overlap'
    BY <1>9 DEF Overlap
  <2>7. Unlisting'
    BY <1>9 DEF Unlisting
  <2>8. Findable'
    BY <1>9 DEF Findable
  <2>9. Remaining'
    BY <1>9 DEF Remaining
  <2>10. Gone'
    BY <1>9 DEF Gone
  <2> QED BY <2>1, <2>2, <2>3, <2>4, <2>5, <2>6, <2>7, <2>8, <2>9, <2>10
<1>10. ASSUME NEW t \in Tasks, DropAbsent(t)
      PROVE  DsInv'
  <2> USE DEF DropAbsent, Goto, Deleted, Return, Finish
  <2>0. CallTypes' /\ Working' /\ gone' \subseteq Sessions
    <3> HIDE DEF Deleted
    <3> QED BY <1>10, WhenDeleted DEF DeleteLabels
  <2>1. DsTypeOK'
    <3> HIDE DEF Deleted, Return
    <3> QED BY <1>10, <2>0 DEF DsTypeOK, CallTypes
  <2>2. Working'
    BY <2>0
  <2>3. Existing'
    BY <1>10 DEF DeleteLabels, Working, Existing
  <2>4. Locks'
    BY <1>10 DEF Locks
  <2>5. Agreement'
    BY <1>10 DEF Locks, Agreement
  <2>6. Overlap'
    BY <1>10 DEF DsTypeOK, Overlap
  <2>7. Unlisting'
    BY <1>10 DEF DsTypeOK, Unlisting
  <2>8. Findable'
    BY <1>10 DEF DsTypeOK, Findable
  <2>9. Remaining'
    BY <1>10 DEF DsTypeOK, Remaining
  <2>10. Gone'
    BY <1>10 DEF DsTypeOK, DeleteLabels, Working, Overlap, Gone
  <2> QED BY <2>1, <2>2, <2>3, <2>4, <2>5, <2>6, <2>7, <2>8, <2>9, <2>10
<1>11. ASSUME NEW t \in Tasks, DropSession(t)
      PROVE  DsInv'
  <2> USE DEF DropSession, Goto, Deleted, Return, Finish
  <2>0. CallTypes' /\ gone' \subseteq Sessions
    <3> HIDE DEF Return, Deleted, Listed, Working
    <3>1. CASE Deleted(t)
      BY <1>11, <3>1, WhenDeleted DEF DeleteLabels
    <3>2. CASE Goto(t, "unlist") /\ UNCHANGED <<dsLocals, must, gone>>
      BY <1>11, <3>2 DEF DsTypeOK, DsLabels, DeleteLabels, CallTypes
    <3> QED BY <1>11, <3>1, <3>2
  <2>1. DsTypeOK'
    <3> HIDE DEF Deleted, Return, Listed
    <3> QED BY <1>11, <2>0 DEF DsTypeOK, CallTypes
  <2>2. Working'
    BY <1>11 DEF DsTypeOK, DeleteLabels, Working
  <2>3. Existing'
    BY <1>11 DEF DeleteLabels, Working, Existing
  <2>4. Locks'
    BY <1>11 DEF DsTypeOK, Locks
  <2>5. Agreement'
    BY <1>11 DEF DsTypeOK, Locks, Agreement
  <2>6. Overlap'
    BY <1>11 DEF DsTypeOK, Overlap
  <2>7. Unlisting'
    BY <1>11 DEF DsTypeOK, Unlisting
  <2>8. Findable'
    BY <1>11 DEF DsTypeOK, Findable
  <2>9. Remaining'
    BY <1>11 DEF DsTypeOK, Remaining
  <2>10. Gone'
    BY <1>11 DEF DsTypeOK, DeleteLabels, Working, Overlap, Findable, Gone
  <2> QED BY <2>1, <2>2, <2>3, <2>4, <2>5, <2>6, <2>7, <2>8, <2>9, <2>10
<1>12. ASSUME NEW t \in Tasks, Unlist(t)
      PROVE  DsInv'
  <2> USE DEF Unlist, Goto, Deleted, Return, Finish
  <2>0. CallTypes' /\ gone' \subseteq Sessions
    <3> HIDE DEF Return, Deleted, Listed, Working
    <3>1. CASE Deleted(t)
      BY <1>12, <3>1, WhenDeleted DEF DeleteLabels
    <3>2. CASE Goto(t, "count") /\ UNCHANGED <<dsLocals, must, gone>>
      BY <1>12, <3>2 DEF DsTypeOK, DsLabels, DeleteLabels, CallTypes
    <3> QED BY <1>12, <3>1, <3>2
  <2>1. DsTypeOK'
    <3> HIDE DEF Deleted, Return, Listed
    <3> QED BY <1>12, <2>0 DEF DsTypeOK, CallTypes
  <2>2. Working'
    BY <1>12 DEF DsTypeOK, DeleteLabels, Working
  <2>3. Existing'
    BY <1>12 DEF DeleteLabels, Working, Existing
  <2>4. Locks'
    BY <1>12 DEF DsTypeOK, Locks
  <2>5. Agreement'
    BY <1>12 DEF DsTypeOK, DeleteLabels, Working, Locks, Agreement
  <2>6. Overlap'
    BY <1>12 DEF DsTypeOK, Overlap
  <2>7. Unlisting'
    BY <1>12 DEF DsTypeOK, Unlisting
  <2>8. Findable'
    BY <1>12 DEF DsTypeOK, Locks, Findable, Unlisting
  <2>9. Remaining'
    BY <1>12 DEF DsTypeOK, Remaining
  <2>10. Gone'
    BY <1>12 DEF DsTypeOK, DeleteLabels, Working, Overlap, Unlisting, Gone
  <2> QED BY <2>1, <2>2, <2>3, <2>4, <2>5, <2>6, <2>7, <2>8, <2>9, <2>10
<1>13. ASSUME NEW t \in Tasks, Count(t)
      PROVE  DsInv'
  <2> USE DEF Count, Goto, Deleted, Return, Finish
  <2>0. CallTypes' /\ gone' \subseteq Sessions
    <3> HIDE DEF Return, Deleted, Listed, Working
    <3>1. CASE Deleted(t)
      BY <1>13, <3>1, WhenDeleted DEF DeleteLabels
    <3>2. CASE Goto(t, "dropList") /\ UNCHANGED <<dsLocals, must, gone>>
      BY <1>13, <3>2 DEF DsTypeOK, DsLabels, DeleteLabels, CallTypes
    <3> QED BY <1>13, <3>1, <3>2
  <2>1. DsTypeOK'
    <3> HIDE DEF Deleted, Return, Listed
    <3> QED BY <1>13, <2>0 DEF DsTypeOK, CallTypes
  <2>2. Working'
    BY <1>13 DEF DsTypeOK, DeleteLabels, Working
  <2>3. Existing'
    BY <1>13 DEF DeleteLabels, Working, Existing
  <2>4. Locks'
    BY <1>13 DEF Locks
  <2>5. Agreement'
    BY <1>13 DEF Locks, Agreement
  <2>6. Overlap'
    BY <1>13 DEF DsTypeOK, Overlap
  <2>7. Unlisting'
    BY <1>13 DEF DsTypeOK, Unlisting
  <2>8. Findable'
    BY <1>13 DEF DsTypeOK, Findable
  <2>9. Remaining'
    BY <1>13 DEF DsTypeOK, Remaining
  <2>10. Gone'
    <3>1. gone' \subseteq gone \cup (IF kind[t] = "delete" THEN must[t] ELSE {})
      BY <1>13
    <3>2. pc[t] = "count" /\ UNCHANGED <<live, contended>>
      BY <1>13
    <3>3. \A q \in Tasks : pc'[q] = "putSession" => q # t /\ pc[q] = pc'[q] /\ sid'[q] = sid[q]
      BY <1>13 DEF DsTypeOK
    <3>4. Working
      OBVIOUS
    <3>5. CASE kind[t] = "delete"
      <4>1. must[t] = {sid[t]} /\ (sid[t] \notin live \/ sid[t] \in contended)
        BY <3>2, <3>5 DEF Working, Unlisting
      <4>2. ASSUME NEW q \in Tasks, pc[q] = "putSession", sid[q] = sid[t], q # t
            PROVE  sid[t] \in contended
        <5>1. login[q] = login[t] /\ login[t] # Nil /\ kind[q] = "save"
          BY <3>2, <4>2 DEF Working, DeleteLabels
        <5> QED BY <4>2, <5>1 DEF Overlap
      <4> HIDE DEF Count
      <4> QED BY <3>1, <3>2, <3>3, <3>5, <4>1, <4>2 DEF Gone
    <3>6. CASE kind[t] # "delete"
      <4> HIDE DEF Count
      <4> QED BY <3>1, <3>2, <3>3, <3>6 DEF Gone
    <3> QED BY <3>5, <3>6
  <2> QED BY <2>1, <2>2, <2>3, <2>4, <2>5, <2>6, <2>7, <2>8, <2>9, <2>10
<1>14. ASSUME NEW t \in Tasks, DropList(t)
      PROVE  DsInv'
  <2> USE DEF DropList, Goto, Deleted, Return, Finish
  <2>0. CallTypes' /\ Working' /\ gone' \subseteq Sessions
    <3> HIDE DEF Deleted
    <3> QED BY <1>14, WhenDeleted DEF DeleteLabels
  <2>1. DsTypeOK'
    <3> HIDE DEF Deleted, Return
    <3> QED BY <1>14, <2>0 DEF DsTypeOK, CallTypes
  <2>2. Working'
    BY <2>0
  <2>3. Existing'
    BY <1>14 DEF DeleteLabels, Working, Existing
  <2>4. Locks'
    BY <1>14 DEF Locks
  <2>5. Agreement'
    BY <1>14 DEF Locks, Agreement
  <2>6. Overlap'
    BY <1>14 DEF DsTypeOK, Overlap
  <2>7. Unlisting'
    BY <1>14 DEF DsTypeOK, Unlisting
  <2>8. Findable'
    BY <1>14 DEF DsTypeOK, DsLabels, DeleteLabels, Findable, Unlisting
  <2>9. Remaining'
    BY <1>14 DEF DsTypeOK, Remaining
  <2>10. Gone'
    BY <1>14 DEF DsTypeOK, DeleteLabels, Working, Overlap, Unlisting, Gone
  <2> QED BY <2>1, <2>2, <2>3, <2>4, <2>5, <2>6, <2>7, <2>8, <2>9, <2>10
<1>15. ASSUME NEW t \in Tasks, List(t)
      PROVE  DsInv'
  <2> USE DEF List, Goto
  <2>1. DsTypeOK'
    BY <1>15 DEF DsTypeOK, DsLabels, Working
  <2>2. Working'
    BY <1>15 DEF DsTypeOK, DeleteLabels, Working, Existing
  <2>3. Existing'
    BY <1>15 DEF Existing
  <2>4. Locks'
    BY <1>15 DEF Locks
  <2>5. Agreement'
    BY <1>15 DEF Agreement
  <2>6. Overlap'
    BY <1>15 DEF Overlap
  <2>7. Unlisting'
    BY <1>15 DEF Unlisting
  <2>8. Findable'
    BY <1>15 DEF Findable
  <2>9. Remaining'
    BY <1>15 DEF DsTypeOK, Working, Remaining, Overlap, Findable
  <2>10. Gone'
    BY <1>15 DEF Gone
  <2> QED BY <2>1, <2>2, <2>3, <2>4, <2>5, <2>6, <2>7, <2>8, <2>9, <2>10
<1>16. ASSUME NEW t \in Tasks, CollectInMemory(t)
      PROVE  DsInv'
  <2> USE DEF CollectInMemory, Goto, Listed, Return, Finish, Wanted
  <2>0. CallTypes' /\ gone' \subseteq Sessions
    <3> HIDE DEF Return, Deleted, Listed, Working
    <3>1. CASE kind[t] = "list"
      BY <1>16, <3>1, WhenReturning DEF DsTypeOK, Listed
    <3>2. CASE kind[t] # "list"
      BY <1>16, <3>2 DEF DsTypeOK, DsLabels, CallTypes, Listed
    <3> QED BY <1>16, <3>1, <3>2
  <2>1. DsTypeOK'
    <3> HIDE DEF Deleted, Return, Listed
    <3> QED BY <1>16, <2>0 DEF DsTypeOK, CallTypes
  <2>2. Working'
    BY <1>16 DEF DsTypeOK, DeleteLabels, Working
  <2>3. Existing'
    BY <1>16 DEF Existing
  <2>4. Locks'
    BY <1>16 DEF DsTypeOK, Locks
  <2>5. Agreement'
    BY <1>16 DEF DsTypeOK, Agreement
  <2>6. Overlap'
    BY <1>16 DEF DsTypeOK, Overlap
  <2>7. Unlisting'
    BY <1>16 DEF DsTypeOK, Unlisting
  <2>8. Findable'
    BY <1>16 DEF Locks, Findable
  <2>9. Remaining'
    BY <1>16 DEF DsTypeOK, Working, Locks, Remaining
  <2>10. Gone'
    BY <1>16 DEF DsTypeOK, Gone
  <2> QED BY <2>1, <2>2, <2>3, <2>4, <2>5, <2>6, <2>7, <2>8, <2>9, <2>10
<1>17. ASSUME NEW t \in Tasks, Collect(t)
      PROVE  DsInv'
  <2> USE DEF Collect, Goto, Listed, Return, Finish, Wanted, control
  <2>0. CallTypes' /\ gone' \subseteq Sessions
    <3> HIDE DEF Return, Deleted, Listed, Working
    <3>1. CASE todo[t] = {} /\ Listed(t, found[t]) /\ kind[t] = "list"
      BY <1>17, <3>1, WhenReturning DEF DsTypeOK, Listed
    <3>2. CASE todo[t] = {} /\ Listed(t, found[t]) /\ kind[t] # "list"
      BY <1>17, <3>2 DEF DsTypeOK, DsLabels, CallTypes, Listed
    <3>3. CASE todo[t] # {}
      BY <1>17, <3>3 DEF DsTypeOK, DsLabels, CallTypes
    <3> QED BY <1>17, <3>1, <3>2, <3>3
  <2>1. DsTypeOK'
    <3> HIDE DEF Deleted, Return, Listed
    <3> QED BY <1>17, <2>0 DEF DsTypeOK, CallTypes
  <2>2. Working'
    BY <1>17 DEF DsTypeOK, DeleteLabels, Working
  <2>3. Existing'
    BY <1>17 DEF Existing
  <2>4. Locks'
    BY <1>17 DEF Locks
  <2>5. Agreement'
    BY <1>17 DEF Agreement
  <2>6. Overlap'
    BY <1>17 DEF DsTypeOK, Working, Overlap
  <2>7. Unlisting'
    BY <1>17 DEF DsTypeOK, Unlisting
  <2>8. Findable'
    BY <1>17 DEF DsTypeOK, Findable
  <2>9. Remaining'
    BY <1>17 DEF DsTypeOK, Working, Remaining
  <2>10. Gone'
    BY <1>17 DEF DsTypeOK, Gone
  <2> QED BY <2>1, <2>2, <2>3, <2>4, <2>5, <2>6, <2>7, <2>8, <2>9, <2>10
<1>18. ASSUME NEW t \in Tasks, Prune(t)
      PROVE  DsInv'
  <2> USE DEF Prune, Goto
  <2>1. DsTypeOK'
    BY <1>18 DEF DsTypeOK, DsLabels
  <2>2. Working'
    BY <1>18 DEF DeleteLabels, Working
  <2>3. Existing'
    BY <1>18 DEF Existing
  <2>4. Locks'
    BY <1>18 DEF Locks
  <2>5. Agreement'
    BY <1>18 DEF Locks, Agreement
  <2>6. Overlap'
    BY <1>18 DEF Overlap
  <2>7. Unlisting'
    BY <1>18 DEF Unlisting
  <2>8. Findable'
    BY <1>18 DEF Findable, Unlisting
  <2>9. Remaining'
    BY <1>18 DEF Remaining
  <2>10. Gone'
    BY <1>18 DEF Gone
  <2> QED BY <2>1, <2>2, <2>3, <2>4, <2>5, <2>6, <2>7, <2>8, <2>9, <2>10
<1>19. ASSUME NEW t \in Tasks, DeleteNext(t)
      PROVE  DsInv'
  <2> USE DEF DeleteNext, Goto, Return, Finish, DeleteFirst
  <2>0. CallTypes' /\ gone' \subseteq Sessions
    <3> HIDE DEF Return, Deleted, Listed, Working
    <3>1. CASE todo[t] = {}
      BY <1>19, <3>1, WhenReturning DEF DsTypeOK
    <3>2. CASE todo[t] # {}
      BY <1>19, <3>2 DEF DsTypeOK, DsLabels, DeleteLabels, CallTypes
    <3> QED BY <1>19, <3>1, <3>2
  <2>1. DsTypeOK'
    <3> HIDE DEF Deleted, Return, Listed
    <3> QED BY <1>19, <2>0 DEF DsTypeOK, CallTypes
  <2>2. Working'
    BY <1>19 DEF DsTypeOK, DeleteLabels, Working
  <2>3. Existing'
    BY <1>19 DEF Working, Existing
  <2>4. Locks'
    BY <1>19 DEF DsTypeOK, Locks
  <2>5. Agreement'
    BY <1>19 DEF DsTypeOK, DeleteLabels, Locks, Agreement
  <2>6. Overlap'
    BY <1>19 DEF DsTypeOK, Working, Overlap
  <2>7. Unlisting'
    BY <1>19 DEF DsTypeOK, Unlisting
  <2>8. Findable'
    BY <1>19 DEF DsTypeOK, Findable
  <2>9. Remaining'
    BY <1>19 DEF DsTypeOK, Remaining
  <2>10. Gone'
    BY <1>19 DEF DsTypeOK, Working, Overlap, Unlisting, Remaining, Gone
  <2> QED BY <2>1, <2>2, <2>3, <2>4, <2>5, <2>6, <2>7, <2>8, <2>9, <2>10
<1>20. ASSUME NEW t \in Tasks, DsDropped(t)
      PROVE  DsInv'
  <2> USE DEF DsDropped, Goto, Return, Finish
  <2>0. CallTypes' /\ Working'
    BY <1>20, WhenReturning
  <2>1. DsTypeOK'
    <3> HIDE DEF Return
    <3> QED BY <1>20, <2>0 DEF DsTypeOK, DeleteLabels, CallTypes, Working, Locks
  <2>2. Working'
    BY <2>0
  <2>3. Existing'
    BY <1>20 DEF Existing
  <2>4. Locks'
    BY <1>20 DEF DsTypeOK, Locks
  <2>5. Agreement'
    BY <1>20 DEF DsTypeOK, Agreement
  <2>6. Overlap'
    BY <1>20 DEF DsTypeOK, Overlap
  <2>7. Unlisting'
    BY <1>20 DEF DsTypeOK, Unlisting
  <2>8. Findable'
    BY <1>20 DEF Working, Findable
  <2>9. Remaining'
    BY <1>20 DEF DsTypeOK, Remaining
  <2>10. Gone'
    BY <1>20 DEF DsTypeOK, Gone
  <2> QED BY <2>1, <2>2, <2>3, <2>4, <2>5, <2>6, <2>7, <2>8, <2>9, <2>10
<1>21. ASSUME NEW s \in Sessions, ExpireSession(s)
      PROVE  DsInv'
  <2> USE DEF ExpireSession, control
  <2>1. DsTypeOK'
    BY <1>21 DEF DsTypeOK
  <2>2. Working'
    BY <1>21 DEF Working
  <2>3. Existing'
    BY <1>21 DEF Existing
  <2>4. Locks'
    BY <1>21 DEF Locks
  <2>5. Agreement'
    BY <1>21 DEF Agreement
  <2>6. Overlap'
    BY <1>21 DEF Overlap
  <2>7. Unlisting'
    BY <1>21 DEF Unlisting
  <2>8. Findable'
    BY <1>21 DEF Findable
  <2>9. Remaining'
    BY <1>21 DEF Remaining
  <2>10. Gone'
    BY <1>21 DEF Gone
  <2> QED BY <2>1, <2>2, <2>3, <2>4, <2>5, <2>6, <2>7, <2>8, <2>9, <2>10
<1>22. CASE UNCHANGED dsVars
  BY <1>22 DEF dsVars, dsState, control, Working, Existing, Locks, Agreement, Overlap,
     Unlisting, Findable, Remaining, Gone, DsTypeOK
<1> HIDE DEF DsInv
<1> QED
  BY <1>1, <1>2, <1>3, <1>4, <1>5, <1>6, <1>7, <1>8, <1>9, <1>10, <1>11, <1>12, <1>13,
     <1>14, <1>15, <1>16, <1>17, <1>18, <1>19, <1>20, <1>21, <1>22 DEF DsNext, DsCall,
     DsStep

\* In memory, the login index lists exactly the stored sessions whenever nobody holds the
\* sessions lock, but for those of dropped requests; and a session a deletion has
\* answered for stays deleted, unless calls on its user overlapped or broke off.
THEOREM SessionsCorrect == DsSpec => [](DsTypeOK /\ IndexAgrees /\ DeletedStaysDeleted)
<1>1. ASSUME DsInv PROVE IndexAgrees
  <2> USE <1>1 DEF DsInv
  <2> SUFFICES ASSUME Locking, writer = Nil, NEW u \in Logins
               PROVE  listed[u] \ torn = (live \cap SessionsOf(u)) \ torn
    BY DEF IndexAgrees
  <2>1. \A t \in Tasks : writer # t
    BY SessionsAssumption
  <2>2. ASSUME NEW s \in listed[u] \ torn PROVE s \in live \cap SessionsOf(u)
    BY <2>1, <2>2 DEF Agreement, Existing, Of, SessionsOf, DsTypeOK
  <2>3. ASSUME NEW s \in (live \cap SessionsOf(u)) \ torn PROVE s \in listed[u]
    BY <2>1, <2>3 DEF Agreement, SessionsOf
  <2> QED BY <2>2, <2>3
<1>2. DsInv => DsTypeOK /\ DeletedStaysDeleted
  BY DEF DsInv, Gone, DeletedStaysDeleted
<1> QED BY DsInitial, DsInductive, <1>1, <1>2, PTL DEF DsSpec

-----------------------------------------------------------------------------
(***************************************************************************)
(* Online presence: what mark_online has written stands while nobody who   *)
(* has decided to drop it is left.                                         *)
(***************************************************************************)
\* A call that runs is about a connection, or one connection of its account.
About ==
  \A t \in Tasks :
    /\ pc[t] # "idle" => conn[t] \in Conns
    /\ pc[t] = "pruneRemove" => missing[t] \in Conns
    /\ pc[t] = "allItems" => rest[t] \subseteq Account(conn[t])

\* What mark_online has written so far stands, as long as it is sound: nobody who
\* has decided to drop it is left.
Sound ==
  \A t \in Tasks : sound[t] =>
    /\ pc[t] \in OnLabels /\ ~Leaving(conn[t])
    /\ pc[t] \in {"pushToken", "pushUser"} => conn[t] \in items
    /\ pc[t] = "pushUser" => conn[t] \in indexed /\ ~Dropping(conn[t], {"dropIndex"})

\* Nobody is about to drop an online connection or what its account lists.
Settled ==
  \A c \in online : ~Leaving(c) /\ ~Dropping(c, {"dropIndex", "dropUser"})

\* What is invariant of the online presence.
PrInv == PrTypeOK /\ About /\ Sound /\ Settled /\ OnlineIsListed

\* Nobody is online at first.
LEMMA PrInitial == ControlInit /\ PrInit => PrInv
<1> USE DEF ControlInit, PrInit, PrInv
<1>1. ControlInit /\ PrInit => PrTypeOK
  BY DEF PrTypeOK
<1>2. ControlInit /\ PrInit => About /\ Sound /\ Settled /\ OnlineIsListed
  BY DEF About, Sound, Settled, OnlineIsListed
<1> QED BY <1>1, <1>2

\* Every step of a call keeps the invariant; one step of the proof per action.
LEMMA PrInductive ==
  ASSUME PrInv, [PrNext]_prVars
  PROVE  PrInv'
<1> USE PresenceAssumption, RequestsAssumption
    DEF PrInv, prStore, prLocals, prHistory, PrTypeOK, PrLabels, OnLabels, OffLabels,
        AllLabels, PruneLabels
<1>1. ASSUME NEW t \in Tasks, NEW c \in Conns, MarkOnline(t, c)
      PROVE  PrInv'
  <2> USE DEF MarkOnline, PrStart, Begin, Call
  <2>1. PrTypeOK'
    BY <1>1
  <2>2. About'
    BY <1>1 DEF About
  <2>3. Sound'
    BY <1>1 DEF Sound, Leaving, Dropping
  <2>4. Settled'
    BY <1>1 DEF Settled, Leaving, Dropping
  <2>5. OnlineIsListed'
    BY <1>1 DEF OnlineIsListed
  <2> QED BY <2>1, <2>2, <2>3, <2>4, <2>5
<1>2. ASSUME NEW t \in Tasks, NEW c \in Conns, MarkOffline(t, c)
      PROVE  PrInv'
  <2> USE DEF MarkOffline, PrStart, Begin, Call, Ended
  <2>1. PrTypeOK'
    BY <1>2
  <2>2. About'
    BY <1>2 DEF About
  <2>3. Sound'
    BY <1>2 DEF Sound, Leaving, Dropping
  <2>4. Settled'
    BY <1>2 DEF Settled, Leaving, Dropping
  <2>5. OnlineIsListed'
    BY <1>2 DEF OnlineIsListed
  <2> QED BY <2>1, <2>2, <2>3, <2>4, <2>5
<1>3. ASSUME NEW t \in Tasks, NEW c \in Conns, UpdateActivity(t, c)
      PROVE  PrInv'
  <2> USE DEF UpdateActivity, PrStart, Begin, Call
  <2>1. PrTypeOK'
    BY <1>3
  <2>2. About'
    BY <1>3 DEF About
  <2>3. Sound'
    BY <1>3 DEF Sound, Leaving, Dropping
  <2>4. Settled'
    BY <1>3 DEF Settled, Leaving, Dropping
  <2>5. OnlineIsListed'
    BY <1>3 DEF OnlineIsListed
  <2> QED BY <2>1, <2>2, <2>3, <2>4, <2>5
<1>4. ASSUME NEW t \in Tasks, NEW c \in Conns, MarkOfflineAll(t, c)
      PROVE  PrInv'
  <2> USE DEF MarkOfflineAll, PrStart, Begin, Call, Ended
  <2>1. PrTypeOK'
    BY <1>4
  <2>2. About'
    BY <1>4 DEF About
  <2>3. Sound'
    BY <1>4 DEF About, Sound, Leaving, Dropping, Account
  <2>4. Settled'
    BY <1>4 DEF Settled, Leaving, Dropping, Account
  <2>5. OnlineIsListed'
    BY <1>4 DEF OnlineIsListed
  <2> QED BY <2>1, <2>2, <2>3, <2>4, <2>5
<1>5. ASSUME NEW t \in Tasks, NEW c \in Conns, PruneIndex(t, c)
      PROVE  PrInv'
  <2> USE DEF PruneIndex, PrStart, Begin, Call
  <2>1. PrTypeOK'
    BY <1>5
  <2>2. About'
    BY <1>5 DEF About
  <2>3. Sound'
    BY <1>5 DEF Sound, Leaving, Dropping
  <2>4. Settled'
    BY <1>5 DEF Settled, Leaving, Dropping
  <2>5. OnlineIsListed'
    BY <1>5 DEF OnlineIsListed
  <2> QED BY <2>1, <2>2, <2>3, <2>4, <2>5
<1>6. ASSUME NEW t \in Tasks, SaveItem(t)
      PROVE  PrInv'
  <2> USE DEF SaveItem, Goto, PrEnd, Finish, control
  <2>1. PrTypeOK'
    BY <1>6 DEF About
  <2>2. About'
    BY <1>6 DEF About
  <2>3. Sound'
    BY <1>6 DEF Sound, Leaving, Dropping
  <2>4. Settled'
    BY <1>6 DEF Settled, Leaving, Dropping
  <2>5. OnlineIsListed'
    BY <1>6 DEF OnlineIsListed
  <2> QED BY <2>1, <2>2, <2>3, <2>4, <2>5
<1>7. ASSUME NEW t \in Tasks, PushToken(t)
      PROVE  PrInv'
  <2> USE DEF PushToken, Goto, PrEnd, Finish, control
  <2>1. PrTypeOK'
    BY <1>7 DEF About
  <2>2. About'
    BY <1>7 DEF About
  <2>3. Sound'
    BY <1>7 DEF Sound, Leaving, Dropping
  <2>4. Settled'
    BY <1>7 DEF Settled, Leaving, Dropping
  <2>5. OnlineIsListed'
    BY <1>7 DEF OnlineIsListed
  <2> QED BY <2>1, <2>2, <2>3, <2>4, <2>5
<1>8. ASSUME NEW t \in Tasks, PushUser(t)
      PROVE  PrInv'
  <2> USE DEF PushUser, Goto, PrEnd, Finish, control
  <2>1. PrTypeOK'
    <3>1. conn[t] \in Conns /\ conn[t].id \in LoginIds
      BY <1>8 DEF About, Conns
    <3> QED BY <1>8, <3>1
  <2>2. About'
    BY <1>8 DEF About
  <2>3. Sound'
    BY <1>8 DEF Sound, Leaving, Dropping
  <2>4. Settled'
    BY <1>8 DEF Sound, Settled, Leaving, Dropping
  <2>5. OnlineIsListed'
    BY <1>8 DEF Sound, OnlineIsListed
  <2> QED BY <2>1, <2>2, <2>3, <2>4, <2>5
<1>9. ASSUME NEW t \in Tasks, OffItem(t)
      PROVE  PrInv'
  <2> USE DEF OffItem, Goto, PrEnd, Finish, control
  <2>1. PrTypeOK'
    BY <1>9
  <2>2. About'
    BY <1>9 DEF About
  <2>3. Sound'
    BY <1>9 DEF Sound, Leaving, Dropping
  <2>4. Settled'
    BY <1>9 DEF Settled, Leaving, Dropping
  <2>5. OnlineIsListed'
    BY <1>9 DEF Settled, OnlineIsListed, Leaving
  <2> QED BY <2>1, <2>2, <2>3, <2>4, <2>5
<1>10. ASSUME NEW t \in Tasks, OffToken(t)
      PROVE  PrInv'
  <2> USE DEF OffToken, Goto, PrEnd, Finish, control
  <2>1. PrTypeOK'
    BY <1>10
  <2>2. About'
    BY <1>10 DEF About
  <2>3. Sound'
    BY <1>10 DEF Sound, Leaving, Dropping
  <2>4. Settled'
    BY <1>10 DEF Settled, Leaving, Dropping
  <2>5. OnlineIsListed'
    BY <1>10 DEF Settled, OnlineIsListed, Leaving
  <2> QED BY <2>1, <2>2, <2>3, <2>4, <2>5
<1>11. ASSUME NEW t \in Tasks, AllRead(t)
      PROVE  PrInv'
  <2> USE DEF AllRead, Goto, PrEnd, Finish, control
  <2>1. PrTypeOK'
    BY <1>11
  <2>2. About'
    BY <1>11 DEF About
  <2>3. Sound'
    BY <1>11 DEF Sound, Leaving, Dropping
  <2>4. Settled'
    BY <1>11 DEF Settled, Leaving, Dropping
  <2>5. OnlineIsListed'
    BY <1>11 DEF OnlineIsListed
  <2> QED BY <2>1, <2>2, <2>3, <2>4, <2>5
<1>12. ASSUME NEW t \in Tasks, AllItems(t)
      PROVE  PrInv'
  <2> USE DEF AllItems, Goto, PrEnd, Finish, control
  <2>1. PrTypeOK'
    BY <1>12
  <2>2. About'
    BY <1>12 DEF About
  <2>3. Sound'
    BY <1>12 DEF About, Sound, Leaving, Dropping, Account
  <2>4. Settled'
    BY <1>12 DEF Settled, Leaving, Dropping
  <2>5. OnlineIsListed'
    BY <1>12 DEF About, Settled, OnlineIsListed, Leaving, Account
  <2> QED BY <2>1, <2>2, <2>3, <2>4, <2>5
<1>13. ASSUME NEW t \in Tasks, PruneRead(t)
      PROVE  PrInv'
  <2> USE DEF PruneRead, Goto, PrEnd, Finish, control
  <2>1. PrTypeOK'
    BY <1>13
  <2>2. About'
    BY <1>13 DEF About
  <2>3. Sound'
    BY <1>13 DEF Sound, Leaving, Dropping
  <2>4. Settled'
    BY <1>13 DEF Settled, Leaving, Dropping
  <2>5. OnlineIsListed'
    BY <1>13 DEF OnlineIsListed
  <2> QED BY <2>1, <2>2, <2>3, <2>4, <2>5
<1>14. ASSUME NEW t \in Tasks, PruneCheck(t)
      PROVE  PrInv'
  <2> USE DEF PruneCheck, Goto, PrEnd, Finish, control
  <2>1. PrTypeOK'
    BY <1>14
  <2>2. About'
    BY <1>14 DEF About
  <2>3. Sound'
    BY <1>14 DEF Sound, Leaving, Dropping
  <2>4. Settled'
    BY <1>14 DEF Settled, OnlineIsListed, Leaving, Dropping
  <2>5. OnlineIsListed'
    BY <1>14 DEF OnlineIsListed
  <2> QED BY <2>1, <2>2, <2>3, <2>4, <2>5
<1>15. ASSUME NEW t \in Tasks, PruneRemove(t)
      PROVE  PrInv'
  <2> USE DEF PruneRemove, Goto, PrEnd, Finish, control
  <2>1. PrTypeOK'
    BY <1>15
  <2>2. About'
    BY <1>15 DEF About
  <2>3. Sound'
    BY <1>15 DEF Sound, Leaving, Dropping
  <2>4. Settled'
    BY <1>15 DEF Settled, Leaving, Dropping
  <2>5. OnlineIsListed'
    BY <1>15 DEF Settled, OnlineIsListed, Dropping
  <2> QED BY <2>1, <2>2, <2>3, <2>4, <2>5
<1>16. ASSUME NEW t \in Tasks, CountTokens(t)
      PROVE  PrInv'
  <2> USE DEF CountTokens, Goto, PrEnd, Finish, control
  <2>1. PrTypeOK'
    BY <1>16
  <2>2. About'
    BY <1>16 DEF About
  <2>3. Sound'
    BY <1>16 DEF Sound, Leaving, Dropping, Account
  <2>4. Settled'
    BY <1>16 DEF Settled, OnlineIsListed, Leaving, Dropping, Account
  <2>5. OnlineIsListed'
    BY <1>16 DEF OnlineIsListed
  <2> QED BY <2>1, <2>2, <2>3, <2>4, <2>5
<1>17. ASSUME NEW t \in Tasks, DropIndex(t)
      PROVE  PrInv'
  <2> USE DEF DropIndex, Goto, PrEnd, Finish, control
  <2>1. PrTypeOK'
    BY <1>17
  <2>2. About'
    BY <1>17 DEF About
  <2>3. Sound'
    BY <1>17 DEF About, Sound, Leaving, Dropping, Account
  <2>4. Settled'
    BY <1>17 DEF Settled, Leaving, Dropping
  <2>5. OnlineIsListed'
    BY <1>17 DEF About, Settled, OnlineIsListed, Leaving, Dropping, Account
  <2> QED BY <2>1, <2>2, <2>3, <2>4, <2>5
<1>18. ASSUME NEW t \in Tasks, DropUser(t)
      PROVE  PrInv'
  <2> USE DEF DropUser, Goto, PrEnd, Finish, control
  <2>1. PrTypeOK'
    <3>1. conn[t] \in Conns /\ conn[t].id \in LoginIds
      BY <1>18 DEF About, Conns
    <3> QED BY <1>18, <3>1
  <2>2. About'
    BY <1>18 DEF About
  <2>3. Sound'
    BY <1>18 DEF Sound, Leaving, Dropping
  <2>4. Settled'
    BY <1>18 DEF Settled, Leaving, Dropping
  <2>5. OnlineIsListed'
    BY <1>18 DEF About, Settled, OnlineIsListed, Dropping, Account
  <2> QED BY <2>1, <2>2, <2>3, <2>4, <2>5
<1>19. ASSUME NEW t \in Tasks, Touch(t)
      PROVE  PrInv'
  <2> USE DEF Touch, Goto, PrEnd, Finish, control
  <2>1. PrTypeOK'
    BY <1>19
  <2>2. About'
    BY <1>19 DEF About
  <2>3. Sound'
    BY <1>19 DEF Sound, Leaving, Dropping
  <2>4. Settled'
    BY <1>19 DEF Settled, Leaving, Dropping
  <2>5. OnlineIsListed'
    BY <1>19 DEF OnlineIsListed
  <2> QED BY <2>1, <2>2, <2>3, <2>4, <2>5
<1>20. ASSUME NEW t \in Tasks, TouchSave(t)
      PROVE  PrInv'
  <2> USE DEF TouchSave, Goto, PrEnd, Finish, control
  <2>1. PrTypeOK'
    BY <1>20 DEF About
  <2>2. About'
    BY <1>20 DEF About
  <2>3. Sound'
    BY <1>20 DEF Sound, Leaving, Dropping
  <2>4. Settled'
    BY <1>20 DEF Settled, Leaving, Dropping
  <2>5. OnlineIsListed'
    BY <1>20 DEF OnlineIsListed
  <2> QED BY <2>1, <2>2, <2>3, <2>4, <2>5
<1>21. ASSUME NEW t \in Tasks, PrDropped(t)
      PROVE  PrInv'
  <2> USE DEF PrDropped, Goto, PrEnd, Finish, control
  <2>1. PrTypeOK'
    BY <1>21
  <2>2. About'
    BY <1>21 DEF About
  <2>3. Sound'
    BY <1>21 DEF Sound, Leaving, Dropping
  <2>4. Settled'
    BY <1>21 DEF Settled, Leaving, Dropping
  <2>5. OnlineIsListed'
    BY <1>21 DEF OnlineIsListed
  <2> QED BY <2>1, <2>2, <2>3, <2>4, <2>5
<1>22. ASSUME ExpireEntry
      PROVE  PrInv'
  <2> USE DEF ExpireEntry, Ended, control
  <2>1. PrTypeOK'
    BY <1>22
  <2>2. About'
    BY <1>22 DEF About
  <2>3. Sound'
    BY <1>22 DEF Sound, Leaving, Dropping
  <2>4. Settled'
    BY <1>22 DEF Settled, Leaving, Dropping
  <2>5. OnlineIsListed'
    BY <1>22 DEF OnlineIsListed
  <2> QED BY <2>1, <2>2, <2>3, <2>4, <2>5
<1>23. CASE UNCHANGED prVars
  BY <1>23 DEF prVars, prState, control, About, Sound, Settled, OnlineIsListed, Leaving,
     Dropping
<1> HIDE DEF PrInv
<1> QED
  BY <1>1, <1>2, <1>3, <1>4, <1>5, <1>6, <1>7, <1>8, <1>9, <1>10, <1>11, <1>12, <1>13,
     <1>14, <1>15, <1>16, <1>17, <1>18, <1>19, <1>20, <1>21, <1>22, <1>23 DEF PrNext,
     PrTask

\* A connection that was marked online, and that neither its own offline calls nor a TTL
\* has ended, is found by every way to look for it (OnlineIsListed names the exceptions).
THEOREM PresenceCorrect == PrSpec => [](PrTypeOK /\ OnlineIsListed)
<1>1. PrInv => PrTypeOK /\ OnlineIsListed
  BY DEF PrInv
<1> QED BY PrInitial, PrInductive, <1>1, PTL DEF PrSpec

-----------------------------------------------------------------------------
(***************************************************************************)
(* The parts of a login: a part is stored under a body, or a call that will*)
(* remove it is at work.                                                   *)
(***************************************************************************)
\* The stages of a login and of its revocation, one by one.
LEMMA StageNames ==
  /\ Len(LoginStages) = 5 /\ Len(Cleaned) = 6 /\ Len(SubSeq(Cleaned, 1, 3)) = 3
  /\ LoginStages[1] = "index" /\ LoginStages[2] = "id" /\ LoginStages[3] = "body"
  /\ LoginStages[4] = "session" /\ LoginStages[5] = "record"
  /\ Cleaned[1] = "body" /\ Cleaned[2] = "session" /\ Cleaned[3] = "id"
  /\ Cleaned[4] = "index" /\ Cleaned[5] = "shared" /\ Cleaned[6] = "online"
  /\ \A i \in 1..3 : SubSeq(Cleaned, 1, 3)[i] = Cleaned[i]
BY DEF LoginStages, Cleaned

\* The labels of a revocation, of a use of the token, and of an account-wide kick-out.
Revoking == {"identify", "clean", "cleanOwn"}
Using == {"connect", "keepSession"}
Listing == {"goOffline", "collect", "nextToken"}

\* What a task's place says about its local variables.
Placed ==
  /\ \A p \in Parts : parts[p] \subseteq drawn
  /\ \A t \in Tasks :
       /\ pc[t] = "idle" => subject[t] = Nil /\ listing[t] = Nil
       /\ pc[t] \in LoginLabels => subject[t] \in drawn \ handed /\ listing[t] = Nil
       /\ pc[t] = "checkBan" => step[t] = 0
       /\ pc[t] \in {"write", "undo"} => step[t] <= 5
       /\ pc[t] \in Revoking => subject[t] \in drawn
       /\ pc[t] = "identify" => step[t] = 0
       /\ pc[t] = "cleanOwn" => step[t] <= 3
       /\ pc[t] \in Using => subject[t] \in handed /\ listing[t] = Nil
       /\ pc[t] \in Listing => subject[t] = Nil /\ listing[t] # Nil
       /\ listing[t] # Nil => listing[t] \subseteq drawn
       /\ \A q \in Tasks :
            /\ pc[t] \in LoginLabels /\ pc[q] \in LoginLabels
            /\ subject[t] = subject[q]
            => t = q

\* Until its body is written a login's token is known to nobody else but a kick-out
\* it overlaps, and once that works on it the token is excused.
Early ==
  \A t \in Tasks : pc[t] = "checkBan" \/ (pc[t] = "write" /\ step[t] < 3) =>
    /\ subject[t] \notin parts["body"]
    /\ \A q \in Tasks : q # t /\ subject[q] = subject[t] =>
         /\ subject[t] \in overlapped
         /\ pc[q] = "identify" \/ subject[t] \in excused
    /\ \A q \in Tasks : listing[q] # Nil /\ subject[t] \in listing[q] =>
         subject[t] \in overlapped

\* A logout, and a login that is undone, remove the body before the list entry, unless
\* the login writes it meanwhile or its removal failed.
BodyFirst ==
  \A t \in Tasks :
    /\ pc[t] \in {"clean", "cleanOwn"} /\ step[t] >= 1 /\ subject[t] \in parts["body"] =>
         subject[t] \in overlapped \cap excused
    /\ pc[t] = "undo" /\ step[t] < 3 /\ subject[t] \in parts["body"] =>
         subject[t] \in missed

\* A login overlaps the ban that did not stop it, and any kick-out it runs under.
Overlapping ==
  /\ banned => \A t \in Tasks :
       pc[t] \in LoginLabels \ {"checkBan"} => subject[t] \in overlapped
  /\ KickingOut => \A t \in Tasks : pc[t] \in LoginLabels => subject[t] \in overlapped
  /\ underBan # {} \/ emptied => banned

\* Every other token with a body is listed: a kick-out that lists any lists all.
AllListed ==
  /\ parts["body"] \ (overlapped \cup missed) \subseteq parts["index"]
  /\ \A t \in Tasks : pc[t] = "write" /\ step[t] \in 1..2 /\ subject[t] \notin overlapped =>
       subject[t] \in parts["index"]

\* A kick-out under the ban has the tokens before it that are still to go.
BeforeIt ==
  \A t \in underBan : listing[t] # Nil =>
    /\ pc[t] = "nextToken" =>
         parts["body"] \ (overlapped \cup missed) \subseteq listing[t]
    /\ pc[t] \in Revoking =>
         parts["body"] \ (overlapped \cup missed) \subseteq listing[t] \cup {subject[t]}

\* NothingLeft, also while tasks are about to revoke the token.
Clear ==
  \A k \in LoginTokens \ excused :
    k \notin parts["body"] /\ (\A t \in Tasks : subject[t] = k => pc[t] = "identify") =>
      \A p \in {"index", "session", "shared", "online"} :
        k \in parts[p] => Kept(p) \/ k \in lost[p]

\* The task that cleans a token has it for itself, and what it has cleaned stays so.
CleanedParts ==
  \A t \in Tasks : pc[t] \in {"clean", "cleanOwn"} /\ subject[t] \notin excused =>
    /\ \A q \in Tasks : q # t /\ subject[q] = subject[t] =>
         /\ pc[q] \notin LoginLabels
         /\ step[t] >= 1 \/ pc[t] = "cleanOwn" => pc[q] = "identify"
    /\ subject[t] \in parts["session"] /\ (step[t] >= 2 \/ pc[t] = "cleanOwn")
         => Kept("session") \/ subject[t] \in lost["session"]
    /\ subject[t] \in parts["index"] /\ (step[t] >= 4 \/ pc[t] = "cleanOwn")
         => subject[t] \in lost["index"]
    /\ subject[t] \in parts["shared"] /\ (step[t] >= 5 \/ pc[t] = "cleanOwn")
         => subject[t] \in lost["shared"]
    /\ subject[t] \in parts["online"] /\ (step[t] >= 6 \/ pc[t] = "cleanOwn")
         => subject[t] \in lost["online"]
    /\ pc[t] = "cleanOwn" => subject[t] \notin parts["body"]

\* What a login has stored so far, and that a valid token's body stays.
StoredParts ==
  \A t \in Tasks : subject[t] \notin excused =>
    /\ pc[t] \in {"checkBan", "write", "undo"} =>
         /\ subject[t] \notin parts["shared"] \cup parts["online"]
         /\ subject[t] \in parts["index"] /\ step[t] < 1 => subject[t] \in lost["index"]
         /\ subject[t] \in parts["session"] /\ step[t] < 4 =>
              subject[t] \in lost["session"]
    /\ (pc[t] = "write" /\ step[t] >= 3) \/ pc[t] \in {"goOnline", "share"} \cup Using =>
         subject[t] \in parts["body"]

\* What is invariant of the parts of a login.
LpInv ==
  /\ LpTypeOK /\ Placed /\ Early /\ BodyFirst
  /\ Overlapping /\ AllListed /\ BeforeIt /\ BanKeepsOut
  /\ Clear /\ CleanedParts /\ StoredParts

\* Nothing is stored at first.
LEMMA LpInitial == ControlInit /\ LpInit => LpInv
<1> USE PartsAssumption DEF ControlInit, LpInit
<1>1. ASSUME ControlInit, LpInit PROVE LpTypeOK
  <2>1. pc \in [Tasks -> LpLabels \cup {"idle"}] /\ calls \in Nat
    BY <1>1
  <2>2. parts \in [Parts -> SUBSET LoginTokens] /\ step \in [Tasks -> 0..6]
    BY <1>1
  <2>3. /\ subject \in [Tasks -> LoginTokens \cup {Nil}]
        /\ listing \in [Tasks -> (SUBSET LoginTokens) \cup {Nil}]
    BY <1>1
  <2> QED BY <1>1, <2>1, <2>2, <2>3 DEF LpTypeOK
<1>4. ControlInit /\ LpInit => Placed /\ Early
  BY DEF Placed, Early, LoginLabels, Revoking, Using, Listing
<1>2. ControlInit /\ LpInit => BodyFirst /\ Overlapping /\ AllListed /\ BeforeIt /\ BanKeepsOut
  BY DEF BodyFirst, Overlapping, AllListed, BeforeIt, BanKeepsOut, Parts, KickingOut
<1>3. ControlInit /\ LpInit => Clear /\ CleanedParts /\ StoredParts
  BY DEF Clear, CleanedParts, StoredParts, Parts, Using
<1> QED BY <1>1, <1>2, <1>3, <1>4 DEF LpInv

\* A step of a revocation at part p of its token k: it removes the part, or leaves it.
OnePart(t, p, k) ==
  /\ pc[t] \in {"clean", "cleanOwn"} /\ subject[t] = k /\ k \in drawn \cap LoginTokens
  /\ step[t] \in 0..5 /\ (pc[t] = "cleanOwn" => step[t] \in 0..2)
  /\ p = Cleaned[step[t] + 1]
  /\ step' = [step EXCEPT ![t] = @ + 1] /\ UNCHANGED <<pc, calls, subject, listing, missed>>
  /\ excused \subseteq excused' /\ excused' \subseteq LoginTokens
  /\ Others(t, k) => k \in excused'
  /\ UNCHANGED <<banned, drawn, handed, overlapped, underBan, emptied>>
  /\ \/ parts' = [parts EXCEPT ![p] = @ \ {k}] /\ lost' = lost
     \/ Kept(p) /\ parts' = parts /\ lost' = lost
     \/ p \notin {"body", "id"} /\ parts' = parts /\ lost' = [lost EXCEPT ![p] = @ \cup {k}]

\* A step that ends the revocation of k, done or given up: what it has not cleaned is lost.
Ends(t, k) ==
  /\ pc[t] \in {"clean", "cleanOwn"} /\ subject[t] = k /\ k \in drawn \cap LoginTokens
  /\ step' = [step EXCEPT ![t] = 0] /\ subject' = [subject EXCEPT ![t] = Nil]
  /\ \/ pc' = [pc EXCEPT ![t] = "idle"] /\ listing[t] = Nil
     \/ pc' = [pc EXCEPT ![t] = "nextToken"] /\ listing[t] # Nil
  /\ UNCHANGED <<calls, parts, listing>>
  /\ excused \subseteq excused' /\ excused' \subseteq LoginTokens
  /\ UNCHANGED <<banned, drawn, handed, overlapped, underBan, emptied>>
  /\ \A q \in Parts : lost[q] \subseteq lost'[q]
  /\ lost' \in [Parts -> SUBSET LoginTokens]
  /\ pc[t] = "clean" /\ step[t] # 6 =>
       /\ k \in lost'["index"] \cap lost'["shared"] \cap lost'["online"]
       /\ step[t] >= 2 \/ k \in lost'["session"]
  /\ missed \subseteq missed' /\ missed' \subseteq missed \cup {k}
  /\ listing[t] # Nil /\ k \in parts["body"] => step[t] >= 1 \/ k \in missed'

LEMMA CleanStep ==
  ASSUME LpTypeOK, Placed, NEW t \in Tasks, Clean(t)
  PROVE  Ends(t, subject[t]) \/ OnePart(t, Cleaned[step[t] + 1], subject[t])
<1> USE PartsAssumption, StageNames DEF Parts, Revoking
<1>1. subject[t] \in drawn \cap LoginTokens /\ step[t] \in 0..6
  BY DEF LpTypeOK, Placed, Clean
<1>2. /\ lost \in [Parts -> SUBSET LoginTokens] /\ parts \in [Parts -> SUBSET LoginTokens]
      /\ excused \subseteq LoginTokens /\ missed \subseteq LoginTokens
      /\ pc[t] = "cleanOwn" => step[t] \in 0..3
  BY DEF LpTypeOK, Placed
<1>3. ASSUME NEW ps \in SUBSET Parts, GiveUp(t, ps), pc[t] \in {"clean", "cleanOwn"},
             excused \subseteq excused', excused' \subseteq LoginTokens,
             UNCHANGED <<banned, drawn, handed, overlapped, underBan, emptied>>,
             pc[t] = "clean" => /\ {"index", "shared", "online"} \subseteq ps
                                /\ step[t] >= 2 \/ "session" \in ps
      PROVE  Ends(t, subject[t])
  <2>1. /\ lost' = [q \in Parts |-> lost[q] \cup (IF q \in ps THEN {subject[t]} ELSE {})]
        /\ missed' = missed \cup (IF listing[t] = Nil THEN {} ELSE parts["body"] \cap {subject[t]})
        /\ UNCHANGED <<parts, calls>> /\ Revoked(t)
    BY <1>3 DEF GiveUp, Leave, Revoked, LpEnd, Finish, Goto
  <2>2. /\ step' = [step EXCEPT ![t] = 0] /\ subject' = [subject EXCEPT ![t] = Nil]
        /\ \/ pc' = [pc EXCEPT ![t] = "idle"] /\ listing[t] = Nil
           \/ pc' = [pc EXCEPT ![t] = "nextToken"] /\ listing[t] # Nil
        /\ UNCHANGED listing
    BY <2>1 DEF Revoked, LpEnd, Finish, Goto, Take, LpTypeOK
  <2> QED BY <1>1, <1>2, <1>3, <2>1, <2>2 DEF Ends
<1>4. ASSUME NEW order, CleanNext(t, order), excused' = excused \cup
               (IF Others(t, subject[t]) THEN {subject[t]} ELSE {}),
             UNCHANGED <<banned, drawn, handed, overlapped, underBan, emptied>>,
             \/ pc[t] = "clean" /\ order = Cleaned /\ step[t] < 6
             \/ pc[t] = "cleanOwn" /\ order = SubSeq(Cleaned, 1, 3) /\ step[t] < 3
      PROVE  Ends(t, subject[t]) \/ OnePart(t, Cleaned[step[t] + 1], subject[t])
  <2>1. order[step[t] + 1] = Cleaned[step[t] + 1] /\ Cleaned[step[t] + 1] \in Parts
    BY <1>1, <1>4
  <2>2. excused \subseteq excused' /\ excused' \subseteq LoginTokens
    BY <1>1, <1>2, <1>4
  <2> DEFINE toGo == {order[i] : i \in (step[t] + 1)..Len(order)}
  <2>3. CASE Cleaned[step[t] + 1] \in {"body", "id"} /\ GiveUp(t, toGo)
    <3>1. step[t] \in {0, 2}
      BY <1>1, <1>4, <2>3
    <3>2. toGo \in SUBSET Parts
      BY <1>1, <1>4
    <3>3. ASSUME pc[t] = "clean"
          PROVE  /\ {"index", "shared", "online"} \subseteq toGo
                 /\ step[t] >= 2 \/ "session" \in toGo
      <4>1. order = Cleaned
        BY <1>4, <3>3
      <4>2. 4 \in (step[t] + 1)..6 /\ 5 \in (step[t] + 1)..6 /\ 6 \in (step[t] + 1)..6
        BY <3>1
      <4>3. step[t] >= 2 \/ 2 \in (step[t] + 1)..6
        BY <3>1
      <4>4. \A n \in (step[t] + 1)..6 : Cleaned[n] \in toGo
        BY <4>1
      <4> QED BY <4>2, <4>3, <4>4
    <3> QED BY <1>3, <1>4, <2>2, <2>3, <3>2, <3>3
  <2>4. CASE ~(Cleaned[step[t] + 1] \in {"body", "id"} /\ GiveUp(t, toGo))
    <3>1. /\ step' = [step EXCEPT ![t] = @ + 1]
          /\ UNCHANGED <<pc, calls, subject, listing, missed>>
          /\ \/ parts' = [parts EXCEPT ![Cleaned[step[t] + 1]] = @ \ {subject[t]}] /\ lost' = lost
             \/ Kept(Cleaned[step[t] + 1]) /\ parts' = parts /\ lost' = lost
             \/ /\ Cleaned[step[t] + 1] \notin {"body", "id"} /\ parts' = parts
                /\ Leave({Cleaned[step[t] + 1]}, subject[t])
      BY <1>4, <2>1, <2>4 DEF CleanNext, Without, control, failures
    <3>2. ASSUME NEW q \in Parts, Leave({q}, subject[t])
          PROVE  lost' = [lost EXCEPT ![q] = @ \cup {subject[t]}]
      BY <1>2, <3>2 DEF Leave
    <3>3. /\ pc[t] \in {"clean", "cleanOwn"} /\ step[t] \in 0..5
          /\ pc[t] = "cleanOwn" => step[t] \in 0..2
          /\ Others(t, subject[t]) => subject[t] \in excused'
      BY <1>1, <1>4
    <3> QED BY <1>1, <1>4, <2>1, <2>2, <3>1, <3>2, <3>3 DEF OnePart
  <2> QED BY <2>3, <2>4
<1>5. ASSUME \/ pc[t] = "clean" /\ step[t] = 6
             \/ pc[t] = "cleanOwn" /\ step[t] = 3,
             Revoked(t),
             UNCHANGED <<parts, excused, failures>>,
             UNCHANGED <<banned, drawn, handed, overlapped, underBan, emptied>>
      PROVE  Ends(t, subject[t])
  <2>1. /\ step' = [step EXCEPT ![t] = 0] /\ subject' = [subject EXCEPT ![t] = Nil]
        /\ \/ pc' = [pc EXCEPT ![t] = "idle"] /\ listing[t] = Nil
           \/ pc' = [pc EXCEPT ![t] = "nextToken"] /\ listing[t] # Nil
        /\ UNCHANGED <<calls, listing>>
    BY <1>5 DEF Revoked, LpEnd, Finish, Goto, Take, LpTypeOK
  <2> QED BY <1>1, <1>2, <1>5, <2>1 DEF Ends, failures
<1>6. CASE pc[t] = "clean" /\ Cleaning(t, Cleaned)
  <2>1. CASE step[t] < 6
    <3>1. CleanNext(t, Cleaned)
      BY <1>6, <2>1 DEF Cleaning
    <3> QED BY <1>4, <1>6, <2>1, <3>1 DEF Cleaning
  <2>2. CASE step[t] = 6
    BY <1>5, <1>6, <2>2 DEF Cleaning
  <2> QED BY <1>1, <2>1, <2>2
<1>7. CASE pc[t] = "cleanOwn" /\ Cleaning(t, SubSeq(Cleaned, 1, 3))
  <2>1. CASE step[t] < 3
    <3>1. CleanNext(t, SubSeq(Cleaned, 1, 3))
      BY <1>7, <2>1 DEF Cleaning
    <3> QED BY <1>4, <1>7, <2>1, <3>1 DEF Cleaning
  <2>2. CASE step[t] = 3
    BY <1>5, <1>7, <2>2 DEF Cleaning
  <2> QED BY <1>1, <1>2, <1>7, <2>1, <2>2
<1> QED BY <1>6, <1>7 DEF Clean

\* A part less of a token under revocation keeps the invariant, and so does its end.
LEMMA OnePartKeeps ==
  ASSUME LpInv, NEW t \in Tasks, NEW p \in Parts, NEW k \in LoginTokens, OnePart(t, p, k)
  PROVE  LpInv'
<1> USE PartsAssumption, StageNames
    DEF OnePart, Others, Kept, LpLabels, LoginLabels, Parts, Revoking, Using, Listing
<1>1. LpTypeOK'
  BY DEF LpInv, LpTypeOK
<1>2. Placed'
  BY DEF LpInv, LpTypeOK, Placed
<1>3. Early'
  BY DEF LpInv, LpTypeOK, Early, Placed
<1>4. BodyFirst'
  BY DEF LpInv, LpTypeOK, Placed, BodyFirst
<1>5. Overlapping'
  BY DEF LpInv, LpTypeOK, Overlapping, KickingOut
<1>6. AllListed'
  BY DEF LpInv, LpTypeOK, Placed, Early, BodyFirst, AllListed
<1>7. BeforeIt'
  BY DEF LpInv, LpTypeOK, Placed, BodyFirst, BeforeIt
<1>8. BanKeepsOut'
  BY DEF LpInv, LpTypeOK, BanKeepsOut
<1>9. Clear'
  BY DEF LpInv, LpTypeOK, Clear, CleanedParts
<1>10. CleanedParts'
  BY DEF LpInv, LpTypeOK, Placed, CleanedParts
<1>11. StoredParts'
  BY DEF LpInv, LpTypeOK, StoredParts
<1> QED BY <1>1, <1>2, <1>3, <1>4, <1>5, <1>6, <1>7, <1>8, <1>9, <1>10, <1>11 DEF LpInv

\* The token of a revocation that ends is clear but for what a failed call has left.
LEMMA EndsKeeps ==
  ASSUME LpInv, NEW t \in Tasks, NEW k \in LoginTokens, Ends(t, k)
  PROVE  LpInv'
<1> USE PartsAssumption, StageNames
    DEF Ends, Kept, LpLabels, LoginLabels, Parts, Revoking, Using, Listing
<1>1. LpTypeOK'
  BY DEF LpInv, LpTypeOK
<1>2. Placed'
  BY DEF LpInv, LpTypeOK, Placed
<1>3. Early'
  BY DEF LpInv, LpTypeOK, Early, Placed
<1>4. BodyFirst'
  BY DEF LpInv, LpTypeOK, Placed, BodyFirst
<1>5. Overlapping'
  BY DEF LpInv, LpTypeOK, Overlapping, KickingOut
<1>6. AllListed'
  BY DEF LpInv, LpTypeOK, Placed, Early, BodyFirst, AllListed
<1>7. BeforeIt'
  BY DEF LpInv, LpTypeOK, Placed, BodyFirst, BeforeIt
<1>8. BanKeepsOut'
  BY DEF LpInv, LpTypeOK, BanKeepsOut
<1>9. Clear'
  BY DEF LpInv, LpTypeOK, Clear, CleanedParts
<1>10. CleanedParts'
  BY DEF LpInv, LpTypeOK, Placed, CleanedParts
<1>11. StoredParts'
  BY DEF LpInv, LpTypeOK, StoredParts
<1> QED BY <1>1, <1>2, <1>3, <1>4, <1>5, <1>6, <1>7, <1>8, <1>9, <1>10, <1>11 DEF LpInv

\* Every step of a call keeps the invariant; one step of the proof per action.
LEMMA LpInductive ==
  ASSUME LpInv, [LpNext]_lpVars
  PROVE  LpInv'
<1> USE PartsAssumption, RequestsAssumption, StageNames
    DEF LpInv, lpStore, lpLocals, failures, lpHistory, LpTypeOK, LpLabels, LoginLabels, Parts,
        Revoking, Using, Listing
<1>1. ASSUME NEW t \in Tasks, NEW k \in LoginTokens, LoginCall(t, k)
      PROVE  LpInv'
  <2> USE DEF LoginCall, Begin, Call, Take, KickingOut
  <2>1. LpTypeOK'
    BY <1>1
  <2>2. Placed'
    BY <1>1 DEF Placed
  <2>3. Early'
    BY <1>1 DEF Early, Placed
  <2>4. BodyFirst'
    BY <1>1 DEF BodyFirst
  <2>5. Overlapping'
    BY <1>1 DEF Overlapping
  <2>6. AllListed'
    BY <1>1 DEF AllListed
  <2>7. BeforeIt'
    BY <1>1 DEF BeforeIt
  <2>8. BanKeepsOut'
    BY <1>1 DEF BanKeepsOut
  <2>9. Clear'
    BY <1>1 DEF Placed, Clear
  <2>10. CleanedParts'
    BY <1>1 DEF Placed, CleanedParts
  <2>11. StoredParts'
    BY <1>1 DEF Placed, StoredParts
  <2> QED BY <2>1, <2>2, <2>3, <2>4, <2>5, <2>6, <2>7, <2>8, <2>9, <2>10, <2>11
<1>2. ASSUME NEW t \in Tasks, NEW k \in LoginTokens, LogoutToken(t, k)
      PROVE  LpInv'
  <2> USE DEF LogoutToken, Begin, Call, Take
  <2>1. LpTypeOK'
    BY <1>2
  <2>2. Placed'
    BY <1>2 DEF Placed
  <2>3. Early'
    BY <1>2 DEF Early, Placed
  <2>4. BodyFirst'
    BY <1>2 DEF BodyFirst
  <2>5. Overlapping'
    BY <1>2 DEF Overlapping, KickingOut
  <2>6. AllListed'
    BY <1>2 DEF AllListed
  <2>7. BeforeIt'
    BY <1>2 DEF Placed, BeforeIt
  <2>8. BanKeepsOut'
    BY <1>2 DEF BanKeepsOut
  <2>9. Clear'
    BY <1>2 DEF Placed, Clear
  <2>10. CleanedParts'
    BY <1>2 DEF CleanedParts
  <2>11. StoredParts'
    BY <1>2 DEF StoredParts
  <2> QED BY <2>1, <2>2, <2>3, <2>4, <2>5, <2>6, <2>7, <2>8, <2>9, <2>10, <2>11
<1>3. ASSUME NEW t \in Tasks, NEW k \in LoginTokens, NEW l \in Using, ForValid(t, k, l)
      PROVE  LpInv'
  <2> USE DEF ForValid, Begin, Call, Take
  <2>1. LpTypeOK'
    BY <1>3
  <2>2. Placed'
    BY <1>3 DEF Placed
  <2>3. Early'
    BY <1>3 DEF Early
  <2>4. BodyFirst'
    BY <1>3 DEF BodyFirst
  <2>5. Overlapping'
    BY <1>3 DEF Overlapping, KickingOut
  <2>6. AllListed'
    BY <1>3 DEF AllListed
  <2>7. BeforeIt'
    BY <1>3 DEF BeforeIt
  <2>8. BanKeepsOut'
    BY <1>3 DEF BanKeepsOut
  <2>9. Clear'
    BY <1>3 DEF Placed, Clear
  <2>10. CleanedParts'
    BY <1>3 DEF BodyFirst, CleanedParts
  <2>11. StoredParts'
    BY <1>3 DEF StoredParts
  <2> QED BY <2>1, <2>2, <2>3, <2>4, <2>5, <2>6, <2>7, <2>8, <2>9, <2>10, <2>11
<1>4. ASSUME NEW t \in Tasks, CheckBan(t)
      PROVE  LpInv'
  <2> USE DEF CheckBan, Goto, LpEnd, Finish, Take
  <2>1. LpTypeOK'
    BY <1>4
  <2>2. Placed'
    BY <1>4 DEF Placed
  <2>3. Early'
    BY <1>4 DEF Early, Placed
  <2>4. BodyFirst'
    BY <1>4 DEF BodyFirst
  <2>5. Overlapping'
    BY <1>4 DEF Overlapping, KickingOut
  <2>6. AllListed'
    BY <1>4 DEF Placed, AllListed
  <2>7. BeforeIt'
    BY <1>4 DEF BeforeIt
  <2>8. BanKeepsOut'
    BY <1>4 DEF BanKeepsOut
  <2>9. Clear'
    BY <1>4 DEF Placed, Clear, StoredParts
  <2>10. CleanedParts'
    BY <1>4 DEF Placed, CleanedParts
  <2>11. StoredParts'
    BY <1>4 DEF Placed, StoredParts
  <2> QED BY <2>1, <2>2, <2>3, <2>4, <2>5, <2>6, <2>7, <2>8, <2>9, <2>10, <2>11
<1>5. ASSUME NEW t \in Tasks, WriteStage(t)
      PROVE  LpInv'
  <2> USE DEF WriteStage, Goto, With, control
  <2>1. LpTypeOK'
    BY <1>5 DEF Placed
  <2>2. Placed'
    BY <1>5 DEF Placed
  <2>3. Early'
    BY <1>5 DEF Early, Placed
  <2>4. BodyFirst'
    BY <1>5 DEF Placed, Early, BodyFirst
  <2>5. Overlapping'
    BY <1>5 DEF Overlapping, KickingOut
  <2>6. AllListed'
    BY <1>5 DEF Placed, AllListed
  <2>7. BeforeIt'
    BY <1>5 DEF Overlapping, BeforeIt
  <2>8. BanKeepsOut'
    BY <1>5 DEF Overlapping, BanKeepsOut
  <2>9. Clear'
    BY <1>5 DEF Clear
  <2>10. CleanedParts'
    BY <1>5 DEF CleanedParts
  <2>11. StoredParts'
    BY <1>5 DEF Placed, StoredParts
  <2> QED BY <2>1, <2>2, <2>3, <2>4, <2>5, <2>6, <2>7, <2>8, <2>9, <2>10, <2>11
<1>6. ASSUME NEW t \in Tasks, StageFails(t)
      PROVE  LpInv'
  <2> USE DEF StageFails, Goto, With
  <2>1. LpTypeOK'
    BY <1>6 DEF Placed
  <2>2. Placed'
    BY <1>6 DEF Placed
  <2>3. Early'
    BY <1>6 DEF Early
  <2>4. BodyFirst'
    BY <1>6 DEF Early, BodyFirst
  <2>5. Overlapping'
    BY <1>6 DEF Overlapping, KickingOut
  <2>6. AllListed'
    BY <1>6 DEF AllListed
  <2>7. BeforeIt'
    BY <1>6 DEF BeforeIt
  <2>8. BanKeepsOut'
    BY <1>6 DEF BanKeepsOut
  <2>9. Clear'
    BY <1>6 DEF Clear
  <2>10. CleanedParts'
    BY <1>6 DEF CleanedParts
  <2>11. StoredParts'
    BY <1>6 DEF StoredParts
  <2> QED BY <2>1, <2>2, <2>3, <2>4, <2>5, <2>6, <2>7, <2>8, <2>9, <2>10, <2>11
<1>7. ASSUME NEW t \in Tasks, Undo(t)
      PROVE  LpInv'
  <2> USE DEF Undo, Goto, Without, Leave, LpEnd, Finish, Take, control
  <2>1. LpTypeOK'
    <3>1. CASE step[t] > 0
      <4>1. step[t] - 1 \in 0..6 /\ subject[t] \in LoginTokens
        BY <1>7, <3>1 DEF Placed
      <4>2. /\ parts' \in [Parts -> SUBSET LoginTokens] /\ lost' \in [Parts -> SUBSET LoginTokens]
            /\ missed' \subseteq LoginTokens /\ step' \in [Tasks -> 0..6]
        BY <1>7, <3>1, <4>1
      <4> QED BY <1>7, <3>1, <4>2
    <3>2. CASE ~(step[t] > 0)
      BY <1>7, <3>2
    <3> QED BY <3>1, <3>2
  <2>2. Placed'
    BY <1>7 DEF Placed
  <2>3. Early'
    BY <1>7 DEF Early, Placed
  <2>4. BodyFirst'
    BY <1>7 DEF BodyFirst
  <2>5. Overlapping'
    BY <1>7 DEF Overlapping, KickingOut
  <2>6. AllListed'
    BY <1>7 DEF Placed, BodyFirst, AllListed
  <2>7. BeforeIt'
    BY <1>7 DEF BeforeIt
  <2>8. BanKeepsOut'
    BY <1>7 DEF BanKeepsOut
  <2>9. Clear'
    BY <1>7 DEF Clear, StoredParts
  <2>10. CleanedParts'
    BY <1>7 DEF Placed, CleanedParts
  <2>11. StoredParts'
    BY <1>7 DEF Placed, StoredParts
  <2> QED BY <2>1, <2>2, <2>3, <2>4, <2>5, <2>6, <2>7, <2>8, <2>9, <2>10, <2>11
<1>8. ASSUME NEW t \in Tasks, GoOnline(t)
      PROVE  LpInv'
  <2> USE DEF GoOnline, Goto, With
  <2>1. LpTypeOK'
    BY <1>8 DEF Placed
  <2>2. Placed'
    BY <1>8 DEF Placed
  <2>3. Early'
    BY <1>8 DEF Early
  <2>4. BodyFirst'
    BY <1>8 DEF BodyFirst
  <2>5. Overlapping'
    BY <1>8 DEF Overlapping, KickingOut
  <2>6. AllListed'
    BY <1>8 DEF AllListed
  <2>7. BeforeIt'
    BY <1>8 DEF BeforeIt
  <2>8. BanKeepsOut'
    BY <1>8 DEF BanKeepsOut
  <2>9. Clear'
    BY <1>8 DEF Clear
  <2>10. CleanedParts'
    BY <1>8 DEF CleanedParts
  <2>11. StoredParts'
    BY <1>8 DEF Placed, StoredParts
  <2> QED BY <2>1, <2>2, <2>3, <2>4, <2>5, <2>6, <2>7, <2>8, <2>9, <2>10, <2>11
<1>9. ASSUME NEW t \in Tasks, Share(t)
      PROVE  LpInv'
  <2> USE DEF Share, Goto, With, LpEnd, Finish, Take
  <2>1. LpTypeOK'
    BY <1>9 DEF Placed
  <2>2. Placed'
    BY <1>9 DEF Placed
  <2>3. Early'
    BY <1>9 DEF Early, Placed
  <2>4. BodyFirst'
    BY <1>9 DEF BodyFirst
  <2>5. Overlapping'
    BY <1>9 DEF Overlapping, KickingOut
  <2>6. AllListed'
    BY <1>9 DEF AllListed
  <2>7. BeforeIt'
    BY <1>9 DEF BeforeIt
  <2>8. BanKeepsOut'
    BY <1>9 DEF BanKeepsOut
  <2>9. Clear'
    BY <1>9 DEF Clear, StoredParts
  <2>10. CleanedParts'
    BY <1>9 DEF Placed, CleanedParts
  <2>11. StoredParts'
    BY <1>9 DEF Placed, StoredParts
  <2> QED BY <2>1, <2>2, <2>3, <2>4, <2>5, <2>6, <2>7, <2>8, <2>9, <2>10, <2>11
<1>10. ASSUME NEW t \in Tasks, Identify(t)
      PROVE  LpInv'
  <2> USE DEF Identify, GiveUp, Revoked, Leave, LpEnd, Finish, Take, Goto, Others
  <2>1. LpTypeOK'
    BY <1>10 DEF Placed
  <2>2. Placed'
    BY <1>10 DEF Placed
  <2>3. Early'
    BY <1>10 DEF Early, Placed
  <2>4. BodyFirst'
    BY <1>10 DEF Placed, BodyFirst
  <2>5. Overlapping'
    BY <1>10 DEF Overlapping, KickingOut
  <2>6. AllListed'
    BY <1>10 DEF AllListed
  <2>7. BeforeIt'
    BY <1>10 DEF BeforeIt
  <2>8. BanKeepsOut'
    BY <1>10 DEF BanKeepsOut
  <2>9. Clear'
    BY <1>10 DEF Clear
  <2>10. CleanedParts'
    BY <1>10 DEF Placed, Clear, CleanedParts, Kept
  <2>11. StoredParts'
    BY <1>10 DEF StoredParts
  <2> QED BY <2>1, <2>2, <2>3, <2>4, <2>5, <2>6, <2>7, <2>8, <2>9, <2>10, <2>11
<1>11. ASSUME NEW t \in Tasks, Clean(t)
      PROVE  LpInv'
  <2>1. Cleaned[step[t] + 1] \in Parts \/ Ends(t, subject[t])
    BY <1>11, CleanStep DEF OnePart
  <2>2. subject[t] \in LoginTokens
    BY <1>11, CleanStep DEF OnePart, Ends
  <2> QED BY <1>11, <2>1, <2>2, CleanStep, OnePartKeeps, EndsKeeps
<1>12. ASSUME NEW t \in Tasks, KickOut(t)
      PROVE  LpInv'
  <2> USE DEF KickOut, Begin, Call, LoggingIn
  <2>1. LpTypeOK'
    BY <1>12
  <2>2. Placed'
    BY <1>12 DEF Placed
  <2>3. Early'
    BY <1>12 DEF Early
  <2>4. BodyFirst'
    BY <1>12 DEF BodyFirst
  <2>5. Overlapping'
    BY <1>12 DEF Placed, Overlapping
  <2>6. AllListed'
    BY <1>12 DEF AllListed
  <2>7. BeforeIt'
    BY <1>12 DEF BeforeIt
  <2>8. BanKeepsOut'
    BY <1>12 DEF BanKeepsOut
  <2>9. Clear'
    BY <1>12 DEF Clear
  <2>10. CleanedParts'
    BY <1>12 DEF CleanedParts
  <2>11. StoredParts'
    BY <1>12 DEF StoredParts
  <2> QED BY <2>1, <2>2, <2>3, <2>4, <2>5, <2>6, <2>7, <2>8, <2>9, <2>10, <2>11
<1>13. ASSUME NEW t \in Tasks, GoOffline(t)
      PROVE  LpInv'
  <2> USE DEF GoOffline, Goto
  <2>1. LpTypeOK'
    BY <1>13
  <2>2. Placed'
    BY <1>13 DEF Placed
  <2>3. Early'
    BY <1>13 DEF Early
  <2>4. BodyFirst'
    BY <1>13 DEF BodyFirst
  <2>5. Overlapping'
    BY <1>13 DEF Overlapping, KickingOut
  <2>6. AllListed'
    BY <1>13 DEF AllListed
  <2>7. BeforeIt'
    BY <1>13 DEF BeforeIt
  <2>8. BanKeepsOut'
    BY <1>13 DEF BanKeepsOut
  <2>9. Clear'
    BY <1>13 DEF Clear
  <2>10. CleanedParts'
    BY <1>13 DEF CleanedParts
  <2>11. StoredParts'
    BY <1>13 DEF StoredParts
  <2> QED BY <2>1, <2>2, <2>3, <2>4, <2>5, <2>6, <2>7, <2>8, <2>9, <2>10, <2>11
<1>14. ASSUME NEW t \in Tasks, CollectTokens(t)
      PROVE  LpInv'
  <2> USE DEF CollectTokens, Fallback, Committed, Goto
  <2>1. LpTypeOK'
    <3>1. /\ parts' \in [Parts -> SUBSET LoginTokens]
          /\ listing' \in [Tasks -> (SUBSET LoginTokens) \cup {Nil}]
          /\ missed' \subseteq LoginTokens
      BY <1>14 DEF Placed
    <3> QED BY <1>14, <3>1
  <2>2. Placed'
    BY <1>14 DEF Placed
  <2>3. Early'
    <3>1. \A r \in Tasks : pc[r] \in LoginLabels => subject[r] \in overlapped
      BY <1>14 DEF Placed, Overlapping, KickingOut
    <3>2. /\ parts'["body"] = parts["body"] /\ pc[t] = "collect"
          /\ UNCHANGED <<subject, step, overlapped, excused>>
          /\ \A q \in Tasks \ {t} : listing'[q] = listing[q] /\ pc'[q] = pc[q]
          /\ pc'[t] = "nextToken" /\ subject[t] = Nil
      BY <1>14 DEF Placed
    <3> QED BY <3>1, <3>2 DEF Early, Placed
  <2>4. BodyFirst'
    BY <1>14 DEF BodyFirst
  <2>5. Overlapping'
    BY <1>14 DEF Placed, Overlapping, KickingOut
  <2>6. AllListed'
    BY <1>14 DEF Placed, Overlapping, KickingOut, AllListed
  <2>7. BeforeIt'
    <3>1. t \in underBan =>
            parts["body"] \ (overlapped \cup missed') \subseteq listing'[t]
      BY <1>14 DEF AllListed
    <3>2. /\ parts'["body"] = parts["body"] /\ missed \subseteq missed'
          /\ pc'[t] = "nextToken" /\ UNCHANGED <<overlapped, underBan, subject>>
          /\ \A q \in Tasks \ {t} : listing'[q] = listing[q] /\ pc'[q] = pc[q]
      BY <1>14
    <3> QED BY <3>1, <3>2 DEF BeforeIt
  <2>8. BanKeepsOut'
    BY <1>14 DEF BanKeepsOut
  <2>9. Clear'
    BY <1>14 DEF Clear
  <2>10. CleanedParts'
    BY <1>14 DEF CleanedParts
  <2>11. StoredParts'
    BY <1>14 DEF StoredParts
  <2> QED BY <2>1, <2>2, <2>3, <2>4, <2>5, <2>6, <2>7, <2>8, <2>9, <2>10, <2>11
<1>15. ASSUME NEW t \in Tasks, NextToken(t)
      PROVE  LpInv'
  <2> USE DEF NextToken, Goto, LpEnd, Finish, Take
  <2>1. LpTypeOK'
    <3>1. listing[t] \in SUBSET LoginTokens
      BY <1>15 DEF Placed
    <3>2. CASE listing[t] = {} /\ LpEnd(t) /\ emptied' = (emptied \/ t \in underBan)
      BY <1>15, <3>2
    <3>3. CASE \E k \in listing[t] :
                 /\ listing' = [listing EXCEPT ![t] = @ \ {k}]
                 /\ Goto(t, "identify") /\ Take(t, k, 0) /\ UNCHANGED emptied
      BY <1>15, <3>1, <3>3
    <3> QED BY <1>15, <3>2, <3>3
  <2>2. Placed'
    BY <1>15 DEF Placed
  <2>3. Early'
    BY <1>15 DEF Early, Placed
  <2>4. BodyFirst'
    BY <1>15 DEF BodyFirst
  <2>5. Overlapping'
    BY <1>15 DEF Placed, Overlapping, KickingOut
  <2>6. AllListed'
    BY <1>15 DEF AllListed
  <2>7. BeforeIt'
    BY <1>15 DEF Placed, BeforeIt
  <2>8. BanKeepsOut'
    BY <1>15 DEF Placed, BeforeIt, BanKeepsOut
  <2>9. Clear'
    BY <1>15 DEF Placed, Clear
  <2>10. CleanedParts'
    BY <1>15 DEF Placed, CleanedParts
  <2>11. StoredParts'
    BY <1>15 DEF StoredParts
  <2> QED BY <2>1, <2>2, <2>3, <2>4, <2>5, <2>6, <2>7, <2>8, <2>9, <2>10, <2>11
<1>16. ASSUME NEW t \in Tasks, Connect(t)
      PROVE  LpInv'
  <2> USE DEF Connect, Goto, LpEnd, Finish, Take, With
  <2>1. LpTypeOK'
    BY <1>16 DEF Placed
  <2>2. Placed'
    BY <1>16 DEF Placed
  <2>3. Early'
    BY <1>16 DEF Early, Placed
  <2>4. BodyFirst'
    BY <1>16 DEF BodyFirst
  <2>5. Overlapping'
    BY <1>16 DEF Overlapping, KickingOut
  <2>6. AllListed'
    BY <1>16 DEF AllListed
  <2>7. BeforeIt'
    BY <1>16 DEF BeforeIt
  <2>8. BanKeepsOut'
    BY <1>16 DEF BanKeepsOut
  <2>9. Clear'
    BY <1>16 DEF Clear, StoredParts
  <2>10. CleanedParts'
    BY <1>16 DEF Placed, CleanedParts
  <2>11. StoredParts'
    BY <1>16 DEF Placed, StoredParts
  <2> QED BY <2>1, <2>2, <2>3, <2>4, <2>5, <2>6, <2>7, <2>8, <2>9, <2>10, <2>11
<1>17. ASSUME NEW t \in Tasks, KeepSession(t)
      PROVE  LpInv'
  <2> USE DEF KeepSession, Goto, LpEnd, Finish, Take, With
  <2>1. LpTypeOK'
    BY <1>17 DEF Placed
  <2>2. Placed'
    BY <1>17 DEF Placed
  <2>3. Early'
    BY <1>17 DEF Early, Placed
  <2>4. BodyFirst'
    BY <1>17 DEF BodyFirst
  <2>5. Overlapping'
    BY <1>17 DEF Overlapping, KickingOut
  <2>6. AllListed'
    BY <1>17 DEF AllListed
  <2>7. BeforeIt'
    BY <1>17 DEF BeforeIt
  <2>8. BanKeepsOut'
    BY <1>17 DEF BanKeepsOut
  <2>9. Clear'
    BY <1>17 DEF Clear, StoredParts
  <2>10. CleanedParts'
    BY <1>17 DEF Placed, CleanedParts
  <2>11. StoredParts'
    BY <1>17 DEF Placed, StoredParts
  <2> QED BY <2>1, <2>2, <2>3, <2>4, <2>5, <2>6, <2>7, <2>8, <2>9, <2>10, <2>11
<1>18. ASSUME NEW t \in Tasks, LpDropped(t)
      PROVE  LpInv'
  <2> USE DEF LpDropped, Goto, LpEnd, Finish, Take
  <2>1. LpTypeOK'
    BY <1>18
  <2>2. Placed'
    BY <1>18 DEF Placed
  <2>3. Early'
    BY <1>18 DEF Early, Placed
  <2>4. BodyFirst'
    BY <1>18 DEF BodyFirst
  <2>5. Overlapping'
    BY <1>18 DEF Overlapping, KickingOut
  <2>6. AllListed'
    BY <1>18 DEF AllListed
  <2>7. BeforeIt'
    BY <1>18 DEF BeforeIt
  <2>8. BanKeepsOut'
    BY <1>18 DEF BanKeepsOut
  <2>9. Clear'
    BY <1>18 DEF Clear
  <2>10. CleanedParts'
    BY <1>18 DEF Placed, CleanedParts
  <2>11. StoredParts'
    BY <1>18 DEF StoredParts
  <2> QED BY <2>1, <2>2, <2>3, <2>4, <2>5, <2>6, <2>7, <2>8, <2>9, <2>10, <2>11
<1>19. ASSUME Disable
      PROVE  LpInv'
  <2> USE DEF Disable, LoggingIn, control
  <2>1. LpTypeOK'
    BY <1>19
  <2>2. Placed'
    BY <1>19 DEF Placed
  <2>3. Early'
    BY <1>19 DEF Early
  <2>4. BodyFirst'
    BY <1>19 DEF BodyFirst
  <2>5. Overlapping'
    BY <1>19 DEF Placed, Overlapping
  <2>6. AllListed'
    BY <1>19 DEF AllListed
  <2>7. BeforeIt'
    BY <1>19 DEF BeforeIt
  <2>8. BanKeepsOut'
    BY <1>19 DEF BanKeepsOut
  <2>9. Clear'
    BY <1>19 DEF Clear
  <2>10. CleanedParts'
    BY <1>19 DEF CleanedParts
  <2>11. StoredParts'
    BY <1>19 DEF StoredParts
  <2> QED BY <2>1, <2>2, <2>3, <2>4, <2>5, <2>6, <2>7, <2>8, <2>9, <2>10, <2>11
<1>20. ASSUME UntieDisable
      PROVE  LpInv'
  <2> USE DEF UntieDisable, control
  <2>1. LpTypeOK'
    BY <1>20
  <2>2. Placed'
    BY <1>20 DEF Placed
  <2>3. Early'
    BY <1>20 DEF Early
  <2>4. BodyFirst'
    BY <1>20 DEF BodyFirst
  <2>5. Overlapping'
    BY <1>20 DEF Overlapping, KickingOut
  <2>6. AllListed'
    BY <1>20 DEF AllListed
  <2>7. BeforeIt'
    BY <1>20 DEF BeforeIt
  <2>8. BanKeepsOut'
    BY <1>20 DEF BanKeepsOut
  <2>9. Clear'
    BY <1>20 DEF Clear
  <2>10. CleanedParts'
    BY <1>20 DEF CleanedParts
  <2>11. StoredParts'
    BY <1>20 DEF StoredParts
  <2> QED BY <2>1, <2>2, <2>3, <2>4, <2>5, <2>6, <2>7, <2>8, <2>9, <2>10, <2>11
<1>21. ASSUME NEW t \in Tasks, CommitMapping(t)
      PROVE  LpInv'
  <2> USE DEF CommitMapping, Goto, lpState
  <2>1. LpTypeOK'
    BY <1>21 DEF Placed
  <2>2. Placed'
    BY <1>21 DEF Placed
  <2>3. Early'
    BY <1>21 DEF Early, Placed
  <2>4. BodyFirst'
    BY <1>21 DEF Placed, Early, BodyFirst
  <2>5. Overlapping'
    BY <1>21 DEF Placed, Overlapping, KickingOut
  <2>6. AllListed'
    BY <1>21 DEF Placed, Early, BodyFirst, AllListed
  <2>7. BeforeIt'
    BY <1>21 DEF Placed, BeforeIt
  <2>8. BanKeepsOut'
    BY <1>21 DEF BanKeepsOut
  <2>9. Clear'
    BY <1>21 DEF Placed, Clear, StoredParts, CleanedParts
  <2>10. CleanedParts'
    BY <1>21 DEF Placed, CleanedParts
  <2>11. StoredParts'
    BY <1>21 DEF Placed, StoredParts
  <2> QED BY <2>1, <2>2, <2>3, <2>4, <2>5, <2>6, <2>7, <2>8, <2>9, <2>10, <2>11
<1>22. ASSUME NEW t \in Tasks, CollectFails(t)
      PROVE  LpInv'
  <2> USE DEF CollectFails, Goto, LpEnd, Finish, Take
  <2>1. LpTypeOK'
    BY <1>22 DEF Placed
  <2>2. Placed'
    BY <1>22 DEF Placed
  <2>3. Early'
    BY <1>22 DEF Early, Placed
  <2>4. BodyFirst'
    BY <1>22 DEF Placed, Early, BodyFirst
  <2>5. Overlapping'
    BY <1>22 DEF Placed, Overlapping, KickingOut
  <2>6. AllListed'
    BY <1>22 DEF Placed, Early, BodyFirst, AllListed
  <2>7. BeforeIt'
    BY <1>22 DEF Placed, BeforeIt
  <2>8. BanKeepsOut'
    BY <1>22 DEF BanKeepsOut
  <2>9. Clear'
    BY <1>22 DEF Placed, Clear, StoredParts, CleanedParts
  <2>10. CleanedParts'
    BY <1>22 DEF Placed, CleanedParts
  <2>11. StoredParts'
    BY <1>22 DEF Placed, StoredParts
  <2> QED BY <2>1, <2>2, <2>3, <2>4, <2>5, <2>6, <2>7, <2>8, <2>9, <2>10, <2>11
<1>23. CASE UNCHANGED lpVars
  BY <1>23 DEF lpVars, lpState, control, Placed, Early, BodyFirst, Overlapping,
     KickingOut, AllListed, BeforeIt, BanKeepsOut, Clear, CleanedParts, StoredParts
<1> HIDE DEF LpInv
<1> QED
  BY <1>1, <1>2, <1>3, <1>4, <1>5, <1>6, <1>7, <1>8, <1>9, <1>10, <1>11, <1>12, <1>13,
     <1>14, <1>15, <1>16, <1>17, <1>18, <1>19, <1>20, <1>21, <1>22, <1>23 DEF LpNext, LpTask,
     WsAuthenticate, GetTokenSession

\* A token without a body, on which no call works, has left nothing behind; and after a
\* ban and a kick-out nothing is logged in but what was being logged in meanwhile.
THEOREM LoginPartsCorrect == LpSpec => [](LpTypeOK /\ BanKeepsOut /\ NothingLeft)
<1>1. LpInv => LpTypeOK /\ BanKeepsOut
  BY DEF LpInv
<1>2. LpInv => NothingLeft
  BY DEF LpInv, Clear, NothingLeft
<1> QED BY LpInitial, LpInductive, <1>1, <1>2, PTL DEF LpSpec

=============================================================================
