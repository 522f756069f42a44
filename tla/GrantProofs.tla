----------------------------- MODULE GrantProofs -----------------------------
(***************************************************************************)
(* GateInv and DataInv are inductive, for any number of tasks, accounts,    *)
(* grants, gates and calls: per group of actions one lemma for each, with   *)
(* one step per action and one leaf per part that shares its reasons.       *)
(***************************************************************************)
EXTENDS GrantCache, FiniteSetTheorems, TLAPS

\* The lists an edit can lead to are lists, and the mark for "none" is not one.
LEMMA ListFacts ==
  /\ {} \in Lists /\ NoList \notin Lists
  /\ \A g \in Grants : {g} \in Lists
  /\ \A l, add, del \in Lists : (l \cup add) \ del \in Lists
BY GrantAssumption DEF Lists, NoList

\* A key is its kind and its account, and an account has both kinds of key.
LEMMA KeyFacts ==
  \A k \in Keys : /\ <<"permission", k[2]>> \in Keys /\ <<"role", k[2]>> \in Keys
                  /\ k = <<"permission", k[2]>> \/ k = <<"role", k[2]>>
                  /\ k = <<"permission", k[2]>> => k[1] = "permission"
                  /\ k = <<"role", k[2]>> => k[1] = "role"
BY DEF Keys, Kinds

\* The calls of a read up to the shard's lock, and the snapshot it fills.
LEMMA ReadGate ==
  ASSUME GateInv, NEW p \in Procs, ReadStep(p)
  PROVE  GateInv'
<1> USE GrantAssumption, ListFacts, KeyFacts DEF GateInv, TypeOK, Goto, cacheVars,
  gateVars, Labels, ReadLabels, WriteLabels
<1>1. CASE \E k \in Keys : Read(p, k)
  <2>0. PICK k \in Keys : Read(p, k)
    BY <1>1
  <2>1. TypeOK'
    BY <2>0 DEF Read, NoEdit, Located
  <2>2. Located' /\ LoaderHolds' /\ LockLocated'
    BY <2>0 DEF Read, Located, LoaderHolds, LockLocated, Loading
  <2>3. OneGate'
    <3> SUFFICES ASSUME singleFlight', NEW j \in Keys \ disturbed'
                 PROVE  OneGateOf(j)'
      BY DEF OneGate
    <3>1. /\ pc[p] = "idle" /\ gate[p] = NoGate
          /\ pc' = [pc EXCEPT ![p] = pc'[p]] /\ pc'[p] \notin Loading \cup {"release"}
          /\ key' = [key EXCEPT ![p] = k]
          /\ UNCHANGED <<singleFlight, cache, dead, table, gate, disturbed>>
      BY <2>0 DEF Read, Located, Loading
    <3>2. OneGateOf(j) /\ (Hit(j)' <=> Hit(j))
      BY <3>1 DEF OneGate, Hit
    <3> QED BY <3>1, <3>2 DEF OneGateOf
  <2> QED BY <2>1, <2>2, <2>3
<1>2. CASE PeekHit(p)
  <2>1. TypeOK'
    BY <1>2 DEF PeekHit, TakeHit, Hit, NoEdit, Located
  <2>2. Located' /\ LoaderHolds' /\ LockLocated'
    BY <1>2 DEF PeekHit, TakeHit, Hit, Located, LoaderHolds, LockLocated, Loading
  <2>3. OneGate'
    BY <1>2 DEF PeekHit, TakeHit, Hit, Located, LoaderHolds, OneGate, OneGateOf,
       LockLocated, Loading
  <2> QED BY <2>1, <2>2, <2>3
<1>3. CASE PeekMiss(p)
  <2>1. TypeOK'
    BY <1>3 DEF PeekMiss, Hit, NoEdit, Located
  <2>2. Located' /\ LoaderHolds' /\ LockLocated'
    BY <1>3 DEF PeekMiss, Hit, Located, LoaderHolds, LockLocated, Loading
  <2>3. OneGate'
    BY <1>3 DEF PeekMiss, Hit, Located, LoaderHolds, OneGate, OneGateOf, LockLocated,
       Loading
  <2> QED BY <2>1, <2>2, <2>3
<1>4. CASE TakeGate(p)
  <2>1. TypeOK'
    <3>1. PICK g \in Gates :
            /\ table' = [table EXCEPT ![key[p]] = g]
            /\ gate' = [gate EXCEPT ![p] = g]
            /\ g = table[key[p]] \/ table[key[p]] = NoGate
      <4>1. key[p] \in Keys
        BY <1>4 DEF TakeGate, Located
      <4> QED BY <1>4, <4>1 DEF TakeGate, Unused
    <3>2. /\ pc[p] = "gate" /\ pc' = [pc EXCEPT ![p] = "recheck"]
          /\ UNCHANGED <<singleFlight, store, cacheVars, holder, key, val, edit, scope,
                         stale, excused, seen, own, disturbed, calls>>
      BY <1>4 DEF TakeGate
    <3> QED BY <3>1, <3>2 DEF Located
  <2>2. Located' /\ LoaderHolds' /\ LockLocated'
    <3>1. PICK g \in Gates :
            /\ table' = [table EXCEPT ![key[p]] = g]
            /\ gate' = [gate EXCEPT ![p] = g]
            /\ g = table[key[p]] \/ table[key[p]] = NoGate
      <4>1. key[p] \in Keys
        BY <1>4 DEF TakeGate, Located
      <4> QED BY <1>4, <4>1 DEF TakeGate, Unused
    <3>2. /\ pc[p] = "gate" /\ pc' = [pc EXCEPT ![p] = "recheck"]
          /\ UNCHANGED <<singleFlight, store, cacheVars, holder, key, val, edit, scope,
                         stale, excused, seen, own, disturbed, calls>>
      BY <1>4 DEF TakeGate
    <3> QED BY <3>1, <3>2 DEF Located, LoaderHolds, LockLocated, Loading
  <2>3. OneGate'
    <3>1. PICK g \in Gates :
            /\ table' = [table EXCEPT ![key[p]] = g]
            /\ gate' = [gate EXCEPT ![p] = g]
            /\ g = table[key[p]] \/ table[key[p]] = NoGate
      <4>1. key[p] \in Keys
        BY <1>4 DEF TakeGate, Located
      <4> QED BY <1>4, <4>1 DEF TakeGate, Unused
    <3>2. /\ pc[p] = "gate" /\ pc' = [pc EXCEPT ![p] = "recheck"]
          /\ UNCHANGED <<singleFlight, store, cacheVars, holder, key, val, edit, scope,
                         stale, excused, seen, own, disturbed, calls>>
      BY <1>4 DEF TakeGate
    <3> QED BY <3>1, <3>2 DEF Located, OneGate, OneGateOf, Loading, Hit
  <2> QED BY <2>1, <2>2, <2>3
<1>5. CASE Recheck(p)
  <2>1. TypeOK'
    <3>1. CASE Hit(key[p])
      <4>1. /\ pc[p] = "recheck" /\ holder[gate[p]] = NoTask
            /\ holder' = [holder EXCEPT ![gate[p]] = p]
            /\ val' = [val EXCEPT ![p] = cache[key[p]]]
            /\ excused' = IF key[p] \in suspect \/ Removing(key[p])
                          THEN excused \cup {p} ELSE excused
            /\ pc' = [pc EXCEPT ![p] = "release"]
            /\ UNCHANGED <<singleFlight, store, cacheVars, table, key, gate, edit, scope,
                           stale, seen, own, disturbed, calls>>
        BY <1>5, <3>1 DEF Recheck, TakeHit
      <4> QED BY <3>1, <4>1
        DEF Located, NoEdit
    <3>2. CASE ~Hit(key[p])
      <4>1. /\ pc[p] = "recheck" /\ holder[gate[p]] = NoTask
            /\ holder' = [holder EXCEPT ![gate[p]] = p]
            /\ pc' = [pc EXCEPT ![p] = "fetch"]
            /\ UNCHANGED <<singleFlight, store, cacheVars, table, key, gate, val, edit,
                           scope, stale, excused, seen, own, disturbed, calls>>
        BY <1>5, <3>2 DEF Recheck
      <4> QED BY <3>2, <4>1
        DEF Located, NoEdit
    <3> QED BY <3>1, <3>2
  <2>2. Located' /\ LoaderHolds' /\ LockLocated'
    <3>1. CASE Hit(key[p])
      <4>1. /\ pc[p] = "recheck" /\ holder[gate[p]] = NoTask
            /\ holder' = [holder EXCEPT ![gate[p]] = p]
            /\ val' = [val EXCEPT ![p] = cache[key[p]]]
            /\ excused' = IF key[p] \in suspect \/ Removing(key[p])
                          THEN excused \cup {p} ELSE excused
            /\ pc' = [pc EXCEPT ![p] = "release"]
            /\ UNCHANGED <<singleFlight, store, cacheVars, table, key, gate, edit, scope,
                           stale, seen, own, disturbed, calls>>
        BY <1>5, <3>1 DEF Recheck, TakeHit
      <4> QED BY <3>1, <4>1
        DEF Located, LoaderHolds, LockLocated, Loading
    <3>2. CASE ~Hit(key[p])
      <4>1. /\ pc[p] = "recheck" /\ holder[gate[p]] = NoTask
            /\ holder' = [holder EXCEPT ![gate[p]] = p]
            /\ pc' = [pc EXCEPT ![p] = "fetch"]
            /\ UNCHANGED <<singleFlight, store, cacheVars, table, key, gate, val, edit,
                           scope, stale, excused, seen, own, disturbed, calls>>
        BY <1>5, <3>2 DEF Recheck
      <4> QED BY <3>2, <4>1
        DEF Located, LoaderHolds, LockLocated, Loading
    <3> QED BY <3>1, <3>2
  <2>3. OneGate'
    <3>1. CASE Hit(key[p])
      <4>1. /\ pc[p] = "recheck" /\ holder[gate[p]] = NoTask
            /\ holder' = [holder EXCEPT ![gate[p]] = p]
            /\ val' = [val EXCEPT ![p] = cache[key[p]]]
            /\ excused' = IF key[p] \in suspect \/ Removing(key[p])
                          THEN excused \cup {p} ELSE excused
            /\ pc' = [pc EXCEPT ![p] = "release"]
            /\ UNCHANGED <<singleFlight, store, cacheVars, table, key, gate, edit, scope,
                           stale, seen, own, disturbed, calls>>
        BY <1>5, <3>1 DEF Recheck, TakeHit
      <4> QED BY <3>1, <4>1
        DEF Located, OneGate, OneGateOf, Loading, Hit
    <3>2. CASE ~Hit(key[p])
      <4>1. /\ pc[p] = "recheck" /\ holder[gate[p]] = NoTask
            /\ holder' = [holder EXCEPT ![gate[p]] = p]
            /\ pc' = [pc EXCEPT ![p] = "fetch"]
            /\ UNCHANGED <<singleFlight, store, cacheVars, table, key, gate, val, edit,
                           scope, stale, excused, seen, own, disturbed, calls>>
        BY <1>5, <3>2 DEF Recheck
      <4> QED BY <3>2, <4>1
        DEF Located, OneGate, OneGateOf, Loading, Hit
    <3> QED BY <3>1, <3>2
  <2> QED BY <2>1, <2>2, <2>3
<1>6. CASE Fetch(p)
  <2>1. TypeOK'
    BY <1>6 DEF Fetch, NoEdit, Located
  <2>2. Located' /\ LoaderHolds' /\ LockLocated'
    BY <1>6 DEF Fetch, Located, LoaderHolds, LockLocated, Loading
  <2>3. OneGate'
    BY <1>6 DEF Fetch, Located, LoaderHolds, OneGate, OneGateOf, LockLocated, Loading,
       Hit
  <2> QED BY <2>1, <2>2, <2>3
<1>7. CASE FetchFails(p)
  <2>1. TypeOK'
    BY <1>7 DEF FetchFails, NoEdit, Located
  <2>2. Located' /\ LoaderHolds' /\ LockLocated'
    BY <1>7 DEF FetchFails, Located, LoaderHolds, LockLocated, Loading
  <2>3. OneGate'
    BY <1>7 DEF FetchFails, Located, LoaderHolds, OneGate, OneGateOf, LockLocated,
       Loading, Hit
  <2> QED BY <2>1, <2>2, <2>3
<1>8. CASE Put(p)
  <2>1. TypeOK'
    BY <1>8 DEF Put, Evictions, Present, NoEdit, Located
  <2>2. Located' /\ LoaderHolds' /\ LockLocated'
    BY <1>8 DEF Put, Evictions, Present, Located, LoaderHolds, LockLocated, Loading
  <2>3. OneGate'
    <3>1. PICK V \in Evictions(key[p]) :
            /\ cache' = [k \in Keys |-> IF k = key[p] THEN val[p]
                                        ELSE IF k \in V THEN NoList ELSE cache[k]]
            /\ dead' = dead \ (V \cup {key[p]})
            /\ suspect' = IF p \in stale THEN (suspect \ V) \cup {key[p]}
                                         ELSE suspect \ (V \cup {key[p]})
            /\ disturbed' = disturbed \cup V
      BY <1>8 DEF Put
    <3>2. /\ pc[p] = "put" /\ pc' = [pc EXCEPT ![p] = "release"]
          /\ UNCHANGED <<singleFlight, store, gateVars, key, gate, val, edit, scope,
                         stale, excused, seen, own, calls>>
      BY <1>8 DEF Put
    <3> SUFFICES ASSUME singleFlight', NEW j \in Keys \ disturbed'
                 PROVE  OneGateOf(j)'
      BY DEF OneGate
    <3>3. j \in Keys \ disturbed /\ OneGateOf(j)
      BY <3>1, <3>2 DEF OneGate
    <3>4. CASE j = key[p]
      <4>1. Hit(j)'
        BY <3>1, <3>2, <3>4 DEF Hit, Located
      <4>2. ~Hit(j)
        BY <3>2, <3>3, <3>4 DEF OneGateOf, Loading
      <4>3. ASSUME NEW q \in Procs, key[q] = j, pc[q] \in Loading PROVE q = p
        <5>1. gate[q] = table[j] /\ gate[p] = table[j]
          BY <3>2, <3>3, <3>4, <4>2, <4>3 DEF OneGateOf, LoaderHolds, Loading
        <5>2. holder[gate[q]] = q /\ holder[gate[p]] = p
          BY <3>2, <4>3 DEF LoaderHolds, Loading
        <5> QED BY <5>1, <5>2
      <4> QED BY <3>2, <4>1, <4>3 DEF OneGateOf, Loading
    <3>5. CASE j # key[p]
      BY <3>1, <3>2, <3>3, <3>5 DEF OneGateOf, Hit, Loading
    <3> QED BY <3>4, <3>5
  <2> QED BY <2>1, <2>2, <2>3
<1>9. CASE Release(p)
  <2>1. TypeOK'
    <3>1. key[p] \in Keys
      BY <1>9 DEF Release, Located
    <3>2. scope' \in [Procs -> [Keys -> Lists \cup {NoList}]]
      BY <1>9, <3>1 DEF Release, ReturnRead
    <3>3. own' \in [Procs -> [Keys -> Lists \cup {NoList}]]
      BY <1>9, <3>1 DEF Release, ReturnRead
    <3>4. /\ table' \in [Keys -> Gates \cup {NoGate}]
          /\ holder' \in [Gates -> Procs \cup {NoTask}]
      BY SMTT(30), <1>9, <3>1 DEF Release, Unlock
    <3> QED BY <1>9, <3>2, <3>3, <3>4 DEF Release, ReturnRead, Finish, NoEdit
  <2>2. Located' /\ LoaderHolds' /\ LockLocated'
    BY <1>9 DEF Release, ReturnRead, Finish, Unlock, Located, LoaderHolds, LockLocated,
       Loading
  <2>3. OneGate'
    BY <1>9 DEF Release, ReturnRead, Finish, Unlock, Located, LoaderHolds, OneGate,
       OneGateOf, LockLocated, Loading, Hit
  <2> QED BY <2>1, <2>2, <2>3
<1>10. CASE Cancel(p)
  <2>1. TypeOK'
    BY <1>10 DEF Cancel, Finish, Unlock, NoLists, NoEdit, Located
  <2>2. Located' /\ LoaderHolds' /\ LockLocated'
    BY <1>10 DEF Cancel, Finish, Unlock, NoLists, Located, LoaderHolds, LockLocated,
       Loading
  <2>3. OneGate'
    BY <1>10 DEF Cancel, Finish, Unlock, NoLists, Located, LoaderHolds, OneGate,
       OneGateOf, LockLocated, Loading, Hit
  <2> QED BY <2>1, <2>2, <2>3
<1> QED BY <1>1, <1>2, <1>3, <1>4, <1>5, <1>6, <1>7, <1>8, <1>9, <1>10 DEF ReadStep

\* The calls of a write, each followed by its invalidations.
LEMMA WriteGate ==
  ASSUME GateInv, NEW p \in Procs, WriteStep(p)
  PROVE  GateInv'
<1> USE GrantAssumption, ListFacts, KeyFacts DEF GateInv, TypeOK, Goto, cacheVars,
  gateVars, Labels, ReadLabels, WriteLabels
<1>1. CASE \E k \in Keys, v \in Lists : SetGrants(p, k, v)
  <2>0. PICK k \in Keys, v \in Lists : SetGrants(p, k, v)
    BY <1>1
  <2>1. TypeOK'
    BY <2>0 DEF SetGrants, BeginWrite, NoEdit, Located
  <2>2. Located' /\ LoaderHolds' /\ LockLocated'
    BY <2>0 DEF SetGrants, BeginWrite, Located, LoaderHolds, LockLocated, Loading
  <2>3. OneGate'
    <3> SUFFICES ASSUME singleFlight', NEW j \in Keys \ disturbed'
                 PROVE  OneGateOf(j)'
      BY DEF OneGate
    <3>1. /\ pc[p] = "idle" /\ gate[p] = NoGate
          /\ pc' = [pc EXCEPT ![p] = pc'[p]] /\ pc'[p] \notin Loading \cup {"release"}
          /\ key' = [key EXCEPT ![p] = k]
          /\ UNCHANGED <<singleFlight, cache, dead, table, gate, disturbed>>
      BY ZenonT(30), <2>0 DEF SetGrants, BeginWrite, Located, Loading
    <3>2. OneGateOf(j) /\ (Hit(j)' <=> Hit(j))
      BY <3>1 DEF OneGate, Hit
    <3> QED BY <3>1, <3>2 DEF OneGateOf
  <2> QED BY <2>1, <2>2, <2>3
<1>2. CASE \E k \in Keys, g \in Grants : AddGrant(p, k, g)
  <2>0. PICK k \in Keys, g \in Grants : AddGrant(p, k, g)
    BY <1>2
  <2>1. TypeOK'
    BY <2>0 DEF AddGrant, BeginWrite, NoEdit, Located
  <2>2. Located' /\ LoaderHolds' /\ LockLocated'
    BY <2>0 DEF AddGrant, BeginWrite, Located, LoaderHolds, LockLocated, Loading
  <2>3. OneGate'
    <3> SUFFICES ASSUME singleFlight', NEW j \in Keys \ disturbed'
                 PROVE  OneGateOf(j)'
      BY DEF OneGate
    <3>1. /\ pc[p] = "idle" /\ gate[p] = NoGate
          /\ pc' = [pc EXCEPT ![p] = pc'[p]] /\ pc'[p] \notin Loading \cup {"release"}
          /\ key' = [key EXCEPT ![p] = k]
          /\ UNCHANGED <<singleFlight, cache, dead, table, gate, disturbed>>
      BY ZenonT(30), <2>0 DEF AddGrant, BeginWrite, Located, Loading
    <3>2. OneGateOf(j) /\ (Hit(j)' <=> Hit(j))
      BY <3>1 DEF OneGate, Hit
    <3> QED BY <3>1, <3>2 DEF OneGateOf
  <2> QED BY <2>1, <2>2, <2>3
<1>3. CASE \E k \in Keys, g \in Grants : RemoveGrant(p, k, g)
  <2>0. PICK k \in Keys, g \in Grants : RemoveGrant(p, k, g)
    BY <1>3
  <2>1. TypeOK'
    BY <2>0 DEF RemoveGrant, BeginWrite, NoEdit, Located
  <2>2. Located' /\ LoaderHolds' /\ LockLocated'
    BY <2>0 DEF RemoveGrant, BeginWrite, Located, LoaderHolds, LockLocated, Loading
  <2>3. OneGate'
    <3> SUFFICES ASSUME singleFlight', NEW j \in Keys \ disturbed'
                 PROVE  OneGateOf(j)'
      BY DEF OneGate
    <3>1. /\ pc[p] = "idle" /\ gate[p] = NoGate
          /\ pc' = [pc EXCEPT ![p] = pc'[p]] /\ pc'[p] \notin Loading \cup {"release"}
          /\ key' = [key EXCEPT ![p] = k]
          /\ UNCHANGED <<singleFlight, cache, dead, table, gate, disturbed>>
      BY ZenonT(30), <2>0 DEF RemoveGrant, BeginWrite, Located, Loading
    <3>2. OneGateOf(j) /\ (Hit(j)' <=> Hit(j))
      BY <3>1 DEF OneGate, Hit
    <3> QED BY <3>1, <3>2 DEF OneGateOf
  <2> QED BY <2>1, <2>2, <2>3
<1>4. CASE ReadList(p)
  <2>1. TypeOK'
    BY <1>4 DEF ReadList, NoEdit, Located
  <2>2. Located' /\ LoaderHolds' /\ LockLocated'
    <3>1. (store[key[p]] \cup edit[p].add) \ edit[p].del \in Lists
      BY <1>4 DEF ReadList, Located
    <3> QED BY <1>4, <3>1 DEF ReadList, Located, LoaderHolds, LockLocated, Loading
  <2>3. OneGate'
    BY <1>4 DEF ReadList, Located, LoaderHolds, OneGate, OneGateOf, LockLocated,
       Loading, Hit
  <2> QED BY <2>1, <2>2, <2>3
<1>5. CASE WriteList(p)
  <2>1. TypeOK'
    BY <1>5 DEF WriteList, NoEdit, Located
  <2>2. Located' /\ LoaderHolds' /\ LockLocated'
    BY <1>5 DEF WriteList, Located, LoaderHolds, LockLocated, Loading
  <2>3. OneGate'
    BY <1>5 DEF WriteList, Located, LoaderHolds, OneGate, OneGateOf, LockLocated,
       Loading, Hit
  <2> QED BY <2>1, <2>2, <2>3
<1>6. CASE WriteFails(p)
  <2>1. TypeOK'
    BY <1>6 DEF WriteFails, Finish, NoEdit, Located
  <2>2. Located' /\ LoaderHolds' /\ LockLocated'
    BY <1>6 DEF WriteFails, Finish, Located, LoaderHolds, LockLocated, Loading
  <2>3. OneGate'
    BY <1>6 DEF WriteFails, Finish, Located, LoaderHolds, OneGate, OneGateOf,
       LockLocated, Loading, Hit
  <2> QED BY <2>1, <2>2, <2>3
<1>7. CASE AbandonWrite(p)
  <2>1. TypeOK'
    BY <1>7 DEF AbandonWrite, Finish, NoLists, NoEdit, Located
  <2>2. Located' /\ LoaderHolds' /\ LockLocated'
    BY <1>7 DEF AbandonWrite, Finish, NoLists, Located, LoaderHolds, LockLocated,
       Loading
  <2>3. OneGate'
    BY <1>7 DEF AbandonWrite, Finish, NoLists, Located, LoaderHolds, OneGate, OneGateOf,
       LockLocated, Loading, Hit
  <2> QED BY <2>1, <2>2, <2>3
<1>8. CASE InvalidatePermission(p)
  <2>1. TypeOK'
    <3>1. key[p] \in Keys /\ <<"permission", key[p][2]>> \in Keys
      BY <1>8 DEF InvalidatePermission, Located
    <3>2. /\ cache' \in [Keys -> Lists \cup {NoList}]
          /\ dead' \subseteq Keys /\ suspect' \subseteq Keys /\ disturbed' \subseteq Keys
      BY <1>8, <3>1 DEF InvalidatePermission, Drop
    <3> QED BY <1>8, <3>2 DEF InvalidatePermission
  <2>2. Located' /\ LoaderHolds' /\ LockLocated'
    BY <1>8 DEF InvalidatePermission, Drop, Located, LoaderHolds, LockLocated, Loading
  <2>3. OneGate'
    BY <1>8 DEF InvalidatePermission, Drop, Located, LoaderHolds, OneGate, OneGateOf,
       LockLocated, Loading, Hit
  <2> QED BY <2>1, <2>2, <2>3
<1>9. CASE InvalidateRole(p)
  <2>1. TypeOK'
    <3>1. key[p] \in Keys /\ <<"role", key[p][2]>> \in Keys
      BY <1>9 DEF InvalidateRole, Located
    <3>2. /\ cache' \in [Keys -> Lists \cup {NoList}]
          /\ dead' \subseteq Keys /\ suspect' \subseteq Keys /\ disturbed' \subseteq Keys
      BY <1>9, <3>1 DEF InvalidateRole, Drop
    <3>3. scope' \in [Procs -> [Keys -> Lists \cup {NoList}]]
      BY <1>9 DEF InvalidateRole
    <3> QED BY <1>9, <3>2, <3>3 DEF InvalidateRole, Finish, NoEdit
  <2>2. Located' /\ LoaderHolds' /\ LockLocated'
    BY <1>9 DEF InvalidateRole, Drop, Finish, Both, Located, LoaderHolds, LockLocated,
       Loading
  <2>3. OneGate'
    BY <1>9 DEF InvalidateRole, Drop, Finish, Both, Located, LoaderHolds, OneGate,
       OneGateOf, LockLocated, Loading, Hit
  <2> QED BY <2>1, <2>2, <2>3
<1> QED BY <1>1, <1>2, <1>3, <1>4, <1>5, <1>6, <1>7, <1>8, <1>9 DEF WriteStep

\* Maintenance calls and the end of a request.
LEMMA UpkeepGate ==
  ASSUME GateInv, NEW p \in Procs, UpkeepStep(p)
  PROVE  GateInv'
<1> USE GrantAssumption, ListFacts, KeyFacts DEF GateInv, TypeOK, Goto, cacheVars,
  gateVars, Labels, ReadLabels, WriteLabels
<1>1. CASE \E k \in Keys : InvalidateAccount(p, k)
  <2>0. PICK k \in Keys : InvalidateAccount(p, k)
    BY <1>1
  <2>1. TypeOK'
    BY <2>0 DEF InvalidateAccount, BeginWrite, NoEdit, Located
  <2>2. Located' /\ LoaderHolds' /\ LockLocated'
    BY <2>0 DEF InvalidateAccount, BeginWrite, Located, LoaderHolds, LockLocated,
       Loading
  <2>3. OneGate'
    <3> SUFFICES ASSUME singleFlight', NEW j \in Keys \ disturbed'
                 PROVE  OneGateOf(j)'
      BY DEF OneGate
    <3>1. /\ pc[p] = "idle" /\ gate[p] = NoGate
          /\ pc' = [pc EXCEPT ![p] = pc'[p]] /\ pc'[p] \notin Loading \cup {"release"}
          /\ key' = [key EXCEPT ![p] = k]
          /\ UNCHANGED <<singleFlight, cache, dead, table, gate, disturbed>>
      BY ZenonT(30), <2>0 DEF InvalidateAccount, BeginWrite, Located, Loading
    <3>2. OneGateOf(j) /\ (Hit(j)' <=> Hit(j))
      BY <3>1 DEF OneGate, Hit
    <3> QED BY <3>1, <3>2 DEF OneGateOf
  <2> QED BY <2>1, <2>2, <2>3
<1>2. CASE InvalidateAll(p)
  <2>1. TypeOK'
    BY <1>2 DEF InvalidateAll, Drop, NoLists, NoEdit, Located
  <2>2. Located' /\ LoaderHolds' /\ LockLocated'
    BY <1>2 DEF InvalidateAll, Drop, NoLists, Located, LoaderHolds, LockLocated,
       Loading
  <2>3. OneGate'
    BY <1>2 DEF InvalidateAll, Drop, NoLists, Located, LoaderHolds, OneGate, OneGateOf,
       LockLocated, Loading, Hit
  <2> QED BY <2>1, <2>2, <2>3
<1>3. CASE EndRequest(p)
  <2>1. TypeOK'
    BY <1>3 DEF EndRequest, NoLists, NoEdit, Located
  <2>2. Located' /\ LoaderHolds' /\ LockLocated'
    BY <1>3 DEF EndRequest, NoLists, Located, LoaderHolds, LockLocated, Loading
  <2>3. OneGate'
    BY <1>3 DEF EndRequest, NoLists, Located, LoaderHolds, OneGate, OneGateOf,
       LockLocated, Loading, Hit
  <2> QED BY <2>1, <2>2, <2>3
<1> QED BY <1>1, <1>2, <1>3 DEF UpkeepStep

\* The calls of a read up to the shard's lock, and the snapshot it fills.
LEMMA ReadData ==
  ASSUME GateInv /\ DataInv, NEW p \in Procs, ReadStep(p)
  PROVE  DataInv'
<1> USE GrantAssumption, ListFacts, KeyFacts DEF GateInv, DataInv, TypeOK, Located,
  Goto, cacheVars, gateVars, Labels, ReadLabels, WriteLabels
<1>1. CASE \E k \in Keys : Read(p, k)
  <2>0. PICK k \in Keys : Read(p, k)
    BY <1>1
  <2>1. CacheCurrent'
    BY <2>0 DEF Read, CacheCurrent, FetchedCurrent, Removing, Present
  <2>2. FetchedCurrent' /\ SeenCurrent' /\ ReadRecent'
    BY <2>0 DEF Read, CacheCurrent, FetchedCurrent, SeenCurrent, ReadRecent, OwnStored,
       Removing, Present, Hit
  <2>3. OwnStored' /\ ScopeOwn'
    BY <2>0 DEF Read, SeenCurrent, ReadRecent, OwnStored, ScopeOwn, Settling, Both
  <2> QED BY <2>1, <2>2, <2>3
<1>2. CASE PeekHit(p)
  <2>1. CacheCurrent'
    BY <1>2 DEF PeekHit, TakeHit, Hit, CacheCurrent, FetchedCurrent, Removing, Present
  <2>2. FetchedCurrent' /\ SeenCurrent' /\ ReadRecent'
    <3>1. /\ pc[p] = "peek" /\ Hit(key[p])
          /\ val' = [val EXCEPT ![p] = cache[key[p]]]
          /\ excused' = IF key[p] \in suspect \/ Removing(key[p])
                        THEN excused \cup {p} ELSE excused
          /\ pc' = [pc EXCEPT ![p] = "release"]
          /\ UNCHANGED <<store, cacheVars, key, scope, stale, seen, own>>
      BY <1>2 DEF PeekHit, TakeHit
    <3> QED BY <3>1
      DEF CacheCurrent, FetchedCurrent, SeenCurrent, ReadRecent, Present, Hit
  <2>3. OwnStored' /\ ScopeOwn'
    BY <1>2 DEF PeekHit, TakeHit, Hit, SeenCurrent, ReadRecent, OwnStored, ScopeOwn,
       Settling, Both
  <2> QED BY <2>1, <2>2, <2>3
<1>3. CASE PeekMiss(p)
  <2>1. CacheCurrent'
    BY <1>3 DEF PeekMiss, Hit, CacheCurrent, FetchedCurrent, Removing, Present
  <2>2. FetchedCurrent' /\ SeenCurrent' /\ ReadRecent'
    BY <1>3 DEF PeekMiss, Hit, CacheCurrent, FetchedCurrent, SeenCurrent, ReadRecent,
       OwnStored, Removing, Present
  <2>3. OwnStored' /\ ScopeOwn'
    BY <1>3 DEF PeekMiss, Hit, SeenCurrent, ReadRecent, OwnStored, ScopeOwn, Settling,
       Both
  <2> QED BY <2>1, <2>2, <2>3
<1>4. CASE TakeGate(p)
  <2>1. CacheCurrent'
    BY <1>4 DEF TakeGate, CacheCurrent, FetchedCurrent, Removing, Present
  <2>2. FetchedCurrent' /\ SeenCurrent' /\ ReadRecent'
    BY <1>4 DEF TakeGate, CacheCurrent, FetchedCurrent, SeenCurrent, ReadRecent,
       OwnStored, Removing, Present, Hit
  <2>3. OwnStored' /\ ScopeOwn'
    BY <1>4 DEF TakeGate, SeenCurrent, ReadRecent, OwnStored, ScopeOwn, Settling, Both
  <2> QED BY <2>1, <2>2, <2>3
<1>5. CASE Recheck(p)
  <2>1. CacheCurrent'
    <3>1. CASE Hit(key[p])
      <4>1. /\ pc[p] = "recheck" /\ holder[gate[p]] = NoTask
            /\ holder' = [holder EXCEPT ![gate[p]] = p]
            /\ val' = [val EXCEPT ![p] = cache[key[p]]]
            /\ excused' = IF key[p] \in suspect \/ Removing(key[p])
                          THEN excused \cup {p} ELSE excused
            /\ pc' = [pc EXCEPT ![p] = "release"]
            /\ UNCHANGED <<singleFlight, store, cacheVars, table, key, gate, edit, scope,
                           stale, seen, own, disturbed, calls>>
        BY <1>5, <3>1 DEF Recheck, TakeHit
      <4> QED BY <3>1, <4>1
        DEF CacheCurrent, Removing, Present, Hit
    <3>2. CASE ~Hit(key[p])
      <4>1. /\ pc[p] = "recheck" /\ holder[gate[p]] = NoTask
            /\ holder' = [holder EXCEPT ![gate[p]] = p]
            /\ pc' = [pc EXCEPT ![p] = "fetch"]
            /\ UNCHANGED <<singleFlight, store, cacheVars, table, key, gate, val, edit,
                           scope, stale, excused, seen, own, disturbed, calls>>
        BY <1>5, <3>2 DEF Recheck
      <4> QED BY <3>2, <4>1
        DEF CacheCurrent, Removing, Present, Hit
    <3> QED BY <3>1, <3>2
  <2>2. FetchedCurrent' /\ SeenCurrent' /\ ReadRecent'
    <3>1. CASE Hit(key[p])
      <4>1. /\ pc[p] = "recheck" /\ holder[gate[p]] = NoTask
            /\ holder' = [holder EXCEPT ![gate[p]] = p]
            /\ val' = [val EXCEPT ![p] = cache[key[p]]]
            /\ excused' = IF key[p] \in suspect \/ Removing(key[p])
                          THEN excused \cup {p} ELSE excused
            /\ pc' = [pc EXCEPT ![p] = "release"]
            /\ UNCHANGED <<singleFlight, store, cacheVars, table, key, gate, edit, scope,
                           stale, seen, own, disturbed, calls>>
        BY <1>5, <3>1 DEF Recheck, TakeHit
      <4> QED BY <3>1, <4>1
        DEF CacheCurrent, FetchedCurrent, SeenCurrent, ReadRecent, Present, Hit
    <3>2. CASE ~Hit(key[p])
      <4>1. /\ pc[p] = "recheck" /\ holder[gate[p]] = NoTask
            /\ holder' = [holder EXCEPT ![gate[p]] = p]
            /\ pc' = [pc EXCEPT ![p] = "fetch"]
            /\ UNCHANGED <<singleFlight, store, cacheVars, table, key, gate, val, edit,
                           scope, stale, excused, seen, own, disturbed, calls>>
        BY <1>5, <3>2 DEF Recheck
      <4> QED BY <3>2, <4>1
        DEF CacheCurrent, FetchedCurrent, SeenCurrent, ReadRecent, Present, Hit
    <3> QED BY <3>1, <3>2
  <2>3. OwnStored' /\ ScopeOwn'
    <3>1. CASE Hit(key[p])
      <4>1. /\ pc[p] = "recheck" /\ holder[gate[p]] = NoTask
            /\ holder' = [holder EXCEPT ![gate[p]] = p]
            /\ val' = [val EXCEPT ![p] = cache[key[p]]]
            /\ excused' = IF key[p] \in suspect \/ Removing(key[p])
                          THEN excused \cup {p} ELSE excused
            /\ pc' = [pc EXCEPT ![p] = "release"]
            /\ UNCHANGED <<singleFlight, store, cacheVars, table, key, gate, edit, scope,
                           stale, seen, own, disturbed, calls>>
        BY <1>5, <3>1 DEF Recheck, TakeHit
      <4> QED BY <3>1, <4>1
        DEF OwnStored, ScopeOwn, Settling
    <3>2. CASE ~Hit(key[p])
      <4>1. /\ pc[p] = "recheck" /\ holder[gate[p]] = NoTask
            /\ holder' = [holder EXCEPT ![gate[p]] = p]
            /\ pc' = [pc EXCEPT ![p] = "fetch"]
            /\ UNCHANGED <<singleFlight, store, cacheVars, table, key, gate, val, edit,
                           scope, stale, excused, seen, own, disturbed, calls>>
        BY <1>5, <3>2 DEF Recheck
      <4> QED BY <3>2, <4>1
        DEF OwnStored, ScopeOwn, Settling
    <3> QED BY <3>1, <3>2
  <2> QED BY <2>1, <2>2, <2>3
<1>6. CASE Fetch(p)
  <2>1. CacheCurrent'
    BY <1>6 DEF Fetch, CacheCurrent, FetchedCurrent, Removing, Present
  <2>2. FetchedCurrent' /\ SeenCurrent' /\ ReadRecent'
    BY <1>6 DEF Fetch, CacheCurrent, FetchedCurrent, SeenCurrent, ReadRecent, OwnStored,
       Removing, Present, Hit
  <2>3. OwnStored' /\ ScopeOwn'
    BY <1>6 DEF Fetch, SeenCurrent, ReadRecent, OwnStored, ScopeOwn, Settling, Both
  <2> QED BY <2>1, <2>2, <2>3
<1>7. CASE FetchFails(p)
  <2>1. CacheCurrent'
    BY <1>7 DEF FetchFails, CacheCurrent, FetchedCurrent, Removing, Present
  <2>2. FetchedCurrent' /\ SeenCurrent' /\ ReadRecent'
    BY <1>7 DEF FetchFails, CacheCurrent, FetchedCurrent, SeenCurrent, ReadRecent,
       OwnStored, Removing, Present, Hit
  <2>3. OwnStored' /\ ScopeOwn'
    BY <1>7 DEF FetchFails, SeenCurrent, ReadRecent, OwnStored, ScopeOwn, Settling, Both
  <2> QED BY <2>1, <2>2, <2>3
<1>8. CASE Put(p)
  <2>1. CacheCurrent'
    <3>1. PICK V \in Evictions(key[p]) :
            /\ cache' = [k \in Keys |-> IF k = key[p] THEN val[p]
                                        ELSE IF k \in V THEN NoList ELSE cache[k]]
            /\ dead' = dead \ (V \cup {key[p]})
            /\ suspect' = IF p \in stale THEN (suspect \ V) \cup {key[p]}
                                         ELSE suspect \ (V \cup {key[p]})
            /\ disturbed' = disturbed \cup V
      BY <1>8 DEF Put
    <3>2. /\ pc[p] = "put" /\ pc' = [pc EXCEPT ![p] = "release"]
          /\ UNCHANGED <<singleFlight, store, gateVars, key, gate, val, edit, scope,
                         stale, excused, seen, own, calls>>
      BY <1>8 DEF Put
    <3> SUFFICES ASSUME NEW k \in Present' \ suspect'
                 PROVE  Removing(k)' \/ cache'[k] = store'[k]
      BY DEF CacheCurrent
    <3>3. k \in Keys
      BY DEF Present
    <3>4. CASE k = key[p]
      BY <3>1, <3>2, <3>3, <3>4 DEF FetchedCurrent
    <3>5. CASE k # key[p]
      BY <3>1, <3>2, <3>3, <3>5 DEF CacheCurrent, Present, Removing
    <3> QED BY <3>4, <3>5
  <2>2. FetchedCurrent' /\ SeenCurrent' /\ ReadRecent'
    BY <1>8 DEF Put, Evictions, Present, CacheCurrent, FetchedCurrent, SeenCurrent,
       ReadRecent, OwnStored, Removing, Hit
  <2>3. OwnStored' /\ ScopeOwn'
    BY <1>8 DEF Put, Evictions, Present, SeenCurrent, ReadRecent, OwnStored, ScopeOwn,
       Settling, Both
  <2> QED BY <2>1, <2>2, <2>3
<1>9. CASE Release(p)
  <2>1. CacheCurrent'
    BY <1>9 DEF Release, ReturnRead, Finish, Unlock, CacheCurrent, FetchedCurrent,
       Removing, Present
  <2>2. FetchedCurrent' /\ SeenCurrent' /\ ReadRecent'
    BY <1>9 DEF Release, ReturnRead, Finish, Unlock, CacheCurrent, FetchedCurrent,
       SeenCurrent, ReadRecent, OwnStored, Removing, Present, Hit
  <2>3. OwnStored' /\ ScopeOwn'
    BY <1>9 DEF Release, ReturnRead, Finish, Unlock, SeenCurrent, ReadRecent, OwnStored,
       ScopeOwn, Settling, Both
  <2> QED BY <2>1, <2>2, <2>3
<1>10. CASE Cancel(p)
  <2>1. CacheCurrent'
    BY <1>10 DEF Cancel, Finish, Unlock, NoLists, CacheCurrent, FetchedCurrent,
       Removing, Present
  <2>2. FetchedCurrent' /\ SeenCurrent' /\ ReadRecent'
    BY <1>10 DEF Cancel, Finish, Unlock, NoLists, CacheCurrent, FetchedCurrent,
       SeenCurrent, ReadRecent, OwnStored, Removing, Present, Hit
  <2>3. OwnStored' /\ ScopeOwn'
    BY <1>10 DEF Cancel, Finish, Unlock, NoLists, SeenCurrent, ReadRecent, OwnStored,
       ScopeOwn, Settling, Both
  <2> QED BY <2>1, <2>2, <2>3
<1> QED BY <1>1, <1>2, <1>3, <1>4, <1>5, <1>6, <1>7, <1>8, <1>9, <1>10 DEF ReadStep

\* The calls of a write, each followed by its invalidations.
LEMMA WriteData ==
  ASSUME GateInv /\ DataInv, NEW p \in Procs, WriteStep(p)
  PROVE  DataInv'
<1> USE GrantAssumption, ListFacts, KeyFacts DEF GateInv, DataInv, TypeOK, Located,
  Goto, cacheVars, gateVars, Labels, ReadLabels, WriteLabels
<1>1. CASE \E k \in Keys, v \in Lists : SetGrants(p, k, v)
  <2>0. PICK k \in Keys, v \in Lists : SetGrants(p, k, v)
    BY <1>1
  <2>1. CacheCurrent'
    BY <2>0 DEF SetGrants, BeginWrite, CacheCurrent, FetchedCurrent, Removing, Present
  <2>2. FetchedCurrent' /\ SeenCurrent' /\ ReadRecent'
    BY <2>0 DEF SetGrants, BeginWrite, CacheCurrent, FetchedCurrent, SeenCurrent,
       ReadRecent, OwnStored, Removing, Present, Hit
  <2>3. OwnStored' /\ ScopeOwn'
    BY <2>0 DEF SetGrants, BeginWrite, SeenCurrent, ReadRecent, OwnStored, ScopeOwn,
       Settling, Both
  <2> QED BY <2>1, <2>2, <2>3
<1>2. CASE \E k \in Keys, g \in Grants : AddGrant(p, k, g)
  <2>0. PICK k \in Keys, g \in Grants : AddGrant(p, k, g)
    BY <1>2
  <2>1. CacheCurrent'
    BY <2>0 DEF AddGrant, BeginWrite, CacheCurrent, FetchedCurrent, Removing, Present
  <2>2. FetchedCurrent' /\ SeenCurrent' /\ ReadRecent'
    BY <2>0 DEF AddGrant, BeginWrite, CacheCurrent, FetchedCurrent, SeenCurrent,
       ReadRecent, OwnStored, Removing, Present, Hit
  <2>3. OwnStored' /\ ScopeOwn'
    BY <2>0 DEF AddGrant, BeginWrite, SeenCurrent, ReadRecent, OwnStored, ScopeOwn,
       Settling, Both
  <2> QED BY <2>1, <2>2, <2>3
<1>3. CASE \E k \in Keys, g \in Grants : RemoveGrant(p, k, g)
  <2>0. PICK k \in Keys, g \in Grants : RemoveGrant(p, k, g)
    BY <1>3
  <2>1. CacheCurrent'
    BY <2>0 DEF RemoveGrant, BeginWrite, CacheCurrent, FetchedCurrent, Removing, Present
  <2>2. FetchedCurrent' /\ SeenCurrent' /\ ReadRecent'
    BY <2>0 DEF RemoveGrant, BeginWrite, CacheCurrent, FetchedCurrent, SeenCurrent,
       ReadRecent, OwnStored, Removing, Present, Hit
  <2>3. OwnStored' /\ ScopeOwn'
    BY <2>0 DEF RemoveGrant, BeginWrite, SeenCurrent, ReadRecent, OwnStored, ScopeOwn,
       Settling, Both
  <2> QED BY <2>1, <2>2, <2>3
<1>4. CASE ReadList(p)
  <2>1. CacheCurrent'
    BY <1>4 DEF ReadList, CacheCurrent, FetchedCurrent, Removing, Present
  <2>2. FetchedCurrent' /\ SeenCurrent' /\ ReadRecent'
    BY <1>4 DEF ReadList, CacheCurrent, FetchedCurrent, SeenCurrent, ReadRecent,
       OwnStored, Removing, Present, Hit
  <2>3. OwnStored' /\ ScopeOwn'
    BY <1>4 DEF ReadList, SeenCurrent, ReadRecent, OwnStored, ScopeOwn, Settling, Both
  <2> QED BY <2>1, <2>2, <2>3
<1>5. CASE WriteList(p)
  <2>1. CacheCurrent'
    BY <1>5 DEF WriteList, CacheCurrent, FetchedCurrent, Removing, Present
  <2>2. FetchedCurrent' /\ SeenCurrent' /\ ReadRecent'
    BY <1>5 DEF WriteList, CacheCurrent, FetchedCurrent, SeenCurrent, ReadRecent,
       OwnStored, Removing, Present, Hit
  <2>3. OwnStored' /\ ScopeOwn'
    BY <1>5 DEF WriteList, SeenCurrent, ReadRecent, OwnStored, ScopeOwn, Settling, Both
  <2> QED BY <2>1, <2>2, <2>3
<1>6. CASE WriteFails(p)
  <2>1. CacheCurrent'
    BY <1>6 DEF WriteFails, Finish, CacheCurrent, FetchedCurrent, Removing, Present
  <2>2. FetchedCurrent' /\ SeenCurrent' /\ ReadRecent'
    BY <1>6 DEF WriteFails, Finish, CacheCurrent, FetchedCurrent, SeenCurrent,
       ReadRecent, OwnStored, Removing, Present, Hit
  <2>3. OwnStored' /\ ScopeOwn'
    BY <1>6 DEF WriteFails, Finish, SeenCurrent, ReadRecent, OwnStored, ScopeOwn,
       Settling, Both
  <2> QED BY <2>1, <2>2, <2>3
<1>7. CASE AbandonWrite(p)
  <2>1. CacheCurrent'
    BY <1>7 DEF AbandonWrite, Finish, NoLists, CacheCurrent, FetchedCurrent, Removing,
       Present
  <2>2. FetchedCurrent' /\ SeenCurrent' /\ ReadRecent'
    BY <1>7 DEF AbandonWrite, Finish, NoLists, CacheCurrent, FetchedCurrent,
       SeenCurrent, ReadRecent, OwnStored, Removing, Present, Hit
  <2>3. OwnStored' /\ ScopeOwn'
    BY <1>7 DEF AbandonWrite, Finish, NoLists, SeenCurrent, ReadRecent, OwnStored,
       ScopeOwn, Settling, Both
  <2> QED BY <2>1, <2>2, <2>3
<1>8. CASE InvalidatePermission(p)
  <2>1. CacheCurrent'
    <3> SUFFICES ASSUME NEW k \in Present' \ suspect'
                 PROVE  Removing(k)' \/ cache'[k] = store'[k]
      BY DEF CacheCurrent
    <3>1. /\ k \in Keys /\ k # <<"permission", key[p][2]>> /\ cache'[k] = cache[k]
          /\ k \notin suspect /\ store' = store
      BY <1>8 DEF InvalidatePermission, Drop, Present
    <3>2. Removing(k) \/ cache[k] = store[k]
      BY <3>1 DEF CacheCurrent, Present
    <3>3. ASSUME NEW q \in Procs, key[q] = k,
                 \/ pc[q] = "invalidatePermission"
                 \/ pc[q] = "invalidateRole" /\ k[1] = "role"
          PROVE  /\ key'[q] = k
                 /\ \/ pc'[q] = "invalidatePermission"
                    \/ pc'[q] = "invalidateRole" /\ k[1] = "role"
      <4>1. CASE q = p
        <5>1. k = <<"role", k[2]>> /\ k[1] = "role"
          BY <1>8, <3>1, <3>3, <4>1
        <5> QED BY <1>8, <3>3, <4>1, <5>1 DEF InvalidatePermission
      <4>2. CASE q # p
        <5>1. pc'[q] = pc[q] /\ key'[q] = key[q]
          BY <1>8, <4>2 DEF InvalidatePermission
        <5> QED BY <3>3, <5>1
      <4> QED BY <4>1, <4>2
    <3>4. Removing(k) => Removing(k)'
      <4> SUFFICES ASSUME Removing(k) PROVE Removing(k)'
        OBVIOUS
      <4>1. PICK q \in Procs :
              /\ key[q] = k
              /\ \/ pc[q] = "invalidatePermission"
                 \/ pc[q] = "invalidateRole" /\ k[1] = "role"
        BY DEF Removing
      <4> QED BY <3>3, <4>1 DEF Removing
    <3> QED BY <3>1, <3>2, <3>4
  <2>2. FetchedCurrent' /\ SeenCurrent' /\ ReadRecent'
    BY <1>8 DEF InvalidatePermission, Drop, CacheCurrent, FetchedCurrent, SeenCurrent,
       ReadRecent, OwnStored, Removing, Present, Hit
  <2>3. OwnStored' /\ ScopeOwn'
    BY <1>8 DEF InvalidatePermission, Drop, SeenCurrent, ReadRecent, OwnStored,
       ScopeOwn, Settling, Both
  <2> QED BY <2>1, <2>2, <2>3
<1>9. CASE InvalidateRole(p)
  <2>1. CacheCurrent'
    <3> SUFFICES ASSUME NEW k \in Present' \ suspect'
                 PROVE  Removing(k)' \/ cache'[k] = store'[k]
      BY DEF CacheCurrent
    <3>1. /\ k \in Keys /\ k # <<"role", key[p][2]>> /\ cache'[k] = cache[k]
          /\ k \notin suspect /\ store' = store
      BY <1>9 DEF InvalidateRole, Drop, Present
    <3>2. Removing(k) \/ cache[k] = store[k]
      BY <3>1 DEF CacheCurrent, Present
    <3>3. ASSUME NEW q \in Procs, key[q] = k,
                 \/ pc[q] = "invalidatePermission"
                 \/ pc[q] = "invalidateRole" /\ k[1] = "role"
          PROVE  /\ key'[q] = k
                 /\ \/ pc'[q] = "invalidatePermission"
                    \/ pc'[q] = "invalidateRole" /\ k[1] = "role"
      <4>1. CASE q = p
        <5>1. k = <<"permission", k[2]>> /\ k[1] = "permission"
          BY <1>9, <3>1, <3>3, <4>1
        <5> QED BY <1>9, <3>3, <4>1, <5>1 DEF InvalidateRole, Finish
      <4>2. CASE q # p
        <5>1. pc'[q] = pc[q] /\ key'[q] = key[q]
          BY <1>9, <4>2 DEF InvalidateRole, Finish
        <5> QED BY <3>3, <5>1
      <4> QED BY <4>1, <4>2
    <3>4. Removing(k) => Removing(k)'
      <4> SUFFICES ASSUME Removing(k) PROVE Removing(k)'
        OBVIOUS
      <4>1. PICK q \in Procs :
              /\ key[q] = k
              /\ \/ pc[q] = "invalidatePermission"
                 \/ pc[q] = "invalidateRole" /\ k[1] = "role"
        BY DEF Removing
      <4> QED BY <3>3, <4>1 DEF Removing
    <3> QED BY <3>1, <3>2, <3>4
  <2>2. FetchedCurrent' /\ SeenCurrent' /\ ReadRecent'
    <3>1. /\ pc[p] = "invalidateRole" /\ pc' = [pc EXCEPT ![p] = "idle"]
          /\ key' = [key EXCEPT ![p] = NoKey] /\ val' = [val EXCEPT ![p] = NoList]
          /\ stale' = stale \ {p} /\ excused' = excused \ {p}
          /\ seen' = [seen EXCEPT ![p] = {}]
          /\ scope' = [scope EXCEPT ![p] =
               [k \in Keys |-> IF k \in Both(key[p][2]) THEN NoList ELSE @[k]]]
          /\ UNCHANGED <<store, own>>
      BY <1>9 DEF InvalidateRole, Finish
    <3> QED BY <3>1 DEF FetchedCurrent, SeenCurrent, ReadRecent
  <2>3. OwnStored' /\ ScopeOwn'
    <3>1. /\ pc[p] = "invalidateRole" /\ pc' = [pc EXCEPT ![p] = "idle"]
          /\ key' = [key EXCEPT ![p] = NoKey] /\ val' = [val EXCEPT ![p] = NoList]
          /\ stale' = stale \ {p} /\ excused' = excused \ {p}
          /\ seen' = [seen EXCEPT ![p] = {}]
          /\ scope' = [scope EXCEPT ![p] =
               [k \in Keys |-> IF k \in Both(key[p][2]) THEN NoList ELSE @[k]]]
          /\ UNCHANGED <<store, own>>
      BY <1>9 DEF InvalidateRole, Finish
    <3>2. key[p] \in Keys /\ key[p] \in Both(key[p][2])
      BY <3>1 DEF Located, Both, Kinds
    <3> QED BY <3>1, <3>2 DEF OwnStored, ScopeOwn, Settling
  <2> QED BY <2>1, <2>2, <2>3
<1> QED BY <1>1, <1>2, <1>3, <1>4, <1>5, <1>6, <1>7, <1>8, <1>9 DEF WriteStep

\* Maintenance calls and the end of a request.
LEMMA UpkeepData ==
  ASSUME GateInv /\ DataInv, NEW p \in Procs, UpkeepStep(p)
  PROVE  DataInv'
<1> USE GrantAssumption, ListFacts, KeyFacts DEF GateInv, DataInv, TypeOK, Located,
  Goto, cacheVars, gateVars, Labels, ReadLabels, WriteLabels
<1>1. CASE \E k \in Keys : InvalidateAccount(p, k)
  <2>0. PICK k \in Keys : InvalidateAccount(p, k)
    BY <1>1
  <2>1. CacheCurrent'
    BY <2>0 DEF InvalidateAccount, BeginWrite, CacheCurrent, FetchedCurrent, Removing,
       Present
  <2>2. FetchedCurrent' /\ SeenCurrent' /\ ReadRecent'
    BY <2>0 DEF InvalidateAccount, BeginWrite, CacheCurrent, FetchedCurrent,
       SeenCurrent, ReadRecent, OwnStored, Removing, Present, Hit
  <2>3. OwnStored' /\ ScopeOwn'
    BY <2>0 DEF InvalidateAccount, BeginWrite, SeenCurrent, ReadRecent, OwnStored,
       ScopeOwn, Settling, Both
  <2> QED BY <2>1, <2>2, <2>3
<1>2. CASE InvalidateAll(p)
  <2>1. CacheCurrent'
    BY <1>2 DEF InvalidateAll, Drop, NoLists, CacheCurrent, FetchedCurrent, Removing,
       Present
  <2>2. FetchedCurrent' /\ SeenCurrent' /\ ReadRecent'
    BY <1>2 DEF InvalidateAll, Drop, NoLists, CacheCurrent, FetchedCurrent, SeenCurrent,
       ReadRecent, OwnStored, Removing, Present, Hit
  <2>3. OwnStored' /\ ScopeOwn'
    BY <1>2 DEF InvalidateAll, Drop, NoLists, SeenCurrent, ReadRecent, OwnStored,
       ScopeOwn, Settling, Both
  <2> QED BY <2>1, <2>2, <2>3
<1>3. CASE EndRequest(p)
  <2>1. CacheCurrent'
    BY <1>3 DEF EndRequest, NoLists, CacheCurrent, FetchedCurrent, Removing, Present
  <2>2. FetchedCurrent' /\ SeenCurrent' /\ ReadRecent'
    BY <1>3 DEF EndRequest, NoLists, CacheCurrent, FetchedCurrent, SeenCurrent,
       ReadRecent, OwnStored, Removing, Present, Hit
  <2>3. OwnStored' /\ ScopeOwn'
    BY <1>3 DEF EndRequest, NoLists, SeenCurrent, ReadRecent, OwnStored, ScopeOwn,
       Settling, Both
  <2> QED BY <2>1, <2>2, <2>3
<1> QED BY <1>1, <1>2, <1>3 DEF UpkeepStep

\* An entry that expires disturbs its key, and nothing else changes.
LEMMA ExpireGate ==
  ASSUME GateInv, NEW k \in Keys, Expire(k)
  PROVE  GateInv'
BY DEF GateInv, TypeOK, Located, LoaderHolds, OneGate, OneGateOf, LockLocated, Loading,
  Expire, Hit, gateVars

\* A list that expires stays what it was.
LEMMA ExpireData ==
  ASSUME GateInv, DataInv, NEW k \in Keys, Expire(k)
  PROVE  DataInv'
BY DEF DataInv, CacheCurrent, FetchedCurrent, SeenCurrent, ReadRecent, OwnStored,
  ScopeOwn, Present, Removing, Expire, gateVars

\* Both invariants hold at the start and are kept by every step.
LEMMA GrantInductive ==
  Spec => [](GateInv /\ DataInv)
<1>1. Init => GateInv /\ DataInv
  BY GrantAssumption, ListFacts
  DEF Init, NoLists, NoEdit, GateInv, TypeOK, Located, LoaderHolds, OneGate, OneGateOf,
    LockLocated, Loading, Hit, Labels, DataInv, CacheCurrent, FetchedCurrent,
    SeenCurrent, ReadRecent, OwnStored, ScopeOwn, Present, ReadLabels
<1>2. GateInv /\ DataInv /\ [Next]_vars => (GateInv /\ DataInv)'
  <2> SUFFICES ASSUME GateInv, DataInv, [Next]_vars
               PROVE  (GateInv /\ DataInv)'
    OBVIOUS
  <2>1. ASSUME NEW p \in Procs, ReadStep(p) PROVE (GateInv /\ DataInv)'
    BY <2>1, ReadGate, ReadData
  <2>2. ASSUME NEW p \in Procs, WriteStep(p) PROVE (GateInv /\ DataInv)'
    BY <2>2, WriteGate, WriteData
  <2>3. ASSUME NEW p \in Procs, UpkeepStep(p) PROVE (GateInv /\ DataInv)'
    BY <2>3, UpkeepGate, UpkeepData
  <2>4. ASSUME NEW k \in Keys, Expire(k) PROVE (GateInv /\ DataInv)'
    BY <2>4, ExpireGate, ExpireData
  <2>5. CASE UNCHANGED vars
    BY <2>5
    DEF vars, cacheVars, gateVars, GateInv, TypeOK, Located, LoaderHolds, OneGate,
      OneGateOf, LockLocated, Loading, Hit, DataInv, CacheCurrent, FetchedCurrent,
      SeenCurrent, ReadRecent, OwnStored, ScopeOwn, Present, Removing
  <2> QED BY <2>1, <2>2, <2>3, <2>4, <2>5 DEF Next
<1> QED BY <1>1, <1>2, PTL DEF Spec

\* Of the concurrent misses of an undisturbed key one alone loads it.
THEOREM OneLoadCorrect == Spec => [](TypeOK /\ OneLoad)
<1>1. GateInv => OneLoad
  BY DEF GateInv, TypeOK, Located, LoaderHolds, OneGate, OneGateOf, Loading, OneLoad
<1>2. GateInv => TypeOK
  BY DEF GateInv
<1> QED BY <1>1, <1>2, GrantInductive, PTL

\* A cached list is the stored one, a read returns a list of its own time, and a
\* request reads back what it wrote, with the exceptions the properties name.
THEOREM ReadsCorrect == Spec => [](CacheCurrent /\ ReadRecent /\ ReadYourWrites)
<1>1. DataInv => ReadYourWrites
  BY DEF DataInv, ScopeOwn, ReadYourWrites, Settling
<1>2. DataInv => CacheCurrent /\ ReadRecent
  BY DEF DataInv
<1> QED BY <1>1, <1>2, GrantInductive, PTL

\* A set with one element more than a smaller one of fewer than n has n at most.
LEMMA AddOne ==
  ASSUME NEW S, NEW T, NEW e, NEW n \in Nat, IsFiniteSet(S), Cardinality(S) < n,
         T \subseteq S \cup {e}
  PROVE  IsFiniteSet(T) /\ Cardinality(T) <= n
<1>1. /\ IsFiniteSet(S \cup {e}) /\ Cardinality(S) \in Nat
      /\ Cardinality(S \cup {e}) \in {Cardinality(S), Cardinality(S) + 1}
  BY FS_AddElement, FS_CardinalityType
<1>2. /\ IsFiniteSet(T) /\ Cardinality(T) <= Cardinality(S \cup {e})
      /\ Cardinality(T) \in Nat
  BY <1>1, FS_Subset, FS_CardinalityType
<1> QED BY <1>1, <1>2

\* What put leaves in the shard is within the bound: a place was free, or expired
\* entries gave theirs, or a live one did.
LEMMA PutBounded ==
  ASSUME IsFiniteSet(Present), Bounded, NEW p \in Procs, Put(p)
  PROVE  IsFiniteSet(Present)' /\ Bounded'
<1> USE GrantAssumption DEF Bounded
<1>1. PICK V \in Evictions(key[p]) :
        cache' = [k \in Keys |-> IF k = key[p] THEN val[p]
                                 ELSE IF k \in V THEN NoList ELSE cache[k]]
  BY DEF Put
<1>2. Present' \subseteq (Present \ V) \cup {key[p]}
  BY <1>1 DEF Present
<1>3. MaxPerShard \in Nat /\ Cardinality(Present) \in Nat
  BY FS_CardinalityType
<1>4. CASE Cardinality(Present) < MaxPerShard
  BY <1>2, <1>3, <1>4, AddOne, Present' \subseteq Present \cup {key[p]}
<1>5. CASE key[p] \in Present
  <2>1. Present' \subseteq Present
    BY <1>2, <1>5
  <2>2. IsFiniteSet(Present') /\ Cardinality(Present') <= Cardinality(Present)
    BY <2>1, FS_Subset
  <2>3. Cardinality(Present') \in Nat
    BY <2>2, FS_CardinalityType
  <2> QED BY <1>3, <2>2, <2>3
<1>6. CASE /\ Cardinality(Present) >= MaxPerShard /\ key[p] \notin Present
           /\ Cardinality(Present \ dead) < MaxPerShard
  <2>1. V = dead
    BY <1>3, <1>6 DEF Evictions
  <2>2. IsFiniteSet(Present \ dead)
    BY FS_Subset
  <2> QED BY <1>2, <1>3, <1>6, <2>1, <2>2, AddOne
<1>7. CASE /\ Cardinality(Present) >= MaxPerShard /\ key[p] \notin Present
           /\ ~(Cardinality(Present \ dead) < MaxPerShard)
  <2>1. PICK v \in Present \ dead : V = dead \cup {v}
    BY <1>3, <1>7 DEF Evictions
  <2> DEFINE live == (Present \ dead) \ {v}
  <2>2. /\ IsFiniteSet(Present \ dead)
        /\ Cardinality(Present \ dead) <= Cardinality(Present)
        /\ Cardinality(Present \ dead) \in Nat
    BY FS_Subset, FS_CardinalityType
  <2>3. IsFiniteSet(live) /\ Cardinality(live) = Cardinality(Present \ dead) - 1
    BY <2>1, <2>2, FS_RemoveElement
  <2>4. Present' \subseteq live \cup {key[p]}
    BY <1>2, <2>1
  <2>5. Cardinality(live) \in Nat
    BY <2>3, FS_CardinalityType
  <2> HIDE DEF live
  <2>6. Cardinality(live) < MaxPerShard
    BY <1>3, <2>2, <2>3, <2>5
  <2> QED BY <1>3, <2>3, <2>4, <2>6, AddOne
<1> QED BY <1>3, <1>4, <1>5, <1>6, <1>7

\* Every other step takes entries away, or leaves them.
LEMMA StepBounded ==
  ASSUME TypeOK, IsFiniteSet(Present), Bounded, Next
  PROVE  IsFiniteSet(Present)' /\ Bounded'
<1>1. ASSUME NEW p \in Procs, Put(p) PROVE IsFiniteSet(Present)' /\ Bounded'
  BY <1>1, PutBounded
<1>2. CASE ~\E p \in Procs : Put(p)
  <2>1. Present' \subseteq Present
    <3>1. ASSUME NEW p \in Procs, ReadStep(p) PROVE UNCHANGED cache
      BY <1>2, <3>1
      DEF ReadStep, Read, PeekHit, PeekMiss, TakeGate, Recheck, TakeHit, Fetch,
        FetchFails, Release, Cancel, cacheVars
    <3>2. ASSUME NEW p \in Procs, WriteStep(p) PROVE Present' \subseteq Present
      BY <3>2
      DEF WriteStep, SetGrants, AddGrant, RemoveGrant, BeginWrite, ReadList, WriteList,
        WriteFails, AbandonWrite, InvalidatePermission, InvalidateRole, Drop, cacheVars,
        Present
    <3>3. ASSUME NEW p \in Procs, UpkeepStep(p) PROVE Present' \subseteq Present
      BY <3>3
      DEF UpkeepStep, InvalidateAccount, BeginWrite, InvalidateAll, Drop, EndRequest,
        cacheVars, Present
    <3>4. ASSUME NEW k \in Keys, Expire(k) PROVE UNCHANGED cache
      BY <3>4 DEF Expire
    <3>5. UNCHANGED cache => Present' \subseteq Present
      BY DEF Present
    <3> QED BY <3>1, <3>2, <3>3, <3>4, <3>5 DEF Next
  <2>2. IsFiniteSet(Present') /\ Cardinality(Present') <= Cardinality(Present)
    BY <2>1, FS_Subset
  <2>3. /\ MaxPerShard \in Nat /\ Cardinality(Present) \in Nat
        /\ Cardinality(Present') \in Nat
    BY <2>2, GrantAssumption, FS_CardinalityType
  <2> QED BY <2>2, <2>3 DEF Bounded
<1> QED BY <1>1, <1>2

\* A shard never holds more entries than its share of the configured capacity.
THEOREM BoundedCorrect == Spec => []Bounded
<1>1. Init => IsFiniteSet(Present) /\ Bounded
  <2> SUFFICES ASSUME Init PROVE IsFiniteSet(Present) /\ Bounded
    OBVIOUS
  <2>1. Present = {}
    BY DEF Init, NoLists, Present
  <2> QED BY <2>1, GrantAssumption, FS_EmptySet DEF Bounded
<1>2. GateInv /\ IsFiniteSet(Present) /\ Bounded /\ [Next]_vars
        => (IsFiniteSet(Present) /\ Bounded)'
  <2>1. CASE Next
    BY <2>1, StepBounded DEF GateInv
  <2>2. CASE UNCHANGED vars
    BY <2>2 DEF vars, cacheVars, Present, Bounded
  <2> QED BY <2>1, <2>2
<1> QED BY <1>1, <1>2, GrantInductive, PTL DEF Spec

=============================================================================
