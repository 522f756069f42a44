----------------------------- MODULE GrantCache -----------------------------
(***************************************************************************)
(* AuthzService over GrantCache and GrantRepo: grant lists in the storage,  *)
(* one shard of the process-wide cache with its single-flight gates, and a  *)
(* snapshot per request.  A task is a request; it makes one call at a time. *)
(* A storage call, and a section under a shard's lock, is one action.       *)
(*                                                                          *)
(* The data source is the storage (no custom StpInterface), and a failing   *)
(* write has no effect.  A list is the set of its grants.                   *)
(***************************************************************************)
EXTENDS Naturals, FiniteSets

CONSTANTS
  Procs,
  Accounts,     \* accounts whose keys fall into the shard
  Grants,
  Gates,        \* identities of the Arc<Mutex<()>> in the flight table
  NoTask, NoGate, NoKey, NoGrant,
  MaxPerShard,
  Modes,        \* values of grant_cache_single_flight
  MayFail,      \* whether calls fail or are dropped
  MaxCalls      \* bound: calls in all

Kinds == {"permission", "role"}
Keys == Kinds \X Accounts
Lists == SUBSET Grants
NoList == {NoGrant}
Both(a) == {<<k, a>> : k \in Kinds}

ASSUME GrantAssumption ==
  /\ NoTask \notin Procs /\ NoGate \notin Gates
  /\ NoKey \notin Keys /\ NoGrant \notin Grants
  /\ MaxPerShard \in Nat \ {0} /\ MaxCalls \in Nat
  /\ Modes \subseteq BOOLEAN /\ MayFail \in BOOLEAN

ReadLabels == {"peek", "gate", "recheck", "fetch", "put", "release"}
WriteLabels == {"readList", "writeList", "invalidatePermission", "invalidateRole"}
Labels == {"idle"} \cup ReadLabels \cup WriteLabels

VARIABLES
  singleFlight,
  store,      \* the list of each key, in the storage (absent = empty)
  cache,      \* the entries of the shard, NoList where there is none
  dead,       \* keys whose entry is past its expires_at
  table,      \* the flight table: the gate of each key
  holder,     \* of each gate, the task that has locked it
  pc, key, gate,
  val,        \* the list a task has read, or is about to write
  edit,       \* the grants add / remove changes: [add |-> .., del |-> ..]
  scope,      \* request snapshot of each task
  \* ---- history
  stale,      \* tasks whose fetched list was overwritten before its put
  suspect,    \* keys with an entry put by such a task, or kept past an abandoned write
  excused,    \* tasks whose read met a suspect or about-to-be-removed entry
  seen,       \* lists the key has had since the task's read began
  own,        \* what the request last wrote, unless somebody wrote after it
  disturbed,  \* keys invalidated, expired, evicted or failed so far
  calls

cacheVars == <<cache, dead, suspect>>
gateVars == <<table, holder>>
vars == <<singleFlight, store, cacheVars, gateVars, pc, key, gate, val, edit, scope,
          stale, excused, seen, own, disturbed, calls>>

NoEdit == [add |-> {}, del |-> {}]

TypeOK ==
  /\ singleFlight \in Modes
  /\ store \in [Keys -> Lists]
  /\ cache \in [Keys -> Lists \cup {NoList}]
  /\ dead \subseteq Keys /\ suspect \subseteq Keys /\ disturbed \subseteq Keys
  /\ table \in [Keys -> Gates \cup {NoGate}]
  /\ holder \in [Gates -> Procs \cup {NoTask}]
  /\ pc \in [Procs -> Labels]
  /\ key \in [Procs -> Keys \cup {NoKey}]
  /\ gate \in [Procs -> Gates \cup {NoGate}]
  /\ val \in [Procs -> Lists \cup {NoList}]
  /\ edit \in [Procs -> [add : Lists, del : Lists]]
  /\ scope \in [Procs -> [Keys -> Lists \cup {NoList}]]
  /\ stale \subseteq Procs /\ excused \subseteq Procs
  /\ seen \in [Procs -> SUBSET Lists]
  /\ own \in [Procs -> [Keys -> Lists \cup {NoList}]]
  /\ calls \in Nat

NoLists == [k \in Keys |-> NoList]

Init ==
  /\ singleFlight \in Modes
  /\ store = [k \in Keys |-> {}] /\ cache = NoLists
  /\ dead = {} /\ suspect = {} /\ disturbed = {}
  /\ table = [k \in Keys |-> NoGate] /\ holder = [g \in Gates |-> NoTask]
  /\ pc = [p \in Procs |-> "idle"] /\ key = [p \in Procs |-> NoKey]
  /\ gate = [p \in Procs |-> NoGate] /\ val = [p \in Procs |-> NoList]
  /\ edit = [p \in Procs |-> NoEdit]
  /\ scope = [p \in Procs |-> NoLists] /\ own = [p \in Procs |-> NoLists]
  /\ stale = {} /\ excused = {} /\ seen = [p \in Procs |-> {}] /\ calls = 0

-----------------------------------------------------------------------------
Goto(p, l) == pc' = [pc EXCEPT ![p] = l]

\* The call is over; the caller of a read puts what it got into the snapshot.
Finish(p) ==
  /\ Goto(p, "idle")
  /\ key' = [key EXCEPT ![p] = NoKey] /\ gate' = [gate EXCEPT ![p] = NoGate]
  /\ val' = [val EXCEPT ![p] = NoList] /\ edit' = [edit EXCEPT ![p] = NoEdit]
  /\ stale' = stale \ {p} /\ excused' = excused \ {p}
  /\ seen' = [seen EXCEPT ![p] = {}]

ReturnRead(p, v) ==
  /\ Finish(p)
  /\ scope' = IF v = NoList THEN scope ELSE [scope EXCEPT ![p][key[p]] = v]
  /\ own' = IF p \in excused THEN [own EXCEPT ![p][key[p]] = NoList] ELSE own

\* Writers that have changed k's list and not yet removed k's entry.
Removing(k) ==
  \E q \in Procs : /\ key[q] = k
                   /\ \/ pc[q] = "invalidatePermission"
                      \/ pc[q] = "invalidateRole" /\ k[1] = "role"

Hit(k) == cache[k] # NoList /\ k \notin dead

\* A hit gives the task the entry's list, and the entry's excuse with it.
TakeHit(p) ==
  /\ val' = [val EXCEPT ![p] = cache[key[p]]]
  /\ excused' = IF key[p] \in suspect \/ Removing(key[p])
                THEN excused \cup {p} ELSE excused

Drop(K) ==
  /\ cache' = [k \in Keys |-> IF k \in K THEN NoList ELSE cache[k]]
  /\ dead' = dead \ K /\ suspect' = suspect \ K
  /\ disturbed' = disturbed \cup K

\* The permit goes with the future that holds it.
Unlock(p) ==
  holder' = [g \in Gates |-> IF holder[g] = p THEN NoTask ELSE holder[g]]

-----------------------------------------------------------------------------
(***************************************************************************)
(* Reading: AuthzService::load and GrantCache::get_or_load                 *)
(***************************************************************************)

\* Only a list the request's snapshot does not have goes on to the cache.
Read(p, k) ==
  /\ pc[p] = "idle" /\ calls < MaxCalls /\ scope[p][k] = NoList
  /\ calls' = calls + 1
  /\ Goto(p, "peek")
  /\ key' = [key EXCEPT ![p] = k]
  /\ seen' = [seen EXCEPT ![p] = {store[k]}]
  /\ UNCHANGED <<singleFlight, store, cacheVars, gateVars, gate, val, edit, scope,
                 stale, excused, own, disturbed>>

PeekHit(p) ==
  /\ pc[p] = "peek" /\ Hit(key[p])
  /\ TakeHit(p)
  /\ Goto(p, "release")
  /\ UNCHANGED <<singleFlight, store, cacheVars, gateVars, key, gate, edit, scope,
                 stale, seen, own, disturbed, calls>>

PeekMiss(p) ==
  /\ pc[p] = "peek" /\ ~Hit(key[p])
  /\ Goto(p, IF singleFlight THEN "gate" ELSE "fetch")
  /\ UNCHANGED <<singleFlight, store, cacheVars, gateVars, key, gate, val, edit,
                 scope, stale, excused, seen, own, disturbed, calls>>

Unused == {g \in Gates : /\ \A k \in Keys : table[k] # g
                         /\ \A q \in Procs : gate[q] # g}

\* The gate in the table, or a new one.
TakeGate(p) ==
  /\ pc[p] = "gate"
  /\ \E g \in IF table[key[p]] = NoGate THEN Unused ELSE {table[key[p]]} :
       /\ table' = [table EXCEPT ![key[p]] = g]
       /\ gate' = [gate EXCEPT ![p] = g]
  /\ Goto(p, "recheck")
  /\ UNCHANGED <<singleFlight, store, cacheVars, holder, key, val, edit, scope, stale,
                 excused, seen, own, disturbed, calls>>

\* Mutant: the gate is locked whether or not another task holds it.
RecheckUnlocked(p) ==
  /\ pc[p] = "recheck"
  /\ holder' = [holder EXCEPT ![gate[p]] = p]
  /\ IF Hit(key[p])
     THEN TakeHit(p) /\ Goto(p, "release")
     ELSE Goto(p, "fetch") /\ UNCHANGED <<val, excused>>
  /\ UNCHANGED <<singleFlight, store, cacheVars, table, key, gate, edit, scope,
                 stale, seen, own, disturbed, calls>>

\* The task locks the gate and looks again.  (tokio's Mutex is FIFO; no property
\* here depends on whose turn it is.)
Recheck(p) ==
  /\ pc[p] = "recheck" /\ holder[gate[p]] = NoTask
  /\ holder' = [holder EXCEPT ![gate[p]] = p]
  /\ IF Hit(key[p])
     THEN TakeHit(p) /\ Goto(p, "release")
     ELSE Goto(p, "fetch") /\ UNCHANGED <<val, excused>>
  /\ UNCHANGED <<singleFlight, store, cacheVars, table, key, gate, edit, scope,
                 stale, seen, own, disturbed, calls>>

Fetch(p) ==
  /\ pc[p] = "fetch"
  /\ val' = [val EXCEPT ![p] = store[key[p]]]
  /\ Goto(p, "put")
  /\ UNCHANGED <<singleFlight, store, cacheVars, gateVars, key, gate, edit, scope,
                 stale, excused, seen, own, disturbed, calls>>

FetchFails(p) ==
  /\ MayFail /\ pc[p] = "fetch"
  /\ disturbed' = disturbed \cup {key[p]}
  /\ Goto(p, "release")
  /\ UNCHANGED <<singleFlight, store, cacheVars, gateVars, key, gate, val, edit,
                 scope, stale, excused, seen, own, calls>>

Present == {k \in Keys : cache[k] # NoList}

\* Mutant: an expired entry is all that is ever removed.
EvictDeadOnly(k) ==
  IF Cardinality(Present) < MaxPerShard \/ k \in Present THEN {{}} ELSE {dead}

\* What put removes to keep the shard bounded: the expired entries, and one more
\* (the first to expire; which one that is, is left open) when that is not enough.
Evictions(k) ==
  IF Cardinality(Present) < MaxPerShard \/ k \in Present THEN {{}}
  ELSE IF Cardinality(Present \ dead) < MaxPerShard THEN {dead}
  ELSE {dead \cup {v} : v \in Present \ dead}

Put(p) ==
  /\ pc[p] = "put"
  /\ \E V \in Evictions(key[p]) :
       /\ cache' = [k \in Keys |-> IF k = key[p] THEN val[p]
                             ELSE IF k \in V THEN NoList ELSE cache[k]]
       /\ dead' = dead \ (V \cup {key[p]})
       /\ suspect' = IF p \in stale THEN (suspect \ V) \cup {key[p]}
                                    ELSE suspect \ (V \cup {key[p]})
       /\ disturbed' = disturbed \cup V
  /\ Goto(p, "release")
  /\ UNCHANGED <<singleFlight, store, gateVars, key, gate, val, edit, scope, stale,
                 excused, seen, own, calls>>

\* release_flight, where a gate was taken, and the return of the read.
Release(p) ==
  /\ pc[p] = "release"
  /\ IF gate[p] = NoGate
     THEN UNCHANGED gateVars
     ELSE table' = [table EXCEPT ![key[p]] = NoGate] /\ Unlock(p)
  /\ ReturnRead(p, val[p])
  /\ UNCHANGED <<singleFlight, store, cacheVars, disturbed, calls>>

-----------------------------------------------------------------------------
(***************************************************************************)
(* Writing: set / clear, add and remove, each followed by after_write       *)
(***************************************************************************)
BeginWrite(p, k, l) ==
  /\ pc[p] = "idle" /\ calls < MaxCalls
  /\ calls' = calls + 1
  /\ key' = [key EXCEPT ![p] = k]
  /\ Goto(p, l)
  /\ UNCHANGED <<singleFlight, store, cacheVars, gateVars, gate, scope, stale,
                 excused, seen, own, disturbed>>

\* set_permissions / set_roles; clear_* is set to the empty list.
SetGrants(p, k, v) ==
  /\ val' = [val EXCEPT ![p] = v]
  /\ BeginWrite(p, k, "writeList")
  /\ UNCHANGED edit

AddGrant(p, k, g) ==
  /\ edit' = [edit EXCEPT ![p] = [add |-> {g}, del |-> {}]]
  /\ BeginWrite(p, k, "readList")
  /\ UNCHANGED val

RemoveGrant(p, k, g) ==
  /\ edit' = [edit EXCEPT ![p] = [add |-> {}, del |-> {g}]]
  /\ BeginWrite(p, k, "readList")
  /\ UNCHANGED val

\* add and remove read the list, and write it back only when it changes.
ReadList(p) ==
  /\ pc[p] = "readList"
  /\ LET v == (store[key[p]] \cup edit[p].add) \ edit[p].del
     IN /\ val' = [val EXCEPT ![p] = v]
        /\ Goto(p, IF v = store[key[p]] THEN "invalidatePermission" ELSE "writeList")
  /\ UNCHANGED <<singleFlight, store, cacheVars, gateVars, key, gate, edit, scope,
                 stale, excused, seen, own, disturbed, calls>>

\* The whole list is written; what loads of the key have fetched is now old.
WriteList(p) ==
  /\ pc[p] = "writeList"
  /\ store' = [store EXCEPT ![key[p]] = val[p]]
  /\ LET loads == {q \in Procs : pc[q] = "put" /\ key[q] = key[p]}
     IN stale' = stale \cup loads
  /\ seen' = [q \in Procs |-> IF pc[q] \in ReadLabels /\ key[q] = key[p]
                              THEN seen[q] \cup {val[p]} ELSE seen[q]]
  /\ own' = [q \in Procs |-> [own[q] EXCEPT ![key[p]] =
                                IF q = p THEN val[p] ELSE NoList]]
  /\ Goto(p, "invalidatePermission")
  /\ UNCHANGED <<singleFlight, cacheVars, gateVars, key, gate, val, edit, scope,
                 excused, disturbed, calls>>

\* An error of the storage call: the cache is left as it was.
WriteFails(p) ==
  /\ MayFail /\ pc[p] \in {"readList", "writeList"}
  /\ Finish(p)
  /\ UNCHANGED <<singleFlight, store, cacheVars, gateVars, scope, own, disturbed,
                 calls>>

\* The request is dropped when the storage has the new list, but not yet its answer.
AbandonWrite(p) ==
  /\ MayFail /\ pc[p] = "invalidatePermission" /\ val[p] # NoList
  /\ suspect' = suspect \cup {key[p]}
  /\ scope' = [scope EXCEPT ![p] = NoLists] /\ own' = [own EXCEPT ![p] = NoLists]
  /\ Finish(p)
  /\ UNCHANGED <<singleFlight, store, cache, dead, gateVars, disturbed, calls>>

InvalidatePermission(p) ==
  /\ pc[p] = "invalidatePermission"
  /\ Drop({<<"permission", key[p][2]>>})
  /\ Goto(p, "invalidateRole")
  /\ UNCHANGED <<singleFlight, store, gateVars, key, gate, val, edit, scope, stale,
                 excused, seen, own, calls>>

\* Mutant: after_write drops the permission entries only.
InvalidateRoleSkipped(p) ==
  /\ pc[p] = "invalidateRole"
  /\ scope' = [scope EXCEPT ![p] =
                 [k \in Keys |-> IF k \in Both(key[p][2]) THEN NoList ELSE @[k]]]
  /\ Finish(p)
  /\ UNCHANGED <<singleFlight, store, cacheVars, gateVars, own, disturbed, calls>>

\* Mutant: after_write keeps the request's snapshot.
InvalidateRoleKeepsScope(p) ==
  /\ pc[p] = "invalidateRole"
  /\ Drop({<<"role", key[p][2]>>})
  /\ Finish(p)
  /\ UNCHANGED <<singleFlight, store, gateVars, scope, own, calls>>

\* Both entries of the account are gone, here and in the request's snapshot.
InvalidateRole(p) ==
  /\ pc[p] = "invalidateRole"
  /\ Drop({<<"role", key[p][2]>>})
  /\ scope' = [scope EXCEPT ![p] =
                 [k \in Keys |-> IF k \in Both(key[p][2]) THEN NoList ELSE @[k]]]
  /\ Finish(p)
  /\ UNCHANGED <<singleFlight, store, gateVars, own, calls>>

-----------------------------------------------------------------------------
(***************************************************************************)
(* Maintenance, time, failures                                             *)
(***************************************************************************)

\* invalidate_account: what after_write does, without a write.
InvalidateAccount(p, k) ==
  /\ BeginWrite(p, k, "invalidatePermission")
  /\ UNCHANGED <<val, edit>>

\* invalidate_all: the shard and the calling request's snapshot.
InvalidateAll(p) ==
  /\ pc[p] = "idle" /\ calls < MaxCalls
  /\ calls' = calls + 1
  /\ Drop(Keys)
  /\ scope' = [scope EXCEPT ![p] = NoLists]
  /\ UNCHANGED <<singleFlight, store, gateVars, pc, key, gate, val, edit, stale,
                 excused, seen, own>>

\* The entry of k passes its expires_at.
Expire(k) ==
  /\ Hit(k)
  /\ dead' = dead \cup {k}
  /\ disturbed' = disturbed \cup {k}
  /\ UNCHANGED <<singleFlight, store, cache, suspect, gateVars, pc, key, gate, val,
                 edit, scope, stale, excused, seen, own, calls>>

\* The request ends: its snapshot goes with it.
EndRequest(p) ==
  /\ pc[p] = "idle" /\ scope[p] # NoLists
  /\ scope' = [scope EXCEPT ![p] = NoLists]
  /\ own' = [own EXCEPT ![p] = NoLists]
  /\ UNCHANGED <<singleFlight, store, cacheVars, gateVars, pc, key, gate, val, edit,
                 stale, excused, seen, disturbed, calls>>

\* The request is dropped at an await: a lock it holds or waits for is given up,
\* its entry in the flight table stays.
Cancel(p) ==
  /\ MayFail /\ pc[p] \in {"recheck", "fetch", "release"} /\ gate[p] # NoGate
  /\ Unlock(p)
  /\ disturbed' = disturbed \cup {key[p]}
  /\ scope' = [scope EXCEPT ![p] = NoLists] /\ own' = [own EXCEPT ![p] = NoLists]
  /\ Finish(p)
  /\ UNCHANGED <<singleFlight, store, cacheVars, table, calls>>

ReadStep(p) ==
  \/ \E k \in Keys : Read(p, k)
  \/ PeekHit(p) \/ PeekMiss(p) \/ TakeGate(p) \/ Recheck(p) \/ Fetch(p)
  \/ FetchFails(p) \/ Put(p) \/ Release(p) \/ Cancel(p)

WriteStep(p) ==
  \/ \E k \in Keys, v \in Lists : SetGrants(p, k, v)
  \/ \E k \in Keys, g \in Grants : AddGrant(p, k, g)
  \/ \E k \in Keys, g \in Grants : RemoveGrant(p, k, g)
  \/ ReadList(p) \/ WriteList(p) \/ WriteFails(p) \/ AbandonWrite(p)
  \/ InvalidatePermission(p) \/ InvalidateRole(p)

UpkeepStep(p) ==
  \/ \E k \in Keys : InvalidateAccount(p, k)
  \/ InvalidateAll(p) \/ EndRequest(p)

Next ==
  \/ \E p \in Procs : ReadStep(p) \/ WriteStep(p) \/ UpkeepStep(p)
  \/ \E k \in Keys : Expire(k)

Spec == Init /\ [][Next]_vars

-----------------------------------------------------------------------------
(***************************************************************************)
(* Properties                                                              *)
(***************************************************************************)

\* A cached list, expired or not, is the stored one, unless its writer is about to
\* remove the entry, its writer was dropped before it did, or a load that a write
\* overtook has put it there.
CacheCurrent ==
  \A k \in Present \ suspect : Removing(k) \/ cache[k] = store[k]

\* What a read returns is a list the key has had since the read began, unless it
\* met an entry that CacheCurrent excuses.
ReadRecent ==
  \A p \in Procs \ excused :
    pc[p] \in {"put", "release"} /\ val[p] # NoList => val[p] \in seen[p]

\* A request that wrote a list and reads it back, nobody else having written it,
\* gets what it wrote: after_write clears both caches.
ReadYourWrites ==
  \A p \in Procs, k \in Keys :
    pc[p] = "idle" /\ own[p][k] # NoList /\ scope[p][k] # NoList
      => scope[p][k] = own[p][k]

\* The shard never holds more than max_per_shard entries.
Bounded == Cardinality(Present) <= MaxPerShard

\* With single-flight on, concurrent misses of a key make one load, as long as the
\* key was not invalidated, expired or evicted and no load of it failed.
OneLoad ==
  singleFlight => \A p, q \in Procs :
    (/\ pc[p] \in {"fetch", "put"} /\ pc[q] \in {"fetch", "put"}
     /\ key[p] = key[q] /\ key[p] \notin disturbed) => p = q

-----------------------------------------------------------------------------
(***************************************************************************)
(* The inductive invariant behind OneLoad: until the list of an undisturbed *)
(* key is cached, its tasks are all at the gate the table names, and the    *)
(* one that loads has locked it.                                            *)
(***************************************************************************)
Loading == {"fetch", "put"}

Located ==
  \A p \in Procs :
    /\ pc[p] # "idle" => key[p] \in Keys
    /\ gate[p] # NoGate => pc[p] \in Loading \cup {"recheck", "release"}
    /\ pc[p] = "recheck" => gate[p] # NoGate
    /\ pc[p] \in {"writeList", "put"} => val[p] \in Lists
    /\ pc[p] \in {"idle", "peek", "gate", "recheck", "fetch"} => val[p] = NoList

LoaderHolds ==
  \A p \in Procs :
    /\ singleFlight /\ pc[p] \in Loading => gate[p] # NoGate
    /\ gate[p] # NoGate /\ pc[p] # "recheck" => holder[gate[p]] = p

OneGateOf(k) ==
  \A p \in Procs : key[p] = k =>
    IF Hit(k) THEN pc[p] \notin Loading
    ELSE pc[p] # "release" /\ (gate[p] # NoGate => gate[p] = table[k])

\* A locked gate belongs to a task that is inside get_or_load on it.
LockLocated ==
  \A g \in Gates : holder[g] # NoTask =>
    gate[holder[g]] = g /\ pc[holder[g]] \in {"fetch", "put", "release"}

OneGate == singleFlight => \A k \in Keys \ disturbed : OneGateOf(k)

GateInv ==
  TypeOK /\ Located /\ LoaderHolds /\ OneGate /\ LockLocated

(***************************************************************************)
(* The inductive invariant behind CacheCurrent, ReadRecent and              *)
(* ReadYourWrites: what a load has fetched is stored, or a write has marked *)
(* it; what a request owns is stored.                                       *)
(***************************************************************************)
Settling == {"invalidatePermission", "invalidateRole"}

FetchedCurrent ==
  \A p \in Procs \ stale : pc[p] = "put" => val[p] = store[key[p]]

SeenCurrent ==
  \A p \in Procs : pc[p] \in ReadLabels =>
    /\ store[key[p]] \in seen[p]
    /\ own[p][key[p]] # NoList => seen[p] = {store[key[p]]}

OwnStored ==
  \A p \in Procs, k \in Keys : own[p][k] # NoList => own[p][k] = store[k]

ScopeOwn ==
  \A p \in Procs, k \in Keys :
    \/ own[p][k] = NoList \/ scope[p][k] = NoList \/ scope[p][k] = own[p][k]
    \/ pc[p] \in Settling /\ k = key[p]

DataInv ==
  /\ CacheCurrent /\ FetchedCurrent /\ SeenCurrent /\ ReadRecent
  /\ OwnStored /\ ScopeOwn

=============================================================================
