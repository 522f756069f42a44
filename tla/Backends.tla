------------------------------ MODULE Backends ------------------------------
(***************************************************************************)
(* The storage back ends, through the operations SaTokenDao uses: the       *)
(* in-memory map, which keeps expired entries until somebody meets them,    *)
(* and the database table, which does the same for reads and writes and     *)
(* refuses the rest, beside Redis, where every operation is one command and *)
(* expired keys are gone.  Each call is made to both.                       *)
(***************************************************************************)
EXTENDS Requests, Sequences, SequencesExt

CONSTANTS
  Stores,       \* "memory", "database": which stands beside Redis
  ScalarKeys, ListKeys,
  TimedLists,   \* list keys that are always pushed with a TTL
  Contents,     \* values and list members
  EntryTtl,          \* the TTL of an entry that has one, in seconds
  LastSecond    \* bound: the clock

ASSUME BackendsAssumption ==
  /\ Stores \subseteq {"memory", "database"} /\ TimedLists \subseteq ListKeys
  /\ ScalarKeys \cap ListKeys = {} /\ EntryTtl \in Nat /\ LastSecond \in Nat
  /\ Nil \notin Contents \cup [value : Contents, until : Nat \cup {Nil}]

VARIABLES
  store,          \* the back end chosen
  scalars, lists, \* its entries, the expired ones included
  redis, redisLists,
  second,         \* the time
  purging,        \* the key a get that met an expired entry is about to delete
  replied,       \* the last call: its key, and both answers
  \* ---- history
  apart           \* keys a late purge or a deleted list has set apart

beStore == <<scalars, lists>>
beRedis == <<redis, redisLists>>
beState == <<store, beStore, beRedis, second, purging, replied, apart>>
beVars == <<control, beState>>

Deadlines == Nat \cup {Nil}
Entry(v, timed) == [value |-> v, until |-> IF timed THEN second + EntryTtl ELSE Nil]
NoList == [value |-> <<>>, until |-> Nil]

BeTypeOK ==
  /\ pc \in [Tasks -> {"idle", "purge"}] /\ calls \in Nat /\ store \in Stores
  /\ second \in Nat
  /\ \A s \in {scalars, redis} :
       s \in [ScalarKeys -> [value : Contents, until : Deadlines] \cup {Nil}]
  /\ \A l \in {lists, redisLists} :
       l \in [ListKeys -> [value : Seq(Contents), until : Deadlines]]
  /\ purging \in [Tasks -> ScalarKeys \cup {Nil}]
  /\ apart \subseteq ScalarKeys \cup ListKeys

BeInit ==
  /\ store \in Stores /\ second = 0 /\ apart = {}
  /\ scalars = [k \in ScalarKeys |-> Nil] /\ redis = scalars
  /\ lists = [k \in ListKeys |-> NoList] /\ redisLists = lists
  /\ purging = [t \in Tasks |-> Nil]
  /\ replied = [key |-> Nil, ours |-> Nil, redis |-> Nil]

Past(e) == e.until # Nil /\ second > e.until
Expired(e) == e # Nil /\ Past(e)
Current(e) == IF e = Nil \/ Expired(e) THEN Nil ELSE e.value
Members(l) == IF Past(l) THEN <<>> ELSE l.value

Answers(k, a, b) == replied' = [key |-> k, ours |-> a, redis |-> b]
Free(t) == pc[t] = "idle"

-----------------------------------------------------------------------------
(***************************************************************************)
(* Scalar keys                                                             *)
(***************************************************************************)
\* get meets an expired entry under the read lock (in its SELECT), and deletes
\* the key later.
Get(t, k) ==
  /\ Answers(k, Current(scalars[k]), Current(redis[k]))
  /\ IF Expired(scalars[k])
     THEN Begin(t, "purge") /\ purging' = [purging EXCEPT ![t] = k]
     ELSE Free(t) /\ Call /\ UNCHANGED <<pc, purging>>
  /\ UNCHANGED <<store, beStore, beRedis, second, apart>>

Purge(t) ==
  /\ pc[t] = "purge"
  /\ LET k == purging[t]
     IN /\ scalars' = [scalars EXCEPT ![k] = Nil]
        /\ apart' = IF Current(scalars[k]) = Nil THEN apart ELSE apart \cup {k}
  /\ purging' = [purging EXCEPT ![t] = Nil]
  /\ Finish(t)
  /\ UNCHANGED <<store, lists, beRedis, second, replied>>

\* What a writing call does to both sides, and what they answer.
Write(t, k, e, r, a, b) ==
  /\ Free(t) /\ Call
  /\ scalars' = [scalars EXCEPT ![k] = e] /\ redis' = [redis EXCEPT ![k] = r]
  /\ Answers(k, a, b)
  /\ UNCHANGED <<pc, store, lists, redisLists, second, purging>>

Set(t, k, v, timed) ==
  /\ Write(t, k, Entry(v, timed), Entry(v, timed), TRUE, TRUE)
  /\ apart' = apart \ {k}

Delete(t, k) == Write(t, k, Nil, Nil, TRUE, TRUE) /\ apart' = apart \ {k}

\* From here on the database answers Unsupported.
Atomic == store = "memory" /\ UNCHANGED apart

\* Mutant: an expired entry still counts as present.
SetIfAbsentStale(t, k, v, timed) ==
  /\ Atomic
  /\ LET a == scalars[k] = Nil
         b == redis[k] = Nil
     IN Write(t, k, IF a THEN Entry(v, timed) ELSE scalars[k],
              IF b THEN Entry(v, timed) ELSE redis[k], a, b)

SetIfAbsent(t, k, v, timed) ==
  /\ Atomic
  /\ LET a == Current(scalars[k]) = Nil
         b == redis[k] = Nil
     IN Write(t, k, IF a THEN Entry(v, timed) ELSE scalars[k],
              IF b THEN Entry(v, timed) ELSE redis[k], a, b)

GetDel(t, k) ==
  Atomic /\ Write(t, k, Nil, Nil, Current(scalars[k]), Current(redis[k]))

\* Redis compares with the empty string for an absent key, which no value is.
CompareAndSwap(t, k, expected, v, timed) ==
  /\ Atomic
  /\ LET a == Current(scalars[k]) = expected
         b == Current(redis[k]) = expected
     IN Write(t, k, IF a THEN Entry(v, timed) ELSE scalars[k],
              IF b THEN Entry(v, timed) ELSE redis[k], a, b)

CompareAndDelete(t, k, expected) ==
  /\ Atomic
  /\ LET a == Current(scalars[k]) = expected
         b == Current(redis[k]) = expected
     IN Write(t, k, IF a THEN Nil ELSE scalars[k], IF b THEN Nil ELSE redis[k], a, b)

\* ttl answers Duration::ZERO for an expired entry that is still there, and None
\* once it is gone: both mean that no time is left.
Left(e) == IF e = Nil THEN 0 ELSE IF e.until = Nil THEN Nil
           ELSE IF second > e.until THEN 0 ELSE e.until - second

RemainingTtl(t, k) ==
  /\ Free(t) /\ Call
  /\ Answers(k, Left(scalars[k]), Left(redis[k]))
  /\ UNCHANGED <<pc, store, beStore, beRedis, second, purging, apart>>

-----------------------------------------------------------------------------
(***************************************************************************)
(* List keys                                                               *)
(***************************************************************************)
ListWrite(t, k, l, r, a, b) ==
  /\ Free(t) /\ Call
  /\ lists' = [lists EXCEPT ![k] = l] /\ redisLists' = [redisLists EXCEPT ![k] = r]
  /\ Answers(k, a, b)
  /\ UNCHANGED <<pc, store, scalars, redis, second, purging>>

Touched(l, s, k) ==
  [value |-> s, until |-> IF k \in TimedLists THEN second + EntryTtl ELSE l.until]

\* The expiry of a list that has expired is forgotten first.
ListPush(t, k, m) ==
  /\ Atomic
  /\ LET old == IF Past(lists[k]) THEN NoList ELSE lists[k]
         a == IF Contains(old.value, m) THEN old.value ELSE Append(old.value, m)
         b == IF Contains(redisLists[k].value, m) THEN redisLists[k].value
              ELSE Append(redisLists[k].value, m)
     IN ListWrite(t, k, Touched(old, a, k), Touched(redisLists[k], b, k),
                  Len(a), Len(b))

\* Redis forgets a list with its last member; memory keeps it, empty.
Less(s, m) == IF Contains(s, m) THEN Remove(s, m) ELSE s

ListRemove(t, k, m) ==
  /\ Atomic
  /\ LET a == Less(Members(lists[k]), m)
         b == Less(redisLists[k].value, m)
     IN ListWrite(t, k, [lists[k] EXCEPT !.value = a],
                  IF b = <<>> THEN NoList ELSE [redisLists[k] EXCEPT !.value = b],
                  a # Members(lists[k]), b # redisLists[k].value)

ListRange(t, k) ==
  /\ Atomic
  /\ ListWrite(t, k, lists[k], redisLists[k], Members(lists[k]), redisLists[k].value)

\* delete of a list's key: Redis keeps the list, under a key of its own.
DeleteList(t, k) ==
  /\ store = "memory"
  /\ ListWrite(t, k, NoList, redisLists[k], TRUE, TRUE)
  /\ apart' = IF redisLists[k].value = <<>> THEN apart ELSE apart \cup {k}

-----------------------------------------------------------------------------
\* A second passes: what has expired is gone from Redis.
PassSecond ==
  /\ second < LastSecond /\ second' = second + 1
  /\ LET Gone(e) == e.until # Nil /\ second + 1 > e.until
     IN /\ redis' = [k \in ScalarKeys |->
                       IF redis[k] # Nil /\ Gone(redis[k]) THEN Nil ELSE redis[k]]
        /\ redisLists' = [k \in ListKeys |->
                            IF Gone(redisLists[k]) THEN NoList ELSE redisLists[k]]
  /\ UNCHANGED <<control, store, beStore, purging, replied, apart>>

CleanupEntries ==
  /\ store = "memory"
  /\ scalars' = [k \in ScalarKeys |-> IF Expired(scalars[k]) THEN Nil ELSE scalars[k]]
  /\ lists' = [k \in ListKeys |-> IF Past(lists[k]) THEN NoList ELSE lists[k]]
  /\ UNCHANGED <<control, store, beRedis, second, purging, replied, apart>>

ScalarCall(t, k) ==
  \/ Get(t, k) \/ Delete(t, k) \/ GetDel(t, k) \/ RemainingTtl(t, k)
  \/ \E v \in Contents, timed \in BOOLEAN :
       \/ Set(t, k, v, timed) \/ SetIfAbsent(t, k, v, timed)
       \/ \E e \in Contents \cup {Nil} : CompareAndSwap(t, k, e, v, timed)
  \/ \E v \in Contents : CompareAndDelete(t, k, v)

ListCall(t, k) ==
  \/ ListRange(t, k) \/ DeleteList(t, k)
  \/ \E m \in Contents : ListPush(t, k, m) \/ ListRemove(t, k, m)

BeNext ==
  \/ \E t \in Tasks :
       \/ Purge(t)
       \/ \E k \in ScalarKeys : ScalarCall(t, k)
       \/ \E k \in ListKeys : ListCall(t, k)
  \/ PassSecond \/ CleanupEntries

BeSpec == ControlInit /\ BeInit /\ [][BeNext]_beVars

-----------------------------------------------------------------------------
\* The back ends are interchangeable: whatever the calls and however much time
\* passes between them, each answers as Redis does.  Two things set a key apart:
\* a get that found the previous, expired value and deleted the key only after a
\* new value was written, and a list deleted by its key.
BackendsAgree == replied.key \notin apart => replied.ours = replied.redis

=============================================================================
