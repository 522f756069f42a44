------------------------ MODULE AuthSequentialProofs ------------------------
(***************************************************************************)
(* One call at a time, for any number of tokens and devices: the storage   *)
(* agrees with itself, the login policy is kept, account-wide calls are    *)
(* complete and a login returns a live token.  SequentialInv of            *)
(* AuthServiceInv is inductive; the proof has one step per action.         *)
(***************************************************************************)
EXTENDS AuthServiceProofs, FiniteSetTheorems

-----------------------------------------------------------------------------
(***************************************************************************)
(* The lists of tokens                                                     *)
(***************************************************************************)

\* What prune_index has found alive and what it has still to probe make up the list.
LEMMA MoveHead ==
  ASSUME NEW S, NEW s \in Seq(S), NEW t \in Seq(S), t # <<>>
  PROVE  Append(s, Head(t)) \o Tail(t) = s \o t /\ Head(t) \in Range(s \o t)
<1> DEFINE u == Append(s, Head(t))
<1>1. /\ Head(t) = t[1] /\ Head(t) \in S /\ Len(t) \in Nat \ {0} /\ Len(s) \in Nat
      /\ Tail(t) \in Seq(S) /\ Len(Tail(t)) = Len(t) - 1
      /\ \A i \in 1..(Len(t) - 1) : Tail(t)[i] = t[i+1]
  BY HeadTailProperties
<1>2. /\ u \in Seq(S) /\ Len(u) = Len(s) + 1 /\ u[Len(s) + 1] = Head(t)
      /\ \A i \in 1..Len(s) : u[i] = s[i]
  BY <1>1, AppendProperties
<1>3. /\ s \o t \in Seq(S) /\ Len(s \o t) = Len(s) + Len(t)
      /\ \A i \in 1..(Len(s) + Len(t)) :
           (s \o t)[i] = IF i <= Len(s) THEN s[i] ELSE t[i - Len(s)]
  BY ConcatProperties
<1>4. /\ u \o Tail(t) \in Seq(S) /\ Len(u \o Tail(t)) = Len(s) + Len(t)
      /\ \A i \in 1..(Len(s) + Len(t)) :
           (u \o Tail(t))[i] = IF i <= Len(s) + 1 THEN u[i] ELSE Tail(t)[i - (Len(s) + 1)]
  BY <1>1, <1>2, ConcatProperties
<1> HIDE DEF u
<1>5. ASSUME NEW i \in 1..(Len(s) + Len(t))
      PROVE  (u \o Tail(t))[i] = (s \o t)[i]
  <2>1. CASE i <= Len(s)
    BY <1>1, <1>2, <1>3, <1>4, <2>1
  <2>4. i \in Int /\ Len(s) \in Int
    BY <1>1
  <2>2. CASE i = Len(s) + 1
    BY <1>1, <1>2, <1>3, <1>4, <2>2
  <2>3. CASE i > Len(s) + 1
    <3>1. i - (Len(s) + 1) \in 1..(Len(t) - 1) /\ (i - (Len(s) + 1)) + 1 = i - Len(s)
      BY <1>1, <2>3
    <3>2. Tail(t)[i - (Len(s) + 1)] = t[i - Len(s)]
      BY <1>1, <3>1
    <3>3. (u \o Tail(t))[i] = Tail(t)[i - (Len(s) + 1)]
      BY <1>1, <1>4, <2>3
    <3>4. (s \o t)[i] = t[i - Len(s)]
      BY <1>1, <1>3, <2>3
    <3> QED BY <3>2, <3>3, <3>4
  <2>5. i <= Len(s) \/ i = Len(s) + 1 \/ i > Len(s) + 1
    BY <2>4
  <2> QED BY <2>1, <2>2, <2>3, <2>5, Zenon
<1>6. u \o Tail(t) = s \o t
  BY <1>3, <1>4, <1>5, SeqEqual
<1>7. Head(t) \in Range(s \o t)
  <2>1. Len(s) + 1 \in 1..Len(s \o t) /\ (s \o t)[Len(s) + 1] = t[1]
    BY <1>1, <1>3
  <2> QED BY <1>1, <1>3, <2>1 DEF Range
<1> QED BY <1>6, <1>7 DEF u

\* An empty list changes nothing at either end.
LEMMA EmptyEnds ==
  ASSUME NEW S, NEW s \in Seq(S)
  PROVE  s \o <<>> = s /\ <<>> \o s = s
BY ConcatEmptySeq

\* list_push_unique appends a new member.
LEMMA PushNew ==
  ASSUME NEW S, NEW s \in Seq(S), NEW t \in S, t \notin Range(s)
  PROVE  LET u == PushUnique(s, t) IN u # <<>> /\ Last(u) = t /\ Range(u) = Range(s) \cup {t}
<1>1. PushUnique(s, t) = Append(s, t)
  BY DEF PushUnique, Range
<1>2. /\ Append(s, t) \in Seq(S) /\ Len(Append(s, t)) = Len(s) + 1 /\ Len(s) \in Nat
      /\ Append(s, t)[Len(s) + 1] = t /\ \A i \in 1..Len(s) : Append(s, t)[i] = s[i]
  BY AppendProperties
<1> DEFINE u == Append(s, t)
<1> HIDE DEF u
<1>3. u # <<>> /\ Last(u) = t
  BY <1>2 DEF u, Last
<1>4. Range(u) = Range(s) \cup {t}
  <2>1. /\ u \in Seq(S) /\ Len(u) = Len(s) + 1 /\ Len(s) \in Nat
        /\ u[Len(s) + 1] = t /\ \A i \in 1..Len(s) : u[i] = s[i]
    BY <1>2 DEF u
  <2>2. DOMAIN u = 1..(Len(s) + 1) /\ DOMAIN s = 1..Len(s) /\ Len(s) + 1 \in DOMAIN u
    BY <2>1
  <2>3. \A x \in Range(u) : x \in Range(s) \cup {t}
    BY <2>1, <2>2 DEF Range
  <2>4. \A x \in Range(s) : x \in Range(u)
    BY <2>1, <2>2 DEF Range
  <2>5. t \in Range(u)
    BY <2>1, <2>2 DEF Range
  <2> QED BY <2>3, <2>4, <2>5
<1> QED BY <1>1, <1>3, <1>4 DEF u

\* list_remove takes no other member away.
LEMMA WithoutKeeps ==
  ASSUME NEW S, NEW s \in Seq(S), NEW t
  PROVE  Range(s) \ {t} \subseteq Range(Without(s, t))
<1>1. CASE \E i \in DOMAIN s : s[i] = t
  <2>1. PICK i \in DOMAIN s : s[i] = t /\ Without(s, t) = RemoveAt(s, i)
    BY <1>1, Zenon DEF Without
  <2> DEFINE a == SubSeq(s, 1, i-1)
             b == SubSeq(s, i+1, Len(s))
             w == a \o b
  <2>2. Len(s) \in Nat /\ i \in 1..Len(s) /\ DOMAIN s = 1..Len(s)
    BY <2>1
  <2>3. /\ a \in Seq(S) /\ Len(a) = i - 1 /\ \A k \in 1..(i-1) : a[k] = s[k]
    BY <2>2, SubSeqProperties
  <2>4. /\ b \in Seq(S) /\ Len(b) = Len(s) - i /\ \A k \in 1..(Len(s) - i) : b[k] = s[i + k]
    BY <2>2, SubSeqProperties
  <2>5. Without(s, t) = w
    BY <2>1 DEF RemoveAt
  <2> HIDE DEF a, b
  <2>6. /\ DOMAIN w = 1..(Len(a) + Len(b))
        /\ \A k \in 1..(Len(a) + Len(b)) : w[k] = IF k <= Len(a) THEN a[k] ELSE b[k - Len(a)]
    <3>1. /\ w \in Seq(S) /\ Len(w) = Len(a) + Len(b)
          /\ \A k \in 1..(Len(a) + Len(b)) :
               w[k] = IF k <= Len(a) THEN a[k] ELSE b[k - Len(a)]
      BY <2>3, <2>4, ConcatProperties
    <3> HIDE DEF w
    <3> QED BY <3>1
  <2> HIDE DEF w
  <2>7. ASSUME NEW k \in 1..Len(s), s[k] # t
        PROVE  s[k] \in Range(w)
    <3>1. CASE k < i
      <4>1. k \in DOMAIN w /\ w[k] = s[k]
        BY <2>2, <2>3, <2>4, <2>6, <3>1
      <4> QED BY <4>1 DEF Range
    <3>2. CASE k > i
      <4>1. /\ k - 1 \in DOMAIN w /\ ~(k - 1 <= Len(a)) /\ (k - 1) - Len(a) = k - i
            /\ k - i \in 1..(Len(s) - i) /\ i + (k - i) = k
        <5>1. k \in Int /\ i \in Int /\ Len(s) \in Int /\ 1 <= i /\ i < k /\ k <= Len(s)
          BY <2>2, <3>2
        <5>2. k - 1 \in DOMAIN w
          BY <2>3, <2>4, <2>6, <5>1
        <5>3. ~(k - 1 <= Len(a)) /\ (k - 1) - Len(a) = k - i
          BY <2>3, <5>1
        <5>4. k - i \in 1..(Len(s) - i) /\ i + (k - i) = k
          BY <5>1
        <5> QED BY <5>2, <5>3, <5>4
      <4>2. w[k - 1] = b[k - i] /\ b[k - i] = s[k]
        BY <2>4, <2>6, <4>1
      <4> QED BY <4>1, <4>2 DEF Range
    <3>3. k # i
      BY <2>1, <2>7
    <3> QED BY <2>2, <3>1, <3>2, <3>3
  <2> QED BY <2>2, <2>5, <2>7 DEF Range
<1>2. CASE ~ \E i \in DOMAIN s : s[i] = t
  BY <1>2 DEF Without
<1> QED BY <1>1, <1>2

\* What enforce_max_login_count leaves of a list that names each token once: no more
\* than the limit, and the newest.
LEMMA OldestEvicted ==
  ASSUME NEW S, NEW s \in Seq(S), NEW m \in Int, m > 0
  PROVE  LET gone == {s[i] : i \in 1..(Len(s) - m)} IN
         /\ IsFiniteSet(Range(s) \ gone) /\ Cardinality(Range(s) \ gone) <= m
         /\ NoRepeats(s) /\ s # <<>> => Last(s) \notin gone
<1> DEFINE gone == {s[i] : i \in 1..(Len(s) - m)}
<1>1. Len(s) \in Nat /\ DOMAIN s = 1..Len(s)
  OBVIOUS
<1>2. IsFiniteSet(Range(s) \ gone) /\ Cardinality(Range(s) \ gone) <= m
  <2> DEFINE lo == IF Len(s) >= m THEN Len(s) - m + 1 ELSE 1
             kept == {s[i] : i \in lo..Len(s)}
             f == [i \in lo..Len(s) |-> s[i]]
  <2>1. lo \in Int /\ lo \in 1..(Len(s) + 1) /\ Len(s) - lo + 1 <= m
    BY <1>1
  <2>2. f \in Surjection(lo..Len(s), kept)
    BY DEF Surjection
  <2>3. IsFiniteSet(lo..Len(s)) /\ Cardinality(lo..Len(s)) <= m
    <3> HIDE DEF lo, f, kept, gone
    <3>0. lo \in Int /\ Len(s) \in Int
      BY <1>1, <2>1
    <3>1. /\ IsFiniteSet(lo..Len(s))
          /\ Cardinality(lo..Len(s)) = IF lo > Len(s) THEN 0 ELSE Len(s) - lo + 1
      BY <3>0, FS_Interval
    <3> QED BY <1>1, <2>1, <3>1
  <2>4. IsFiniteSet(kept) /\ Cardinality(kept) <= Cardinality(lo..Len(s))
    BY <2>2, <2>3, FS_Surjection
  <2>5. Range(s) \ gone \subseteq kept
    <3> SUFFICES ASSUME NEW i \in 1..Len(s), s[i] \notin gone
                 PROVE  s[i] \in kept
      BY <1>1 DEF Range
    <3>1. i \notin 1..(Len(s) - m)
      OBVIOUS
    <3>2. i \in lo..Len(s)
      BY <1>1, <3>1
    <3> QED BY <3>2
  <2>6. /\ IsFiniteSet(Range(s) \ gone) /\ Cardinality(Range(s) \ gone) <= Cardinality(kept)
        /\ Cardinality(Range(s) \ gone) \in Nat /\ Cardinality(kept) \in Nat
        /\ Cardinality(lo..Len(s)) \in Nat
    BY <2>3, <2>4, <2>5, FS_Subset, FS_CardinalityType
  <2> QED BY <2>3, <2>4, <2>6
<1>3. ASSUME NoRepeats(s), s # <<>>
      PROVE  Last(s) \notin gone
  <2>1. Len(s) \in 1..Len(s) /\ Last(s) = s[Len(s)]
    BY <1>1, <1>3 DEF Last
  <2>2. ASSUME NEW i \in 1..(Len(s) - m)
        PROVE  i \in 1..Len(s) /\ i # Len(s)
    <3> DEFINE n == Len(s)
    <3>1. n \in Int /\ i \in Int /\ 1 <= i /\ i <= n - m
      BY <1>1
    <3> HIDE DEF gone, n
    <3>2. i \in 1..n /\ i # n
      BY <3>1
    <3> QED BY <3>2 DEF n
  <2> QED BY <1>1, <1>3, <2>1, <2>2 DEF NoRepeats
<1> QED BY <1>2, <1>3

\* The entries of a list are finitely many.
LEMMA ListFinite ==
  ASSUME NEW S, NEW s \in Seq(S)
  PROVE  IsFiniteSet(Range(s))
<1> DEFINE f == [i \in 1..Len(s) |-> s[i]]
<1>1. Len(s) \in Nat /\ DOMAIN s = 1..Len(s)
  OBVIOUS
<1>2. f \in Surjection(1..Len(s), Range(s))
  BY <1>1 DEF Surjection, Range
<1>3. IsFiniteSet(1..Len(s))
  BY <1>1, FS_Interval
<1> QED BY <1>2, <1>3, FS_Surjection
-----------------------------------------------------------------------------
(***************************************************************************)
(* What is common to the steps                                             *)
(***************************************************************************)

\* What the invariant says of the one task there is.
SeqParts(p) ==
  /\ Control(p) /\ Agreed(p) /\ Staged(p) /\ LoggedOut(p) /\ Listed(p)
  /\ Swept(p) /\ Found(p) /\ Replaced(p) /\ Within(p) /\ Shared(p)

\* What a step of p has to establish.
SeqStep(p) == OneTokenPerDevice' /\ SeqParts(p)'

\* The live tokens are in the index, but the one being logged out, so they can be
\* counted, and fewer of them are no more than the limit.
LEMMA LiveFinite ==
  ASSUME TypeInv, OwnedInv, NEW p \in Procs, SeqParts(p)
  PROVE  IsFiniteSet(Live)
<1>1. index \in Seq(Tokens) /\ committed \subseteq Tokens /\ IsFiniteSet(Range(index))
  BY ListFinite DEF TypeInv, TypeOK
<1>2. pc[p] \in StageLabels => tok[p] \notin committed
  BY DEF OwnedInv, LoggingIn, StageLabels, LoginLabels
<1>3. Live \subseteq Range(index) \cup {cur[p]}
  BY <1>1, <1>2 DEF SeqParts, Agreed, Subject, In, Out, Live, Usable
<1>4. IsFiniteSet(Range(index) \cup {cur[p]})
  BY <1>1, FS_AddElement
<1> QED BY <1>3, <1>4, FS_Subset

\* An eviction under way may still have to bring the number of tokens down to the limit,
\* but once it has chosen, the tokens it leaves only become fewer.
LEMMA KeptShrinks ==
  ASSUME TypeInv, OwnedInv, UNCHANGED config, NEW p \in Procs, SeqParts(p),
         Kept(p)' \subseteq Kept(p)
  PROVE  Within(p)'
<1>1. IsFiniteSet(Kept(p))
  BY LiveFinite, FS_Subset DEF Kept
<1>2. Cardinality(Kept(p)') <= Cardinality(Kept(p))
  BY <1>1, FS_Subset
<1>3. IsFiniteSet(Kept(p)') /\ Cardinality(Kept(p)) \in Nat /\ Cardinality(Kept(p)') \in Nat
  BY <1>1, FS_Subset, FS_CardinalityType
<1>4. MaxLoginCount \in Int
  BY ConstantsAssumption DEF TypeInv, TypeOK, MaxLoginCount, Config
<1> QED BY <1>2, <1>3, <1>4 DEF SeqParts, Within, HasLimit, IsConcurrent, MaxLoginCount

-----------------------------------------------------------------------------
(***************************************************************************)
(* The steps of the one task                                               *)
(***************************************************************************)

\* The steps of a login, one by one: what the action changes, then the parts of the
\* invariant it can disturb.

\* A call that returns with every token in or out.
LEMMA FinishSequential ==
  ASSUME TypeInv, OwnedInv, UNCHANGED config, NEW p \in Procs, SeqParts(p), Finish(p),
         Live' \subseteq Kept(p) \/ ~HasLimit,
         IsShare => Live' \subseteq {mapping'},
         \A t \in Tokens : In(t)' \/ Out(t)'
  PROVE  SeqParts(p)'
<1>1. pc'[p] = "idle" /\ tok'[p] = NoToken /\ comp'[p] = <<>>
  BY Finished DEF TypeInv, TypeOK
<1>2. must'[p] = {}
  BY DEF TypeInv, TypeOK, Finish
<1> USE DEF LoginLabels, LogoutLabels, RenewLabels, StageLabels, ShareLabels, PostDelete,
   PreDelete
<1>3. Control(p)' /\ Staged(p)'
  BY <1>1 DEF Control, Staged, EvictStage, LoggingIn, Replacing
<1>4. LoggedOut(p)' /\ Listed(p)' /\ Swept(p)'
  BY <1>1, <1>2 DEF LoggedOut, Listed, Swept, EvictStage
<1>5. Found(p)' /\ Replaced(p)'
  BY <1>1 DEF Found, Replaced, LoggingIn, Replacing
<1>6. Agreed(p)'
  BY DEF Agreed
<1>7. Kept(p)' = Live'
  BY <1>1 DEF Kept, EvictStage
<1>8. Within(p)'
  <2>1. CASE HasLimit
    BY <1>7, <2>1, KeptShrinks
  <2>2. CASE ~HasLimit
    BY <2>2 DEF Within, HasLimit, IsConcurrent, MaxLoginCount
  <2> QED BY <2>1, <2>2
<1>9. Shared(p)'
  BY <1>1 DEF Shared, LoggingIn, Replacing, IsShare
<1> QED BY <1>3, <1>4, <1>5, <1>6, <1>8, <1>9 DEF SeqParts

\* The commit of a login: its token is now in, and is the only live one of its device,
\* or of the account.
LEMMA CommitSequential ==
  ASSUME TypeInv, OwnedInv, OneTokenPerDevice, UNCHANGED config, NEW p \in Procs,
         SeqParts(p), pc[p] = "cas", Commit(p)
  PROVE  SeqStep(p)
<1> USE DEF LoginLabels, LogoutLabels, RenewLabels, StageLabels, ShareLabels, PostDelete,
   PreDelete
<1>0. /\ Control(p) /\ Agreed(p) /\ Staged(p) /\ Swept(p) /\ Replaced(p) /\ Shared(p)
      /\ LoggingIn(p)
  BY DEF SeqParts, LoggingIn
<1>1. /\ mapping' = tok[p] /\ committed' = committed \cup {tok[p]} /\ UNCHANGED config
      /\ UNCHANGED <<body, tokenId, index, session, device>>
  BY DEF Commit
<1>2. tok[p] \in Tokens \ committed /\ NoToken \notin Tokens /\ committed \subseteq Tokens
  BY <1>0, ConstantsAssumption DEF TypeInv, TypeOK, Holding, OwnedInv
<1>3. /\ tok[p] \in body /\ tokenId[tok[p]] = "identity" /\ tok[p] \in Range(index)
      /\ tok[p] \in session.terminals /\ index # <<>> /\ Last(index) = tok[p]
  BY <1>0 DEF Staged
<1>4. \A t \in Tokens : t = tok[p] => In(t)'
  BY <1>1, <1>3 DEF In
<1>5. Live' = Live \cup {tok[p]} /\ tok[p] \notin Live
  BY <1>1, <1>2, <1>3 DEF Live, Usable, Marked
<1>6. \A t \in Tokens : In(t)' \/ Out(t)'
  BY <1>0, <1>1, <1>4 DEF Agreed, Subject, In, Out
<1>7. OneTokenPerDevice'
  <2>1. ~IsConcurrent => \A t \in Live : device[t] # device[tok[p]]
    BY <1>0 DEF Replaced, ToReplace
  <2> QED BY <1>1, <1>5, <2>1 DEF OneTokenPerDevice, IsConcurrent
<1>8. IsShare => Live' \subseteq {mapping'}
  BY <1>0, <1>1, <1>5 DEF Shared
<1>9. CASE ~HasLimit
  <2>1. Finish(p)
    BY <1>9 DEF Commit, HasLimit
  <2> QED BY <1>6, <1>7, <1>8, <1>9, <2>1, FinishSequential DEF SeqStep
<1>10. CASE HasLimit
  <2>1. /\ pc'[p] = "listIndex" /\ ret'[p] = "enforce" /\ IsConcurrent /\ MaxLoginCount > 0
        /\ UNCHANGED <<tok[p], must[p], cur[p], mode[p], before[p], comp[p]>>
    BY <1>10 DEF Commit, HasLimit, Goto, loginVars, TypeInv, TypeOK
  <2>2. EvictStage(p)' /\ ~LoggingIn(p)' /\ HasLimit'
    BY <1>1, <2>1 DEF EvictStage, LoggingIn, Replacing, HasLimit, IsConcurrent,
       MaxLoginCount
  <2>3. Control(p)' /\ Agreed(p)'
    BY <1>1, <1>6, <2>1, <2>2 DEF Control, Agreed, Replacing
  <2>4. Staged(p)' /\ LoggedOut(p)' /\ Listed(p)'
    BY <1>1, <1>2, <1>3, <1>4, <2>1, <2>2 DEF Staged, LoggedOut, Listed
  <2>5. Swept(p)' /\ Found(p)' /\ Replaced(p)'
    BY <1>0, <1>1, <2>1, <2>2 DEF Swept, Found, Replaced, IsConcurrent
  <2>6. Within(p)'
    <3>1. Kept(p)' = {}
      BY <2>1, <2>2 DEF Kept
    <3>2. MaxLoginCount \in Int /\ MaxLoginCount' = MaxLoginCount
      BY <1>1, ConstantsAssumption DEF TypeInv, TypeOK, MaxLoginCount, Config
    <3> QED BY <2>1, <3>1, <3>2, FS_EmptySet DEF Within
  <2>7. Shared(p)'
    BY <1>1, <1>8, <2>1, <2>2 DEF Shared, IsShare
  <2> QED BY <1>7, <2>3, <2>4, <2>5, <2>6, <2>7 DEF SeqStep, SeqParts
<1> QED BY <1>9, <1>10

LEMMA LoginSequential ==
  ASSUME SequentialConfig, TypeInv, OwnedInv, OneTokenPerDevice, UNCHANGED config,
         NEW p \in Procs, SeqParts(p), LoginStep(p)
  PROVE  SeqStep(p)
<1> USE DEF store, loginVars, logoutVars, listVars, history, Goto, LoginLabels,
   LogoutLabels, RenewLabels, StageLabels, ShareLabels, PostDelete, PreDelete, ReturnsTo
<1>1. /\ pc \in [Procs -> Labels] /\ tok \in [Procs -> Tokens \cup {NoToken}]
      /\ before \in [Procs -> Tokens \cup {NoToken}] /\ comp \in [Procs -> Seq(Kinds)]
      /\ cur \in [Procs -> Tokens \cup {NoToken}] /\ mode \in [Procs -> LogoutModes]
      /\ ident \in [Procs -> BOOLEAN] /\ ret \in [Procs -> ReturnLabels]
      /\ local \in [Procs -> SUBSET Tokens] /\ targets \in [Procs -> SUBSET Tokens]
      /\ probe \in [Procs -> Seq(Tokens)] /\ alive \in [Procs -> Seq(Tokens)]
      /\ evict \in [Procs -> SUBSET Tokens] /\ must \in [Procs -> SUBSET Tokens]
      /\ UNCHANGED config /\ NoToken \notin Tokens /\ committed \subseteq Tokens
      /\ ExitMode \in {"OldDevice", "NewDevice"}
  BY ConstantsAssumption DEF TypeInv, TypeOK, Config, ExitMode
<1>2. /\ SeqParts(p) /\ OneTokenPerDevice /\ UNCHANGED config
      /\ LoggingIn(p) => tok[p] \in Tokens \ committed
      /\ NoToken \notin Tokens /\ committed \subseteq Tokens /\ Live \subseteq committed
  BY <1>1 DEF OwnedInv, TypeInv, Holding, LoggingIn, Replacing, Live
<1> USE DEF SeqParts
<1>3. CASE ReadShare(p)
  <2>1. /\ pc[p] = "share"
        /\ pc'[p] = (IF mapping = NoToken THEN "before" ELSE "shareMark")
        /\ cur'[p] = mapping
        /\ UNCHANGED <<body, tokenId, index, session, mapping, device, committed,
                       tok[p], before[p], comp[p], mode[p], ident[p], ret[p], local[p],
                       targets[p], probe[p], alive[p], evict[p], must[p]>>
    BY <1>3, <1>1 DEF ReadShare
  <2>2. Live' = Live /\ ToReplace(p)' = ToReplace(p)
    BY <2>1, <1>1 DEF Live, Usable, Marked, ToReplace, PerDevice, ReplacedRange
  <2>3. Control(p)' /\ Swept(p)' /\ Found(p)'
    BY <2>1, <1>2 DEF Control, EvictStage, LoggingIn, Replacing, HasLimit, IsConcurrent,
       MaxLoginCount, Swept, Found
  <2>4. Agreed(p)' /\ Staged(p)'
    BY <2>1, <1>2 DEF Agreed, Subject, In, Out, Staged, LoggingIn, Replacing
  <2>5. LoggedOut(p)' /\ Listed(p)'
    BY <2>1, <1>2 DEF LoggedOut, Agreed, Subject, In, Out, Listed, EvictStage
  <2>6. Replaced(p)' /\ Shared(p)' /\ OneTokenPerDevice'
    BY <2>1, <1>2, <2>2 DEF Replaced, Replacing, IsConcurrent, Shared, LoggingIn,
       IsShare, OneTokenPerDevice
  <2>7. Kept(p)' \subseteq Kept(p)
    BY <2>1, <1>2, <2>2 DEF Kept, EvictStage, Control
  <2>8. Within(p)'
    BY <2>7, <1>2, <1>1, KeptShrinks
  <2> QED BY <2>3, <2>4, <2>5, <2>6, <2>8 DEF SeqStep, SeqParts
<1>4. CASE CheckShareMark(p)
  <2>1. /\ pc[p] = "shareMark"
        /\ pc'[p] = (IF Marked(cur[p]) THEN "before" ELSE "shareBody")
        /\ UNCHANGED <<body, tokenId, index, session, mapping, device, committed,
                       tok[p], before[p], comp[p], cur[p], mode[p], ident[p], ret[p],
                       local[p], targets[p], probe[p], alive[p], evict[p], must[p]>>
    BY <1>4, <1>1 DEF CheckShareMark
  <2>2. (Marked(cur[p]) => cur[p] \notin Live) /\ Marked(cur[p])' = Marked(cur[p])
    BY <2>1 DEF Live, Usable, Marked
  <2>3. Live' = Live /\ ToReplace(p)' = ToReplace(p)
    BY <2>1, <1>1 DEF Live, Usable, Marked, ToReplace, PerDevice, ReplacedRange
  <2>4. Control(p)' /\ Swept(p)' /\ Found(p)'
    BY <2>1, <1>2 DEF Control, EvictStage, LoggingIn, Replacing, HasLimit, IsConcurrent,
       MaxLoginCount, Swept, Found
  <2>5. Agreed(p)' /\ Staged(p)'
    BY <2>1, <1>2 DEF Agreed, Subject, In, Out, Staged, LoggingIn, Replacing
  <2>6. LoggedOut(p)' /\ Listed(p)'
    BY <2>1, <1>2 DEF LoggedOut, Agreed, Subject, In, Out, Listed, EvictStage
  <2>7. Replaced(p)' /\ Shared(p)' /\ OneTokenPerDevice'
    BY <2>1, <1>2, <2>3, <2>2 DEF Replaced, Replacing, IsConcurrent, Shared, LoggingIn,
       IsShare, OneTokenPerDevice
  <2>8. Kept(p)' \subseteq Kept(p)
    BY <2>1, <1>2, <2>3 DEF Kept, EvictStage, Control
  <2>9. Within(p)'
    BY <2>8, <1>2, <1>1, KeptShrinks
  <2> QED BY <2>4, <2>5, <2>6, <2>7, <2>9 DEF SeqStep, SeqParts
<1>5. CASE ReadBefore(p)
  <2>1. /\ pc[p] = "before"
        /\ pc'[p] = (IF IsConcurrent THEN "appendIndex" ELSE "listTargets")
        /\ before'[p] = mapping
        /\ UNCHANGED <<body, tokenId, index, session, mapping, device, committed,
                       tok[p], comp[p], cur[p], mode[p], ident[p], ret[p], local[p],
                       targets[p], probe[p], alive[p], evict[p], must[p]>>
    BY <1>5, <1>1 DEF ReadBefore
  <2>2. Live' = Live /\ ToReplace(p)' = ToReplace(p)
    BY <2>1, <1>1 DEF Live, Usable, Marked, ToReplace, PerDevice, ReplacedRange
  <2>3. Control(p)' /\ Swept(p)' /\ Found(p)'
    BY <2>1, <1>2 DEF Control, EvictStage, LoggingIn, Replacing, HasLimit, IsConcurrent,
       MaxLoginCount, Swept, Found
  <2>4. Agreed(p)' /\ Staged(p)'
    BY <2>1, <1>2 DEF Agreed, Subject, In, Out, Staged, LoggingIn, Replacing
  <2>5. LoggedOut(p)' /\ Listed(p)'
    BY <2>1, <1>2 DEF LoggedOut, Agreed, Subject, In, Out, Listed, EvictStage
  <2>6. Replaced(p)' /\ Shared(p)' /\ OneTokenPerDevice'
    BY <2>1, <1>2, <2>2 DEF Replaced, Replacing, IsConcurrent, Shared, LoggingIn,
       IsShare, OneTokenPerDevice
  <2>7. Kept(p)' \subseteq Kept(p)
    BY <2>1, <1>2, <2>2 DEF Kept, EvictStage, Control
  <2>8. Within(p)'
    BY <2>7, <1>2, <1>1, KeptShrinks
  <2> QED BY <2>3, <2>4, <2>5, <2>6, <2>8 DEF SeqStep, SeqParts
<1>6. CASE ListTokens(p)
  <2>1. /\ pc[p] = "listTargets"
        /\ pc'[p] = "mappingTarget"
        /\ targets'[p] = Range(index)
        /\ UNCHANGED <<body, tokenId, index, session, mapping, device, committed,
                       tok[p], before[p], comp[p], cur[p], mode[p], ident[p], ret[p],
                       local[p], probe[p], alive[p], evict[p], must[p]>>
    BY <1>6, <1>1 DEF ListTokens
  <2>2. Live \subseteq Range(index)
    BY <2>1, <1>2 DEF Agreed, Subject, In, Out, Live, Usable, Marked
  <2>3. Live' = Live /\ ToReplace(p)' = ToReplace(p)
    BY <2>1, <1>1 DEF Live, Usable, Marked, ToReplace, PerDevice, ReplacedRange
  <2>4. Control(p)' /\ Swept(p)' /\ Found(p)'
    BY <2>1, <1>2 DEF Control, EvictStage, LoggingIn, Replacing, HasLimit, IsConcurrent,
       MaxLoginCount, Swept, Found
  <2>5. Agreed(p)' /\ Staged(p)'
    BY <2>1, <1>2 DEF Agreed, Subject, In, Out, Staged, LoggingIn, Replacing
  <2>6. LoggedOut(p)' /\ Listed(p)'
    BY <2>1, <1>2 DEF LoggedOut, Agreed, Subject, In, Out, Listed, EvictStage
  <2>7. Replaced(p)' /\ Shared(p)' /\ OneTokenPerDevice'
    BY <2>1, <1>2, <2>3, <2>2 DEF Replaced, Replacing, IsConcurrent, ToReplace, Shared,
       LoggingIn, IsShare, OneTokenPerDevice
  <2>8. Kept(p)' \subseteq Kept(p)
    BY <2>1, <1>2, <2>3 DEF Kept, EvictStage, Control
  <2>9. Within(p)'
    BY <2>8, <1>2, <1>1, KeptShrinks
  <2> QED BY <2>4, <2>5, <2>6, <2>7, <2>9 DEF SeqStep, SeqParts
<1>7. ASSUME NEW t \in Tokens,
             ReplaceOne(p, t)
      PROVE  SeqStep(p)
  <2>1. /\ pc[p] = "replaceNext"
        /\ t \in targets[p]
        /\ pc'[p] = "resolveBody"
        /\ targets'[p] = targets[p] \ {t}
        /\ cur'[p] = t
        /\ mode'[p] = "Replaced"
        /\ ident'[p] = FALSE
        /\ ret'[p] = "replaceNext"
        /\ UNCHANGED <<body, tokenId, index, session, mapping, device, committed,
                       tok[p], before[p], comp[p], local[p], probe[p], alive[p],
                       evict[p], must[p]>>
    BY <1>7, <1>1 DEF ReplaceOne, StartLogout
  <2>2. Live' = Live /\ ToReplace(p)' = ToReplace(p)
    BY <2>1, <1>1 DEF Live, Usable, Marked, ToReplace, PerDevice, ReplacedRange
  <2>3. Control(p)' /\ Swept(p)' /\ Found(p)'
    BY <2>1, <1>2 DEF Control, EvictStage, LoggingIn, Replacing, HasLimit, IsConcurrent,
       MaxLoginCount, Swept, Found
  <2>4. Agreed(p)' /\ Staged(p)'
    BY <2>1, <1>2 DEF Agreed, Subject, In, Out, Staged, LoggingIn, Replacing
  <2>5. LoggedOut(p)' /\ Listed(p)'
    BY <2>1, <1>2 DEF LoggedOut, Agreed, Subject, In, Out, Listed, EvictStage
  <2>6. Replaced(p)' /\ Shared(p)' /\ OneTokenPerDevice'
    BY <2>1, <1>2, <2>2 DEF Replaced, Replacing, IsConcurrent, Shared, LoggingIn,
       IsShare, OneTokenPerDevice
  <2>7. Kept(p)' \subseteq Kept(p)
    BY <2>1, <1>2, <2>2 DEF Kept, EvictStage, Control
  <2>8. Within(p)'
    BY <2>7, <1>2, <1>1, KeptShrinks
  <2> QED BY <2>3, <2>4, <2>5, <2>6, <2>8 DEF SeqStep, SeqParts
<1>8. CASE ReplaceDone(p)
  <2>1. /\ pc[p] = "replaceNext"
        /\ targets[p] = {}
        /\ pc'[p] = "appendIndex"
        /\ UNCHANGED <<body, tokenId, index, session, mapping, device, committed,
                       tok[p], before[p], comp[p], cur[p], mode[p], ident[p], ret[p],
                       local[p], targets[p], probe[p], alive[p], evict[p], must[p]>>
    BY <1>8, <1>1 DEF ReplaceDone
  <2>2. Live' = Live /\ ToReplace(p)' = ToReplace(p)
    BY <2>1, <1>1 DEF Live, Usable, Marked, ToReplace, PerDevice, ReplacedRange
  <2>3. Control(p)' /\ Swept(p)' /\ Found(p)'
    BY <2>1, <1>2 DEF Control, EvictStage, LoggingIn, Replacing, HasLimit, IsConcurrent,
       MaxLoginCount, Swept, Found
  <2>4. Agreed(p)' /\ Staged(p)'
    BY <2>1, <1>2 DEF Agreed, Subject, In, Out, Staged, LoggingIn, Replacing
  <2>5. LoggedOut(p)' /\ Listed(p)'
    BY <2>1, <1>2 DEF LoggedOut, Agreed, Subject, In, Out, Listed, EvictStage
  <2>6. Replaced(p)' /\ Shared(p)' /\ OneTokenPerDevice'
    BY <2>1, <1>2, <2>2 DEF Replaced, Replacing, IsConcurrent, Shared, LoggingIn,
       IsShare, OneTokenPerDevice
  <2>7. Kept(p)' \subseteq Kept(p)
    BY <2>1, <1>2, <2>2 DEF Kept, EvictStage, Control
  <2>8. Within(p)'
    BY <2>7, <1>2, <1>1, KeptShrinks
  <2> QED BY <2>3, <2>4, <2>5, <2>6, <2>8 DEF SeqStep, SeqParts
<1>9. CASE AppendIndex(p)
  <2>1. /\ pc[p] = "appendIndex"
        /\ pc'[p] = "snapshot"
        /\ index' = PushUnique(index, tok[p])
        /\ UNCHANGED <<body, tokenId, session, mapping, device, committed, tok[p],
                       before[p], cur[p], mode[p], ident[p], ret[p], local[p],
                       targets[p], probe[p], alive[p], evict[p], must[p]>>
    BY <1>9, <1>1 DEF AppendIndex, Register
  <2>2. index' # <<>> /\ Last(index') = tok[p] /\ Range(index') = Range(index) \cup
       {tok[p]}
    BY <2>1, <1>1, <1>2, PushNew DEF Staged, TypeInv, TypeOK, LoggingIn
  <2>3. Live' = Live /\ ToReplace(p)' = ToReplace(p)
    BY <2>1, <1>1 DEF Live, Usable, Marked, ToReplace, PerDevice, ReplacedRange
  <2>4. Control(p)' /\ Swept(p)' /\ Found(p)'
    BY <2>1, <1>2 DEF Control, EvictStage, LoggingIn, Replacing, HasLimit, IsConcurrent,
       MaxLoginCount, Swept, Found
  <2>5. Agreed(p)' /\ Staged(p)'
    BY <2>1, <1>2, <2>2 DEF Agreed, Subject, In, Out, Staged, LoggingIn, Replacing
  <2>6. LoggedOut(p)' /\ Listed(p)'
    BY <2>1, <1>2, <2>2 DEF LoggedOut, Agreed, Subject, In, Out, Listed, EvictStage
  <2>7. Replaced(p)' /\ Shared(p)' /\ OneTokenPerDevice'
    BY <2>1, <1>2, <2>3 DEF Replaced, Replacing, IsConcurrent, Shared, LoggingIn,
       IsShare, OneTokenPerDevice
  <2>8. Kept(p)' \subseteq Kept(p)
    BY <2>1, <1>2, <2>3 DEF Kept, EvictStage, Control
  <2>9. Within(p)'
    BY <2>8, <1>2, <1>1, KeptShrinks
  <2> QED BY <2>4, <2>5, <2>6, <2>7, <2>9 DEF SeqStep, SeqParts
<1>10. CASE Snapshot(p)
  <2>1. /\ pc[p] = "snapshot"
        /\ pc'[p] = "readSession"
        /\ UNCHANGED <<body, tokenId, index, session, mapping, device, committed,
                       tok[p], before[p], cur[p], mode[p], ident[p], ret[p], local[p],
                       targets[p], probe[p], alive[p], evict[p], must[p]>>
    BY <1>10, <1>1 DEF Snapshot, Register
  <2>2. Live' = Live /\ ToReplace(p)' = ToReplace(p)
    BY <2>1, <1>1 DEF Live, Usable, Marked, ToReplace, PerDevice, ReplacedRange
  <2>3. Control(p)' /\ Swept(p)' /\ Found(p)'
    BY <2>1, <1>2 DEF Control, EvictStage, LoggingIn, Replacing, HasLimit, IsConcurrent,
       MaxLoginCount, Swept, Found
  <2>4. Agreed(p)' /\ Staged(p)'
    BY <2>1, <1>2 DEF Agreed, Subject, In, Out, Staged, LoggingIn, Replacing
  <2>5. LoggedOut(p)' /\ Listed(p)'
    BY <2>1, <1>2 DEF LoggedOut, Agreed, Subject, In, Out, Listed, EvictStage
  <2>6. Replaced(p)' /\ Shared(p)' /\ OneTokenPerDevice'
    BY <2>1, <1>2, <2>2 DEF Replaced, Replacing, IsConcurrent, Shared, LoggingIn,
       IsShare, OneTokenPerDevice
  <2>7. Kept(p)' \subseteq Kept(p)
    BY <2>1, <1>2, <2>2 DEF Kept, EvictStage, Control
  <2>8. Within(p)'
    BY <2>7, <1>2, <1>1, KeptShrinks
  <2> QED BY <2>3, <2>4, <2>5, <2>6, <2>8 DEF SeqStep, SeqParts
<1>11. CASE ReadSession(p)
  <2>1. /\ pc[p] = "readSession"
        /\ pc'[p] = "saveSession"
        /\ local'[p] = session.terminals
        /\ UNCHANGED <<body, tokenId, index, session, mapping, device, committed,
                       tok[p], before[p], comp[p], cur[p], mode[p], ident[p], ret[p],
                       targets[p], probe[p], alive[p], evict[p], must[p]>>
    BY <1>11, <1>1 DEF ReadSession
  <2>2. Live' = Live /\ ToReplace(p)' = ToReplace(p)
    BY <2>1, <1>1 DEF Live, Usable, Marked, ToReplace, PerDevice, ReplacedRange
  <2>3. Control(p)' /\ Swept(p)' /\ Found(p)'
    BY <2>1, <1>2 DEF Control, EvictStage, LoggingIn, Replacing, HasLimit, IsConcurrent,
       MaxLoginCount, Swept, Found
  <2>4. Agreed(p)' /\ Staged(p)'
    BY <2>1, <1>2 DEF Agreed, Subject, In, Out, Staged, LoggingIn, Replacing
  <2>5. LoggedOut(p)' /\ Listed(p)'
    BY <2>1, <1>2 DEF LoggedOut, Agreed, Subject, In, Out, Listed, EvictStage
  <2>6. Replaced(p)' /\ Shared(p)' /\ OneTokenPerDevice'
    BY <2>1, <1>2, <2>2 DEF Replaced, Replacing, IsConcurrent, Shared, LoggingIn,
       IsShare, OneTokenPerDevice
  <2>7. Kept(p)' \subseteq Kept(p)
    BY <2>1, <1>2, <2>2 DEF Kept, EvictStage, Control
  <2>8. Within(p)'
    BY <2>7, <1>2, <1>1, KeptShrinks
  <2> QED BY <2>3, <2>4, <2>5, <2>6, <2>8 DEF SeqStep, SeqParts
<1>12. CASE SaveSession(p)
  <2>1. /\ pc[p] = "saveSession"
        /\ pc'[p] = "saveTokenId"
        /\ (session'.terminals = local[p] \cup {tok[p]})
        /\ UNCHANGED <<body, tokenId, index, mapping, device, committed, tok[p],
                       before[p], comp[p], cur[p], mode[p], ident[p], ret[p],
                       targets[p], probe[p], alive[p], evict[p], must[p]>>
    BY <1>12, <1>1 DEF SaveSession
  <2>2. Live' = Live /\ ToReplace(p)' = ToReplace(p)
    BY <2>1, <1>1 DEF Live, Usable, Marked, ToReplace, PerDevice, ReplacedRange
  <2>3. Control(p)' /\ Swept(p)' /\ Found(p)'
    BY <2>1, <1>2 DEF Control, EvictStage, LoggingIn, Replacing, HasLimit, IsConcurrent,
       MaxLoginCount, Swept, Found
  <2>4. Agreed(p)' /\ Staged(p)'
    BY <2>1, <1>2 DEF Agreed, Subject, In, Out, Staged, LoggingIn, Replacing
  <2>5. LoggedOut(p)' /\ Listed(p)'
    BY <2>1, <1>2 DEF LoggedOut, Agreed, Subject, In, Out, Listed, EvictStage
  <2>6. Replaced(p)' /\ Shared(p)' /\ OneTokenPerDevice'
    BY <2>1, <1>2, <2>2 DEF Replaced, Replacing, IsConcurrent, Shared, LoggingIn,
       IsShare, OneTokenPerDevice
  <2>7. Kept(p)' \subseteq Kept(p)
    BY <2>1, <1>2, <2>2 DEF Kept, EvictStage, Control
  <2>8. Within(p)'
    BY <2>7, <1>2, <1>1, KeptShrinks
  <2> QED BY <2>3, <2>4, <2>5, <2>6, <2>8 DEF SeqStep, SeqParts
<1>13. CASE SaveTokenId(p)
  <2>1. /\ pc[p] = "saveTokenId"
        /\ pc'[p] = "saveBody"
        /\ tokenId' = [tokenId EXCEPT ![tok[p]] = "identity"]
        /\ UNCHANGED <<body, index, session, mapping, device, committed, tok[p],
                       before[p], cur[p], mode[p], ident[p], ret[p], local[p],
                       targets[p], probe[p], alive[p], evict[p], must[p]>>
    BY <1>13, <1>1 DEF SaveTokenId, Register
  <2>2. tokenId'[tok[p]] = "identity" /\ \A t \in Tokens \ {tok[p]} : tokenId'[t] =
       tokenId[t]
    BY <2>1, <1>1, <1>2 DEF TypeInv, TypeOK, LoggingIn
  <2>3. Live' = Live /\ ToReplace(p)' = ToReplace(p)
    BY <2>1, <2>2, <1>1, <1>2 DEF Live, Usable, Marked, ToReplace, PerDevice,
       ReplacedRange, LoggingIn
  <2>4. Control(p)' /\ Swept(p)' /\ Found(p)'
    BY <2>1, <1>2 DEF Control, EvictStage, LoggingIn, Replacing, HasLimit, IsConcurrent,
       MaxLoginCount, Swept, Found
  <2>5. Agreed(p)' /\ Staged(p)'
    BY <2>1, <1>2, <2>2 DEF Agreed, Subject, In, Out, Staged, LoggingIn, Replacing
  <2>6. LoggedOut(p)' /\ Listed(p)'
    BY <2>1, <1>2, <2>2 DEF LoggedOut, Agreed, Subject, In, Out, Listed, EvictStage
  <2>7. Replaced(p)' /\ Shared(p)' /\ OneTokenPerDevice'
    BY <2>1, <1>2, <2>3 DEF Replaced, Replacing, IsConcurrent, Shared, LoggingIn,
       IsShare, OneTokenPerDevice
  <2>8. Kept(p)' \subseteq Kept(p)
    BY <2>1, <1>2, <2>3 DEF Kept, EvictStage, Control
  <2>9. Within(p)'
    BY <2>8, <1>2, <1>1, KeptShrinks
  <2> QED BY <2>4, <2>5, <2>6, <2>7, <2>9 DEF SeqStep, SeqParts
<1>14. CASE SaveBody(p)
  <2>1. /\ pc[p] = "saveBody"
        /\ pc'[p] = "cas"
        /\ body' = body \cup {tok[p]}
        /\ UNCHANGED <<tokenId, index, session, mapping, device, committed, tok[p],
                       before[p], cur[p], mode[p], ident[p], ret[p], local[p],
                       targets[p], probe[p], alive[p], evict[p], must[p]>>
    BY <1>14, <1>1 DEF SaveBody, Register
  <2>2. Live' = Live /\ ToReplace(p)' = ToReplace(p)
    BY <2>1, <1>1, <1>2 DEF Live, Usable, Marked, ToReplace, PerDevice, ReplacedRange,
       LoggingIn
  <2>3. Control(p)' /\ Swept(p)' /\ Found(p)'
    BY <2>1, <1>2 DEF Control, EvictStage, LoggingIn, Replacing, HasLimit, IsConcurrent,
       MaxLoginCount, Swept, Found
  <2>4. Agreed(p)' /\ Staged(p)'
    BY <2>1, <1>2 DEF Agreed, Subject, In, Out, Staged, LoggingIn, Replacing
  <2>5. LoggedOut(p)' /\ Listed(p)'
    BY <2>1, <1>2 DEF LoggedOut, Agreed, Subject, In, Out, Listed, EvictStage
  <2>6. Replaced(p)' /\ Shared(p)' /\ OneTokenPerDevice'
    BY <2>1, <1>2, <2>2 DEF Replaced, Replacing, IsConcurrent, Shared, LoggingIn,
       IsShare, OneTokenPerDevice
  <2>7. Kept(p)' \subseteq Kept(p)
    BY <2>1, <1>2, <2>2 DEF Kept, EvictStage, Control
  <2>8. Within(p)'
    BY <2>7, <1>2, <1>1, KeptShrinks
  <2> QED BY <2>3, <2>4, <2>5, <2>6, <2>8 DEF SeqStep, SeqParts
<1>15. CASE ListTerminals(p)
  <2>1. /\ pc[p] = "listTargets"
        /\ pc'[p] = "appendIndex" => (SameDevice(session.terminals, tok[p]) \ {tok[p]})
           = {}
        /\ pc'[p] = "replaceNext" => targets'[p] = (SameDevice(session.terminals,
           tok[p]) \ {tok[p]})
        /\ PerDevice(tok[p])
        /\ pc'[p] \in {"appendIndex", "replaceNext", "rollback"}
        /\ UNCHANGED <<body, tokenId, index, session, mapping, device, committed,
                       tok[p], before[p], comp[p], cur[p], mode[p], ident[p], ret[p],
                       local[p], probe[p], alive[p], evict[p], must[p]>>
    BY <1>15, <1>1 DEF ListTerminals, Replace
  <2>2. ToReplace(p) \subseteq (SameDevice(session.terminals, tok[p]) \ {tok[p]})
    BY <2>1, <1>2 DEF Agreed, Subject, In, Out, Live, Usable, Marked, ToReplace,
       SameDevice, LoggingIn
  <2>3. Live' = Live /\ ToReplace(p)' = ToReplace(p)
    BY <2>1, <1>1 DEF Live, Usable, Marked, ToReplace, PerDevice, ReplacedRange
  <2>4. Control(p)' /\ Swept(p)' /\ Found(p)'
    BY <2>1, <1>2 DEF Control, EvictStage, LoggingIn, Replacing, HasLimit, IsConcurrent,
       MaxLoginCount, Swept, Found
  <2>5. Agreed(p)' /\ Staged(p)'
    BY <2>1, <1>2 DEF Agreed, Subject, In, Out, Staged, LoggingIn, Replacing
  <2>6. LoggedOut(p)' /\ Listed(p)'
    BY <2>1, <1>2 DEF LoggedOut, Agreed, Subject, In, Out, Listed, EvictStage
  <2>7. Replaced(p)' /\ Shared(p)' /\ OneTokenPerDevice'
    BY <2>1, <1>2, <2>3, <2>2 DEF Replaced, Replacing, IsConcurrent, Shared, LoggingIn,
       IsShare, OneTokenPerDevice
  <2>8. Kept(p)' \subseteq Kept(p)
    BY <2>1, <1>2, <2>3 DEF Kept, EvictStage, Control
  <2>9. Within(p)'
    BY <2>8, <1>2, <1>1, KeptShrinks
  <2> QED BY <2>4, <2>5, <2>6, <2>7, <2>9 DEF SeqStep, SeqParts
<1>16. CASE AddMappingTarget(p)
  <2>1. /\ pc[p] = "mappingTarget"
        /\ pc'[p] = "appendIndex" => ((targets[p] \cup ({mapping} \ {NoToken})) \
           {tok[p]}) = {}
        /\ pc'[p] = "replaceNext" => targets'[p] = ((targets[p] \cup ({mapping} \
           {NoToken})) \ {tok[p]})
        /\ pc'[p] \in {"appendIndex", "replaceNext", "rollback"}
        /\ UNCHANGED <<body, tokenId, index, session, mapping, device, committed,
                       tok[p], before[p], comp[p], cur[p], mode[p], ident[p], ret[p],
                       local[p], probe[p], alive[p], evict[p], must[p]>>
    BY <1>16, <1>1 DEF AddMappingTarget, Replace
  <2>2. tok[p] \notin ToReplace(p)
    BY <2>1, <1>2 DEF ToReplace, LoggingIn
  <2>3. Live' = Live /\ ToReplace(p)' = ToReplace(p)
    BY <2>1, <1>1 DEF Live, Usable, Marked, ToReplace, PerDevice, ReplacedRange
  <2>4. Control(p)' /\ Swept(p)' /\ Found(p)'
    BY <2>1, <1>2 DEF Control, EvictStage, LoggingIn, Replacing, HasLimit, IsConcurrent,
       MaxLoginCount, Swept, Found
  <2>5. Agreed(p)' /\ Staged(p)'
    BY <2>1, <1>2 DEF Agreed, Subject, In, Out, Staged, LoggingIn, Replacing
  <2>6. LoggedOut(p)' /\ Listed(p)'
    BY <2>1, <1>2 DEF LoggedOut, Agreed, Subject, In, Out, Listed, EvictStage
  <2>7. Replaced(p)' /\ Shared(p)' /\ OneTokenPerDevice'
    BY <2>1, <1>2, <2>3, <2>2 DEF Replaced, Replacing, IsConcurrent, Shared, LoggingIn,
       IsShare, OneTokenPerDevice
  <2>8. Kept(p)' \subseteq Kept(p)
    BY <2>1, <1>2, <2>3 DEF Kept, EvictStage, Control
  <2>9. Within(p)'
    BY <2>8, <1>2, <1>1, KeptShrinks
  <2> QED BY <2>4, <2>5, <2>6, <2>7, <2>9 DEF SeqStep, SeqParts
<1>17. CASE CheckShareBody(p) /\ cur[p] \notin body
  <2>1. /\ pc[p] = "shareBody"
        /\ cur[p] \notin body
        /\ pc'[p] = "before"
        /\ UNCHANGED <<body, tokenId, index, session, mapping, device, committed,
                       tok[p], before[p], comp[p], cur[p], mode[p], ident[p], ret[p],
                       local[p], targets[p], probe[p], alive[p], evict[p], must[p]>>
    BY <1>17, <1>1 DEF CheckShareBody
  <2>2. cur[p] \notin Live
    BY <2>1 DEF Live, Usable, Marked
  <2>3. Live' = Live /\ ToReplace(p)' = ToReplace(p)
    BY <2>1, <1>1 DEF Live, Usable, Marked, ToReplace, PerDevice, ReplacedRange
  <2>4. Control(p)' /\ Swept(p)' /\ Found(p)'
    BY <2>1, <1>2 DEF Control, EvictStage, LoggingIn, Replacing, HasLimit, IsConcurrent,
       MaxLoginCount, Swept, Found
  <2>5. Agreed(p)' /\ Staged(p)'
    BY <2>1, <1>2 DEF Agreed, Subject, In, Out, Staged, LoggingIn, Replacing
  <2>6. LoggedOut(p)' /\ Listed(p)'
    BY <2>1, <1>2 DEF LoggedOut, Agreed, Subject, In, Out, Listed, EvictStage
  <2>7. Replaced(p)' /\ Shared(p)' /\ OneTokenPerDevice'
    BY <2>1, <1>2, <2>3, <2>2 DEF Replaced, Replacing, IsConcurrent, Shared, LoggingIn,
       IsShare, OneTokenPerDevice
  <2>8. Kept(p)' \subseteq Kept(p)
    BY <2>1, <1>2, <2>3 DEF Kept, EvictStage, Control
  <2>9. Within(p)'
    BY <2>8, <1>2, <1>1, KeptShrinks
  <2> QED BY <2>4, <2>5, <2>6, <2>7, <2>9 DEF SeqStep, SeqParts
<1>18. CASE CheckShareBody(p) /\ cur[p] \in body
  <2>1. /\ Finish(p) /\ UNCHANGED <<body, tokenId, index, session, mapping, committed>>
        /\ \A t \in Tokens \ {tok[p]} : device'[t] = device[t]
        /\ pc[p] = "shareBody"
    BY <1>18 DEF CheckShareBody, TypeInv, TypeOK
  <2>2. Live' = Live /\ tok[p] \notin Live
    BY <2>1, <1>2 DEF Live, Usable, Marked, LoggingIn
  <2>3. \A t \in Tokens : In(t)' \/ Out(t)'
    BY <2>1, <1>2 DEF Agreed, Subject, In, Out
  <2>4. OneTokenPerDevice'
    BY <2>1, <2>2, <1>2 DEF OneTokenPerDevice, IsConcurrent
  <2>5. Kept(p) = Live /\ (IsShare => Live' \subseteq {mapping'})
    BY <2>1, <2>2, <1>2 DEF Kept, EvictStage, Shared
  <2>6. SeqParts(p)'
    BY <2>1, <2>2, <2>3, <2>5, <1>2, FinishSequential
  <2> QED BY <2>4, <2>6 DEF SeqStep
<1>19. CASE CommitConcurrent(p) \/ CommitCas(p)
  BY <1>19, CommitSequential DEF CommitConcurrent, CommitCas
<1>20. ASSUME CasRefused(p) \/ CommitAbsent(p) \/ CasLost(p) \/ Rollback(p)
      PROVE  FALSE
  BY <1>20, <1>2 DEF CasRefused, CommitAbsent, CasLost, Rollback, Control, Found,
     EvictStage,
     LoggingIn
<1>21. CASE RolledBack(p)
  <2>1. Finish(p) /\ UNCHANGED <<store, device, committed>> /\ pc[p] = "rollback"
    BY <1>21 DEF RolledBack
  <2>2. Live' = Live
    BY <2>1 DEF Live, Usable, Marked
  <2>3. \A t \in Tokens : In(t)' \/ Out(t)'
    BY <2>1, <1>2 DEF Agreed, Subject, In, Out
  <2>4. OneTokenPerDevice'
    BY <2>1, <2>2, <1>2 DEF OneTokenPerDevice, IsConcurrent
  <2>5. Kept(p) = Live /\ (IsShare => Live' \subseteq {mapping'})
    BY <2>1, <2>2, <1>2 DEF Kept, EvictStage, Shared
  <2>6. SeqParts(p)'
    BY <2>1, <2>2, <2>3, <2>5, <1>2, FinishSequential
  <2> QED BY <2>4, <2>6 DEF SeqStep
<1> QED
  BY <1>3, <1>4, <1>5, <1>6, <1>7, <1>8, <1>9, <1>10, <1>11, <1>12, <1>13, <1>14, <1>15,
     <1>16, <1>17, <1>18, <1>19, <1>20, <1>21 DEF LoginStep

\* logout_internal comes back to its caller with the token out everywhere.
LEMMA LeaveSequential ==
  ASSUME TypeInv, OwnedInv, OneTokenPerDevice, UNCHANGED config, NEW p \in Procs,
         SeqParts(p), pc[p] \in LogoutLabels, pc'[p] = ret[p], Out(cur[p]),
         UNCHANGED <<body, index, session.terminals, device, committed, tok[p], before[p],
                     comp[p], cur[p], mode[p], ret[p], targets[p], evict[p], must[p]>>,
         tokenId'[cur[p]] # "identity",
         \A t \in Tokens \ {cur[p]} : tokenId'[t] = tokenId[t],
         (mapping' = mapping) \/ (mapping = cur[p] /\ ~Replacing(p))
  PROVE  SeqStep(p)
<1> USE DEF LoginLabels, LogoutLabels, RenewLabels, StageLabels, ShareLabels, PostDelete,
   PreDelete
<1>1. /\ Control(p) /\ Agreed(p) /\ Staged(p) /\ Listed(p) /\ Swept(p) /\ Found(p)
      /\ Replaced(p) /\ Shared(p) /\ ret[p] \in ReturnsTo
  BY DEF SeqParts, Control
<1>2. cur[p] \notin body /\ cur[p] \notin Live /\ committed \subseteq Tokens
  BY DEF Out, Live, Usable, TypeInv, TypeOK
<1>3. Out(cur[p])' /\ \A t \in Tokens \ {cur[p]} : In(t)' = In(t) /\ Out(t)' = Out(t)
  BY DEF In, Out
<1>4. Live' = Live /\ ToReplace(p)' = ToReplace(p)
  BY <1>2 DEF Live, Usable, Marked, ToReplace, PerDevice, ReplacedRange
<1>5. \A t \in Tokens : In(t)' \/ Out(t)'
  BY <1>1, <1>3 DEF Agreed, Subject
<1> USE DEF ReturnsTo
<1>6. /\ EvictStage(p)' = EvictStage(p) /\ LoggingIn(p)' = LoggingIn(p) /\ ~Replacing(p)'
      /\ LoggingIn(p) = (ret[p] = "replaceNext") /\ EvictStage(p) = (ret[p] = "evictNext")
      /\ Replacing(p) = LoggingIn(p)
  BY <1>1 DEF EvictStage, LoggingIn, Replacing
<1>7. Control(p)'
  BY <1>1, <1>6 DEF Control, HasLimit, IsConcurrent, MaxLoginCount
<1>8. Agreed(p)'
  BY <1>5 DEF Agreed
<1>9. Staged(p)' /\ LoggedOut(p)'
  <2>1. LoggingIn(p) => Out(tok[p])'
    <3>1. LoggingIn(p) => Out(tok[p]) /\ tok[p] \in Tokens
      BY <1>1, <1>6 DEF Staged, OwnedInv, TypeInv, Holding
    <3> QED BY <1>3, <3>1
  <2> QED BY <1>1, <1>6, <2>1 DEF Staged, LoggedOut
<1>10. Listed(p)'
  <2>1. EvictStage(p) => In(tok[p])' /\ tok[p] \notin evict[p] /\ tok[p] \in Tokens
    BY <1>1, <1>2, <1>3, <1>6 DEF Listed, Control
  <2> QED BY <1>1, <1>6, <2>1 DEF Listed
<1>11. Swept(p)'
  <2>1. ret[p] = "accountNext" => tok[p] = NoToken
    BY <1>1, <1>6 DEF Control
  <2> QED BY <1>1, <1>2, <2>1 DEF Swept
<1>12. Found(p)'
  BY <1>1, <1>6 DEF Found
<1>13. Replaced(p)' /\ OneTokenPerDevice'
  BY <1>1, <1>2, <1>4, <1>6 DEF Replaced, ToReplace, IsConcurrent, OneTokenPerDevice
<1>14. Within(p)'
  <2>1. Kept(p)' \subseteq Kept(p)
    BY <1>1, <1>2, <1>4, <1>6 DEF Kept
  <2> QED BY <2>1, KeptShrinks
<1>15. Shared(p)'
  BY <1>1, <1>2, <1>4, <1>6 DEF Shared, IsShare
<1> QED BY <1>7, <1>8, <1>9, <1>10, <1>11, <1>12, <1>13, <1>14, <1>15 DEF SeqStep, SeqParts

\* The steps of logout_internal, likewise.
LEMMA LogoutSequential ==
  ASSUME SequentialConfig, TypeInv, OwnedInv, RollbackInv, OneTokenPerDevice,
         UNCHANGED config, NEW p \in Procs, SeqParts(p), LogoutStep(p)
  PROVE  SeqStep(p)
<1> USE DEF store, loginVars, logoutVars, listVars, history, Goto, LoginLabels,
   LogoutLabels, RenewLabels, StageLabels, ShareLabels, PostDelete, PreDelete, ReturnsTo
<1>1. /\ pc \in [Procs -> Labels] /\ tok \in [Procs -> Tokens \cup {NoToken}]
      /\ cur \in [Procs -> Tokens \cup {NoToken}] /\ mode \in [Procs -> LogoutModes]
      /\ ident \in [Procs -> BOOLEAN] /\ ret \in [Procs -> ReturnLabels]
      /\ local \in [Procs -> SUBSET Tokens] /\ index \in Seq(Tokens) /\ NoRepeats(index)
      /\ tokenId \in [Tokens -> {"none", "identity", "KickOut", "Replaced"}]
      /\ UNCHANGED config /\ NoToken \notin Tokens
  BY ConstantsAssumption DEF TypeInv, TypeOK, RollbackInv
<1>2. /\ SeqParts(p) /\ OneTokenPerDevice /\ UNCHANGED config
      /\ Live \subseteq body /\ Live \subseteq Tokens /\ cur[p] \in Tokens
      /\ NoToken \notin Tokens /\ mode[p] \in LogoutModes /\ committed \subseteq Tokens
      /\ LoggingIn(p) \/ tok[p] # NoToken => tok[p] \in Tokens
  BY <1>1 DEF OwnedInv, Holding, LoggingIn, Replacing, TypeInv, TypeOK, Live, Usable,
     LogoutStep, RangeBody, RangeId, ResolveBody,
     ResolveId, DeleteBody, Mark, RemoveIndex, ReadTerminals, SaveTerminals, CountTerminals,
     DeleteSession, CasDelete, SeqParts, LoggedOut
<1> USE DEF SeqParts
<1>3. CASE RangeBody(p) /\ cur[p] \in body
  <2>1. /\ pc[p] = "rangeBody"
        /\ pc'[p] = "listIndex"
        /\ ret'[p] = "collect"
        /\ UNCHANGED <<body, tokenId, index, session, mapping, device, committed,
                       tok[p], before[p], comp[p], cur[p], mode[p], ident[p], local[p],
                       targets[p], probe[p], alive[p], evict[p], must[p]>>
    BY <1>3, <1>1 DEF RangeBody, CollectInto
  <2>2. Live' = Live /\ ToReplace(p)' = ToReplace(p)
    BY <2>1, <1>1 DEF Live, Usable, Marked, ToReplace, PerDevice, ReplacedRange
  <2>3. Control(p)' /\ Swept(p)' /\ Found(p)'
    BY <2>1, <1>2 DEF Control, EvictStage, LoggingIn, Replacing, HasLimit, IsConcurrent,
       MaxLoginCount, Swept, Found
  <2>4. Agreed(p)' /\ Staged(p)'
    BY <2>1, <1>2 DEF Agreed, Subject, In, Out, Staged, LoggingIn, Replacing
  <2>5. LoggedOut(p)' /\ Listed(p)'
    BY <2>1, <1>2 DEF LoggedOut, Agreed, Subject, In, Out, Listed, EvictStage
  <2>6. Replaced(p)' /\ Shared(p)' /\ OneTokenPerDevice'
    BY <2>1, <1>2, <2>2 DEF Replaced, Replacing, IsConcurrent, Shared, LoggingIn,
       IsShare, OneTokenPerDevice
  <2>7. Kept(p)' \subseteq Kept(p)
    BY <2>1, <1>2, <2>2 DEF Kept, EvictStage, Control
  <2>8. Within(p)'
    BY <2>7, <1>2, <1>1, KeptShrinks
  <2> QED BY <2>3, <2>4, <2>5, <2>6, <2>8 DEF SeqStep, SeqParts
<1>4. CASE RangeBody(p) /\ cur[p] \notin body
  <2>1. /\ pc[p] = "rangeBody"
        /\ pc'[p] = "rangeId"
        /\ UNCHANGED <<body, tokenId, index, session, mapping, device, committed,
                       tok[p], before[p], comp[p], cur[p], mode[p], ident[p], ret[p],
                       local[p], targets[p], probe[p], alive[p], evict[p], must[p]>>
    BY <1>4, <1>1 DEF RangeBody
  <2>2. Live' = Live /\ ToReplace(p)' = ToReplace(p)
    BY <2>1, <1>1 DEF Live, Usable, Marked, ToReplace, PerDevice, ReplacedRange
  <2>3. Control(p)' /\ Swept(p)' /\ Found(p)'
    BY <2>1, <1>2 DEF Control, EvictStage, LoggingIn, Replacing, HasLimit, IsConcurrent,
       MaxLoginCount, Swept, Found
  <2>4. Agreed(p)' /\ Staged(p)'
    BY <2>1, <1>2 DEF Agreed, Subject, In, Out, Staged, LoggingIn, Replacing
  <2>5. LoggedOut(p)' /\ Listed(p)'
    BY <2>1, <1>2 DEF LoggedOut, Agreed, Subject, In, Out, Listed, EvictStage
  <2>6. Replaced(p)' /\ Shared(p)' /\ OneTokenPerDevice'
    BY <2>1, <1>2, <2>2 DEF Replaced, Replacing, IsConcurrent, Shared, LoggingIn,
       IsShare, OneTokenPerDevice
  <2>7. Kept(p)' \subseteq Kept(p)
    BY <2>1, <1>2, <2>2 DEF Kept, EvictStage, Control
  <2>8. Within(p)'
    BY <2>7, <1>2, <1>1, KeptShrinks
  <2> QED BY <2>3, <2>4, <2>5, <2>6, <2>8 DEF SeqStep, SeqParts
<1>5. CASE RangeId(p) /\ tokenId[cur[p]] = "identity"
  <2>1. /\ pc[p] = "rangeId"
        /\ pc'[p] = "listIndex"
        /\ ret'[p] = "collect"
        /\ UNCHANGED <<body, tokenId, index, session, mapping, device, committed,
                       tok[p], before[p], comp[p], cur[p], mode[p], ident[p], local[p],
                       targets[p], probe[p], alive[p], evict[p], must[p]>>
    BY <1>5, <1>1 DEF RangeId, CollectInto
  <2>2. Live' = Live /\ ToReplace(p)' = ToReplace(p)
    BY <2>1, <1>1 DEF Live, Usable, Marked, ToReplace, PerDevice, ReplacedRange
  <2>3. Control(p)' /\ Swept(p)' /\ Found(p)'
    BY <2>1, <1>2 DEF Control, EvictStage, LoggingIn, Replacing, HasLimit, IsConcurrent,
       MaxLoginCount, Swept, Found
  <2>4. Agreed(p)' /\ Staged(p)'
    BY <2>1, <1>2 DEF Agreed, Subject, In, Out, Staged, LoggingIn, Replacing
  <2>5. LoggedOut(p)' /\ Listed(p)'
    BY <2>1, <1>2 DEF LoggedOut, Agreed, Subject, In, Out, Listed, EvictStage
  <2>6. Replaced(p)' /\ Shared(p)' /\ OneTokenPerDevice'
    BY <2>1, <1>2, <2>2 DEF Replaced, Replacing, IsConcurrent, Shared, LoggingIn,
       IsShare, OneTokenPerDevice
  <2>7. Kept(p)' \subseteq Kept(p)
    BY <2>1, <1>2, <2>2 DEF Kept, EvictStage, Control
  <2>8. Within(p)'
    BY <2>7, <1>2, <1>1, KeptShrinks
  <2> QED BY <2>3, <2>4, <2>5, <2>6, <2>8 DEF SeqStep, SeqParts
<1>6. CASE RangeId(p) /\ tokenId[cur[p]] # "identity"
  <2>1. /\ pc[p] = "rangeId"
        /\ tokenId[cur[p]] # "identity"
        /\ pc'[p] = "resolveBody"
        /\ UNCHANGED <<body, tokenId, index, session, mapping, device, committed,
                       tok[p], before[p], comp[p], cur[p], mode[p], ident[p], ret[p],
                       local[p], targets[p], probe[p], alive[p], evict[p], must[p]>>
    BY <1>6, <1>1 DEF RangeId
  <2>2. ret[p] = "return" /\ ~Replacing(p) /\ ~Replacing(p)'
    BY <2>1, <1>2 DEF Control, Replacing
  <2>3. Live' = Live /\ ToReplace(p)' = ToReplace(p)
    BY <2>1, <1>1 DEF Live, Usable, Marked, ToReplace, PerDevice, ReplacedRange
  <2>4. Control(p)' /\ Swept(p)' /\ Found(p)'
    BY <2>1, <1>2 DEF Control, EvictStage, LoggingIn, Replacing, HasLimit, IsConcurrent,
       MaxLoginCount, Swept, Found
  <2>5. Agreed(p)' /\ Staged(p)'
    BY <2>1, <1>2, <2>2 DEF Agreed, Subject, In, Out, Staged, LoggingIn, Replacing
  <2>6. LoggedOut(p)' /\ Listed(p)'
    BY <2>1, <1>2, <2>2 DEF LoggedOut, Agreed, Subject, In, Out, Listed, EvictStage
  <2>7. Replaced(p)' /\ Shared(p)' /\ OneTokenPerDevice'
    BY <2>1, <1>2, <2>3, <2>2 DEF Replaced, Replacing, IsConcurrent, Shared, LoggingIn,
       IsShare, OneTokenPerDevice
  <2>8. Kept(p)' \subseteq Kept(p)
    BY <2>1, <1>2, <2>3 DEF Kept, EvictStage, Control
  <2>9. Within(p)'
    BY <2>8, <1>2, <1>1, KeptShrinks
  <2> QED BY <2>4, <2>5, <2>6, <2>7, <2>9 DEF SeqStep, SeqParts
<1>7. CASE ResolveBody(p) /\ cur[p] \in body
  <2>1. /\ pc[p] = "resolveBody"
        /\ cur[p] \in body
        /\ pc'[p] = "deleteBody"
        /\ ident'[p] = TRUE
        /\ UNCHANGED <<body, tokenId, index, session, mapping, device, committed,
                       tok[p], before[p], comp[p], cur[p], mode[p], ret[p], local[p],
                       targets[p], probe[p], alive[p], evict[p], must[p]>>
    BY <1>7, <1>1 DEF ResolveBody
  <2>2. Live' = Live /\ ToReplace(p)' = ToReplace(p)
    BY <2>1, <1>1 DEF Live, Usable, Marked, ToReplace, PerDevice, ReplacedRange
  <2>3. Control(p)' /\ Swept(p)' /\ Found(p)'
    BY <2>1, <1>2 DEF Control, EvictStage, LoggingIn, Replacing, HasLimit, IsConcurrent,
       MaxLoginCount, Swept, Found
  <2>4. Agreed(p)' /\ Staged(p)'
    BY <2>1, <1>2 DEF Agreed, Subject, In, Out, Staged, LoggingIn, Replacing
  <2>5. LoggedOut(p)' /\ Listed(p)'
    BY <2>1, <1>2 DEF LoggedOut, Agreed, Subject, In, Out, Listed, EvictStage
  <2>6. Replaced(p)' /\ Shared(p)' /\ OneTokenPerDevice'
    BY <2>1, <1>2, <2>2 DEF Replaced, Replacing, IsConcurrent, Shared, LoggingIn,
       IsShare, OneTokenPerDevice
  <2>7. Kept(p)' \subseteq Kept(p)
    BY <2>1, <1>2, <2>2 DEF Kept, EvictStage, Control
  <2>8. Within(p)'
    BY <2>7, <1>2, <1>1, KeptShrinks
  <2> QED BY <2>3, <2>4, <2>5, <2>6, <2>8 DEF SeqStep, SeqParts
<1>8. CASE ResolveBody(p) /\ cur[p] \notin body
  <2>1. /\ pc[p] = "resolveBody"
        /\ cur[p] \notin body
        /\ pc'[p] = "resolveId"
        /\ UNCHANGED <<body, tokenId, index, session, mapping, device, committed,
                       tok[p], before[p], comp[p], cur[p], mode[p], ret[p], local[p],
                       targets[p], probe[p], alive[p], evict[p], must[p]>>
    BY <1>8, <1>1 DEF ResolveBody
  <2>2. Live' = Live /\ ToReplace(p)' = ToReplace(p)
    BY <2>1, <1>1 DEF Live, Usable, Marked, ToReplace, PerDevice, ReplacedRange
  <2>3. Control(p)' /\ Swept(p)' /\ Found(p)'
    BY <2>1, <1>2 DEF Control, EvictStage, LoggingIn, Replacing, HasLimit, IsConcurrent,
       MaxLoginCount, Swept, Found
  <2>4. Agreed(p)' /\ Staged(p)'
    BY <2>1, <1>2 DEF Agreed, Subject, In, Out, Staged, LoggingIn, Replacing
  <2>5. LoggedOut(p)' /\ Listed(p)'
    BY <2>1, <1>2 DEF LoggedOut, Agreed, Subject, In, Out, Listed, EvictStage
  <2>6. Replaced(p)' /\ Shared(p)' /\ OneTokenPerDevice'
    BY <2>1, <1>2, <2>2 DEF Replaced, Replacing, IsConcurrent, Shared, LoggingIn,
       IsShare, OneTokenPerDevice
  <2>7. Kept(p)' \subseteq Kept(p)
    BY <2>1, <1>2, <2>2 DEF Kept, EvictStage, Control
  <2>8. Within(p)'
    BY <2>7, <1>2, <1>1, KeptShrinks
  <2> QED BY <2>3, <2>4, <2>5, <2>6, <2>8 DEF SeqStep, SeqParts
<1>9. CASE ResolveId(p)
  <2>1. /\ pc[p] = "resolveId"
        /\ pc'[p] = "deleteBody"
        /\ UNCHANGED <<body, tokenId, index, session, mapping, device, committed,
                       tok[p], before[p], comp[p], cur[p], mode[p], ret[p], local[p],
                       targets[p], probe[p], alive[p], evict[p], must[p]>>
    BY <1>9, <1>1 DEF ResolveId
  <2>2. Live' = Live /\ ToReplace(p)' = ToReplace(p)
    BY <2>1, <1>1 DEF Live, Usable, Marked, ToReplace, PerDevice, ReplacedRange
  <2>3. Control(p)' /\ Swept(p)' /\ Found(p)'
    BY <2>1, <1>2 DEF Control, EvictStage, LoggingIn, Replacing, HasLimit, IsConcurrent,
       MaxLoginCount, Swept, Found
  <2>4. Agreed(p)' /\ Staged(p)'
    BY <2>1, <1>2 DEF Agreed, Subject, In, Out, Staged, LoggingIn, Replacing
  <2>5. LoggedOut(p)' /\ Listed(p)'
    BY <2>1, <1>2 DEF LoggedOut, Agreed, Subject, In, Out, Listed, EvictStage
  <2>6. Replaced(p)' /\ Shared(p)' /\ OneTokenPerDevice'
    BY <2>1, <1>2, <2>2 DEF Replaced, Replacing, IsConcurrent, Shared, LoggingIn,
       IsShare, OneTokenPerDevice
  <2>7. Kept(p)' \subseteq Kept(p)
    BY <2>1, <1>2, <2>2 DEF Kept, EvictStage, Control
  <2>8. Within(p)'
    BY <2>7, <1>2, <1>1, KeptShrinks
  <2> QED BY <2>3, <2>4, <2>5, <2>6, <2>8 DEF SeqStep, SeqParts
<1>10. CASE DeleteBody(p)
  <2>1. /\ pc[p] = "deleteBody"
        /\ pc'[p] = "mark"
        /\ body' = body \ {cur[p]}
        /\ UNCHANGED <<tokenId, index, session, mapping, device, committed, tok[p],
                       before[p], comp[p], cur[p], mode[p], ident[p], ret[p], local[p],
                       targets[p], probe[p], alive[p], evict[p], must[p]>>
    BY <1>10, <1>1 DEF DeleteBody
  <2>2. Live' = Live \ {cur[p]} /\ ToReplace(p)' \subseteq ToReplace(p)
    BY <2>1, <1>1 DEF Live, Usable, Marked, ToReplace, PerDevice, ReplacedRange
  <2>3. Control(p)' /\ Swept(p)' /\ Found(p)'
    BY <2>1, <1>2 DEF Control, EvictStage, LoggingIn, Replacing, HasLimit, IsConcurrent,
       MaxLoginCount, Swept, Found
  <2>4. Agreed(p)' /\ Staged(p)'
    BY <2>1, <1>2 DEF Agreed, Subject, In, Out, Staged, LoggingIn, Replacing
  <2>5. LoggedOut(p)' /\ Listed(p)'
    BY <2>1, <1>2 DEF LoggedOut, Agreed, Subject, In, Out, Listed, EvictStage
  <2>6. Replaced(p)' /\ Shared(p)' /\ OneTokenPerDevice'
    BY <2>1, <1>2, <2>2 DEF Replaced, Replacing, IsConcurrent, Shared, LoggingIn,
       IsShare, OneTokenPerDevice
  <2>7. Kept(p)' \subseteq Kept(p)
    BY <2>1, <1>2, <2>2 DEF Kept, EvictStage, Control
  <2>8. Within(p)'
    BY <2>7, <1>2, <1>1, KeptShrinks
  <2> QED BY <2>3, <2>4, <2>5, <2>6, <2>8 DEF SeqStep, SeqParts
<1>11. CASE Mark(p) /\ ident[p]
  <2>1. /\ pc[p] = "mark"
        /\ tokenId'[cur[p]] # "identity"
        /\ tokenId' \in [Tokens -> {"none", "identity", "KickOut", "Replaced"}]
        /\ pc'[p] = "removeIndex"
        /\ (\A t \in Tokens \ {cur[p]} : tokenId'[t] = tokenId[t])
        /\ UNCHANGED <<body, index, session, mapping, device, committed, tok[p],
                       before[p], comp[p], cur[p], mode[p], ident[p], ret[p], local[p],
                       targets[p], probe[p], alive[p], evict[p], must[p]>>
    BY <1>11, <1>1, <1>2 DEF Mark, LogoutModes
  <2>2. cur[p] \notin body /\ cur[p] \notin Live
    BY <2>1, <1>2 DEF LoggedOut
  <2>3. Live' = Live /\ ToReplace(p)' = ToReplace(p)
    BY <2>1, <2>2, <1>1, <1>2 DEF Live, Usable, Marked, ToReplace, PerDevice,
       ReplacedRange
  <2>4. Control(p)' /\ Swept(p)' /\ Found(p)'
    BY <2>1, <1>2, <2>2 DEF Control, EvictStage, LoggingIn, Replacing, HasLimit,
       IsConcurrent, MaxLoginCount, Swept, Found
  <2>5. Agreed(p)' /\ Staged(p)'
    BY <2>1, <1>2 DEF Agreed, Subject, In, Out, Staged, LoggingIn, Replacing
  <2>6. LoggedOut(p)' /\ Listed(p)'
    BY <2>1, <1>2 DEF LoggedOut, Agreed, Subject, In, Out, Listed, EvictStage
  <2>7. Replaced(p)' /\ Shared(p)' /\ OneTokenPerDevice'
    BY <2>1, <1>2, <2>3, <2>2 DEF Replaced, Replacing, IsConcurrent, ToReplace, Shared,
       LoggingIn, IsShare, OneTokenPerDevice
  <2>8. Kept(p)' \subseteq Kept(p)
    BY <2>1, <1>2, <2>3, <2>2 DEF Kept, EvictStage, Control
  <2>9. Within(p)'
    BY <2>8, <1>2, <1>1, KeptShrinks
  <2> QED BY <2>4, <2>5, <2>6, <2>7, <2>9 DEF SeqStep, SeqParts
<1>12. CASE RemoveIndex(p)
  <2>1. /\ pc[p] = "removeIndex"
        /\ pc'[p] = "readTerminals"
        /\ index' = Without(index, cur[p])
        /\ UNCHANGED <<body, tokenId, session, mapping, device, committed, tok[p],
                       before[p], comp[p], cur[p], mode[p], ident[p], ret[p], local[p],
                       targets[p], probe[p], alive[p], evict[p], must[p]>>
    BY <1>12, <1>1 DEF RemoveIndex
  <2>2. Range(index') = Range(index) \ {cur[p]}
    BY <2>1, <1>1, WithoutRange, WithoutKeeps
  <2>3. Live' = Live /\ ToReplace(p)' = ToReplace(p)
    BY <2>1, <1>1 DEF Live, Usable, Marked, ToReplace, PerDevice, ReplacedRange
  <2>4. Control(p)' /\ Swept(p)' /\ Found(p)'
    BY <2>1, <1>2 DEF Control, EvictStage, LoggingIn, Replacing, HasLimit, IsConcurrent,
       MaxLoginCount, Swept, Found
  <2>5. Agreed(p)' /\ Staged(p)'
    BY <2>1, <1>2, <2>2 DEF Agreed, Subject, In, Out, Staged, LoggingIn, Replacing
  <2>6. LoggedOut(p)' /\ Listed(p)'
    BY <2>1, <1>2, <2>2 DEF LoggedOut, Agreed, Subject, In, Out, Listed, EvictStage
  <2>7. Replaced(p)' /\ Shared(p)' /\ OneTokenPerDevice'
    BY <2>1, <1>2, <2>3 DEF Replaced, Replacing, IsConcurrent, Shared, LoggingIn,
       IsShare, OneTokenPerDevice
  <2>8. Kept(p)' \subseteq Kept(p)
    BY <2>1, <1>2, <2>3 DEF Kept, EvictStage, Control
  <2>9. Within(p)'
    BY <2>8, <1>2, <1>1, KeptShrinks
  <2> QED BY <2>4, <2>5, <2>6, <2>7, <2>9 DEF SeqStep, SeqParts
<1>13. CASE ReadTerminals(p) /\ cur[p] \in session.terminals
  <2>1. /\ pc[p] = "readTerminals"
        /\ pc'[p] = "saveTerminals"
        /\ local'[p] = session.terminals \ {cur[p]}
        /\ UNCHANGED <<body, tokenId, index, session, mapping, device, committed,
                       tok[p], before[p], comp[p], cur[p], mode[p], ident[p], ret[p],
                       targets[p], probe[p], alive[p], evict[p], must[p]>>
    BY <1>13, <1>1 DEF ReadTerminals
  <2>2. Live' = Live /\ ToReplace(p)' = ToReplace(p)
    BY <2>1, <1>1 DEF Live, Usable, Marked, ToReplace, PerDevice, ReplacedRange
  <2>3. Control(p)' /\ Swept(p)' /\ Found(p)'
    BY <2>1, <1>2 DEF Control, EvictStage, LoggingIn, Replacing, HasLimit, IsConcurrent,
       MaxLoginCount, Swept, Found
  <2>4. Agreed(p)' /\ Staged(p)'
    BY <2>1, <1>2 DEF Agreed, Subject, In, Out, Staged, LoggingIn, Replacing
  <2>5. LoggedOut(p)' /\ Listed(p)'
    BY <2>1, <1>2 DEF LoggedOut, Agreed, Subject, In, Out, Listed, EvictStage
  <2>6. Replaced(p)' /\ Shared(p)' /\ OneTokenPerDevice'
    BY <2>1, <1>2, <2>2 DEF Replaced, Replacing, IsConcurrent, Shared, LoggingIn,
       IsShare, OneTokenPerDevice
  <2>7. Kept(p)' \subseteq Kept(p)
    BY <2>1, <1>2, <2>2 DEF Kept, EvictStage, Control
  <2>8. Within(p)'
    BY <2>7, <1>2, <1>1, KeptShrinks
  <2> QED BY <2>3, <2>4, <2>5, <2>6, <2>8 DEF SeqStep, SeqParts
<1>14. CASE ReadTerminals(p) /\ cur[p] \notin session.terminals /\ mode[p] = "Logout"
  <2>1. /\ pc[p] = "readTerminals"
        /\ mode[p] = "Logout"
        /\ cur[p] \notin session.terminals
        /\ pc'[p] = "casDelete"
        /\ UNCHANGED <<body, tokenId, index, session, mapping, device, committed,
                       tok[p], before[p], comp[p], cur[p], mode[p], ident[p], ret[p],
                       local[p], targets[p], probe[p], alive[p], evict[p], must[p]>>
    BY <1>14, <1>1 DEF ReadTerminals, AfterTerminals
  <2>2. Out(cur[p])
    BY <2>1, <1>2 DEF LoggedOut, Out
  <2>3. Live' = Live /\ ToReplace(p)' = ToReplace(p)
    BY <2>1, <1>1 DEF Live, Usable, Marked, ToReplace, PerDevice, ReplacedRange
  <2>4. Control(p)' /\ Swept(p)' /\ Found(p)'
    BY <2>1, <1>2 DEF Control, EvictStage, LoggingIn, Replacing, HasLimit, IsConcurrent,
       MaxLoginCount, Swept, Found
  <2>5. Agreed(p)' /\ Staged(p)'
    BY <2>1, <1>2, <2>2 DEF Agreed, Subject, In, Out, Staged, LoggingIn, Replacing
  <2>6. LoggedOut(p)' /\ Listed(p)'
    BY <2>1, <1>2, <2>2 DEF LoggedOut, Agreed, Subject, In, Out, Listed, EvictStage
  <2>7. Replaced(p)' /\ Shared(p)' /\ OneTokenPerDevice'
    BY <2>1, <1>2, <2>3 DEF Replaced, Replacing, IsConcurrent, Shared, LoggingIn,
       IsShare, OneTokenPerDevice
  <2>8. Kept(p)' \subseteq Kept(p)
    BY <2>1, <1>2, <2>3 DEF Kept, EvictStage, Control
  <2>9. Within(p)'
    BY <2>8, <1>2, <1>1, KeptShrinks
  <2> QED BY <2>4, <2>5, <2>6, <2>7, <2>9 DEF SeqStep, SeqParts
<1>15. CASE SaveTerminals(p)
  <2>1. /\ pc[p] = "saveTerminals"
        /\ pc'[p] = "countTerminals"
        /\ (session'.terminals = session.terminals \ {cur[p]})
        /\ UNCHANGED <<body, tokenId, index, mapping, device, committed, tok[p],
                       before[p], comp[p], cur[p], mode[p], ident[p], ret[p],
                       targets[p], probe[p], alive[p], evict[p], must[p]>>
    BY <1>15, <1>1, <1>2 DEF SaveTerminals, LoggedOut
  <2>2. Live' = Live /\ ToReplace(p)' = ToReplace(p)
    BY <2>1, <1>1 DEF Live, Usable, Marked, ToReplace, PerDevice, ReplacedRange
  <2>3. Control(p)' /\ Swept(p)' /\ Found(p)'
    BY <2>1, <1>2 DEF Control, EvictStage, LoggingIn, Replacing, HasLimit, IsConcurrent,
       MaxLoginCount, Swept, Found
  <2>4. Agreed(p)' /\ Staged(p)'
    BY <2>1, <1>2, SMTT(30) DEF Agreed, Subject, In, Out, Staged, LoggingIn, Replacing
  <2>5. LoggedOut(p)' /\ Listed(p)'
    BY <2>1, <1>2 DEF LoggedOut, Agreed, Subject, In, Out, Listed, EvictStage
  <2>6. Replaced(p)' /\ Shared(p)' /\ OneTokenPerDevice'
    BY <2>1, <1>2, <2>2 DEF Replaced, Replacing, IsConcurrent, Shared, LoggingIn,
       IsShare, OneTokenPerDevice
  <2>7. Kept(p)' \subseteq Kept(p)
    BY <2>1, <1>2, <2>2 DEF Kept, EvictStage, Control
  <2>8. Within(p)'
    BY <2>7, <1>2, <1>1, KeptShrinks
  <2> QED BY <2>3, <2>4, <2>5, <2>6, <2>8 DEF SeqStep, SeqParts
<1>16. CASE CountTerminals(p) /\ pc'[p] = "deleteSession"
  <2>1. /\ pc[p] = "countTerminals"
        /\ session.terminals = {}
        /\ pc'[p] = "deleteSession"
        /\ UNCHANGED <<body, tokenId, index, session, mapping, device, committed,
                       tok[p], before[p], comp[p], cur[p], mode[p], ident[p], ret[p],
                       local[p], targets[p], probe[p], alive[p], evict[p], must[p]>>
    BY <1>16, <1>1 DEF CountTerminals, AfterTerminals, ReturnLabels
  <2>2. Live' = Live /\ ToReplace(p)' = ToReplace(p)
    BY <2>1, <1>1 DEF Live, Usable, Marked, ToReplace, PerDevice, ReplacedRange
  <2>3. Control(p)' /\ Swept(p)' /\ Found(p)'
    BY <2>1, <1>2 DEF Control, EvictStage, LoggingIn, Replacing, HasLimit, IsConcurrent,
       MaxLoginCount, Swept, Found
  <2>4. Agreed(p)' /\ Staged(p)'
    BY <2>1, <1>2 DEF Agreed, Subject, In, Out, Staged, LoggingIn, Replacing
  <2>5. LoggedOut(p)' /\ Listed(p)'
    BY <2>1, <1>2 DEF LoggedOut, Agreed, Subject, In, Out, Listed, EvictStage
  <2>6. Replaced(p)' /\ Shared(p)' /\ OneTokenPerDevice'
    BY <2>1, <1>2, <2>2 DEF Replaced, Replacing, IsConcurrent, Shared, LoggingIn,
       IsShare, OneTokenPerDevice
  <2>7. Kept(p)' \subseteq Kept(p)
    BY <2>1, <1>2, <2>2 DEF Kept, EvictStage, Control
  <2>8. Within(p)'
    BY <2>7, <1>2, <1>1, KeptShrinks
  <2> QED BY <2>3, <2>4, <2>5, <2>6, <2>8 DEF SeqStep, SeqParts
<1>17. CASE CountTerminals(p) /\ pc'[p] = "casDelete"
  <2>1. /\ pc[p] = "countTerminals"
        /\ mode[p] = "Logout"
        /\ pc'[p] = "casDelete"
        /\ UNCHANGED <<body, tokenId, index, session, mapping, device, committed,
                       tok[p], before[p], comp[p], cur[p], mode[p], ident[p], ret[p],
                       local[p], targets[p], probe[p], alive[p], evict[p], must[p]>>
    BY <1>17, <1>1 DEF CountTerminals, AfterTerminals, ReturnLabels
  <2>2. Live' = Live /\ ToReplace(p)' = ToReplace(p)
    BY <2>1, <1>1 DEF Live, Usable, Marked, ToReplace, PerDevice, ReplacedRange
  <2>3. Control(p)' /\ Swept(p)' /\ Found(p)'
    BY <2>1, <1>2 DEF Control, EvictStage, LoggingIn, Replacing, HasLimit, IsConcurrent,
       MaxLoginCount, Swept, Found
  <2>4. Agreed(p)' /\ Staged(p)'
    BY <2>1, <1>2 DEF Agreed, Subject, In, Out, Staged, LoggingIn, Replacing
  <2>5. LoggedOut(p)' /\ Listed(p)'
    BY <2>1, <1>2 DEF LoggedOut, Agreed, Subject, In, Out, Listed, EvictStage
  <2>6. Replaced(p)' /\ Shared(p)' /\ OneTokenPerDevice'
    BY <2>1, <1>2, <2>2 DEF Replaced, Replacing, IsConcurrent, Shared, LoggingIn,
       IsShare, OneTokenPerDevice
  <2>7. Kept(p)' \subseteq Kept(p)
    BY <2>1, <1>2, <2>2 DEF Kept, EvictStage, Control
  <2>8. Within(p)'
    BY <2>7, <1>2, <1>1, KeptShrinks
  <2> QED BY <2>3, <2>4, <2>5, <2>6, <2>8 DEF SeqStep, SeqParts
<1>18. CASE DeleteSession(p) /\ mode[p] = "Logout"
  <2>1. /\ pc[p] = "deleteSession"
        /\ mode[p] = "Logout"
        /\ pc'[p] = "casDelete"
        /\ (session'.terminals = session.terminals)
        /\ UNCHANGED <<body, tokenId, index, mapping, device, committed, tok[p],
                       before[p], comp[p], cur[p], mode[p], ident[p], ret[p], local[p],
                       targets[p], probe[p], alive[p], evict[p], must[p]>>
    BY <1>18, <1>1, <1>2 DEF DeleteSession, AfterTerminals, NoSession, LoggedOut
  <2>2. Live' = Live /\ ToReplace(p)' = ToReplace(p)
    BY <2>1, <1>1 DEF Live, Usable, Marked, ToReplace, PerDevice, ReplacedRange
  <2>3. Control(p)' /\ Swept(p)' /\ Found(p)'
    BY <2>1, <1>2 DEF Control, EvictStage, LoggingIn, Replacing, HasLimit, IsConcurrent,
       MaxLoginCount, Swept, Found
  <2>4. Agreed(p)' /\ Staged(p)'
    BY <2>1, <1>2 DEF Agreed, Subject, In, Out, Staged, LoggingIn, Replacing
  <2>5. LoggedOut(p)' /\ Listed(p)'
    BY <2>1, <1>2 DEF LoggedOut, Agreed, Subject, In, Out, Listed, EvictStage
  <2>6. Replaced(p)' /\ Shared(p)' /\ OneTokenPerDevice'
    BY <2>1, <1>2, <2>2 DEF Replaced, Replacing, IsConcurrent, Shared, LoggingIn,
       IsShare, OneTokenPerDevice
  <2>7. Kept(p)' \subseteq Kept(p)
    BY <2>1, <1>2, <2>2 DEF Kept, EvictStage, Control
  <2>8. Within(p)'
    BY <2>7, <1>2, <1>1, KeptShrinks
  <2> QED BY <2>3, <2>4, <2>5, <2>6, <2>8 DEF SeqStep, SeqParts
<1>19. CASE Mark(p) /\ ~ident[p]
  <2>1. pc[p] \in LogoutLabels /\ pc'[p] = ret[p]
    BY <1>19, <1>1 DEF Mark
  <2>2. Out(cur[p])
    BY <1>19, <1>2 DEF Mark, LoggedOut, Out
  <2>3. /\ tokenId'[cur[p]] # "identity"
        /\ (mapping' = mapping) \/ (mapping = cur[p] /\ ~Replacing(p))
        /\ \A t \in Tokens \ {cur[p]} : tokenId'[t] = tokenId[t]
    BY <1>19, <1>1, <1>2 DEF Mark, LogoutModes
  <2>4. UNCHANGED <<body, index, session.terminals, device, committed, tok[p], before[p],
                   comp[p], cur[p], mode[p], ret[p], targets[p], evict[p], must[p]>>
    BY <1>19 DEF Mark
  <2> QED BY <2>1, <2>2, <2>3, <2>4, LeaveSequential, <1>2
<1>20. CASE ReadTerminals(p) /\ cur[p] \notin session.terminals /\ mode[p] # "Logout"
  <2>1. pc[p] \in LogoutLabels /\ pc'[p] = ret[p]
    BY <1>20, <1>1 DEF ReadTerminals, AfterTerminals
  <2>2. Out(cur[p])
    BY <1>20, <1>2 DEF ReadTerminals, LoggedOut, Out
  <2>3. /\ UNCHANGED tokenId /\ tokenId[cur[p]] # "identity"
        /\ (mapping' = mapping) \/ (mapping = cur[p] /\ ~Replacing(p))
    BY <1>20, <2>2 DEF ReadTerminals, Out
  <2>4. UNCHANGED <<body, index, session.terminals, device, committed, tok[p], before[p],
                   comp[p], cur[p], mode[p], ret[p], targets[p], evict[p], must[p]>>
    BY <1>20 DEF ReadTerminals
  <2> QED BY <2>1, <2>2, <2>3, <2>4, LeaveSequential, <1>2
<1>21. CASE CountTerminals(p) /\ pc'[p] \notin {"deleteSession", "casDelete"}
  <2>1. pc[p] \in LogoutLabels /\ pc'[p] = ret[p]
    BY <1>21, <1>1 DEF CountTerminals, AfterTerminals
  <2>2. Out(cur[p])
    BY <1>21, <1>2 DEF CountTerminals, LoggedOut, Out
  <2>3. /\ UNCHANGED tokenId /\ tokenId[cur[p]] # "identity"
        /\ (mapping' = mapping) \/ (mapping = cur[p] /\ ~Replacing(p))
    BY <1>21, <2>2 DEF CountTerminals, Out
  <2>4. UNCHANGED <<body, index, session.terminals, device, committed, tok[p], before[p],
                   comp[p], cur[p], mode[p], ret[p], targets[p], evict[p], must[p]>>
    BY <1>21 DEF CountTerminals
  <2> QED BY <2>1, <2>2, <2>3, <2>4, LeaveSequential, <1>2
<1>22. CASE DeleteSession(p) /\ mode[p] # "Logout"
  <2>1. pc[p] \in LogoutLabels /\ pc'[p] = ret[p]
    BY <1>22, <1>1 DEF DeleteSession, AfterTerminals
  <2>2. Out(cur[p])
    BY <1>22, <1>2 DEF DeleteSession, LoggedOut, Out
  <2>3. /\ UNCHANGED tokenId /\ tokenId[cur[p]] # "identity"
        /\ (mapping' = mapping) \/ (mapping = cur[p] /\ ~Replacing(p))
    BY <1>22, <2>2 DEF DeleteSession, Out
  <2>4. UNCHANGED <<body, index, session.terminals, device, committed, tok[p], before[p],
                   comp[p], cur[p], mode[p], ret[p], targets[p], evict[p], must[p]>>
    BY <1>22, <1>2 DEF DeleteSession, NoSession, LoggedOut
  <2> QED BY <2>1, <2>2, <2>3, <2>4, LeaveSequential, <1>2
<1>23. CASE CasDelete(p)
  <2>1. pc[p] \in LogoutLabels /\ pc'[p] = ret[p]
    BY <1>23, <1>1 DEF CasDelete
  <2>2. Out(cur[p])
    BY <1>23, <1>2 DEF CasDelete, LoggedOut, Out
  <2>3. /\ UNCHANGED tokenId /\ tokenId[cur[p]] # "identity"
        /\ (mapping' = mapping) \/ (mapping = cur[p] /\ ~Replacing(p))
    BY <1>23, <1>2, <2>2 DEF CasDelete, Control, Out
  <2>4. UNCHANGED <<body, index, session.terminals, device, committed, tok[p], before[p],
                   comp[p], cur[p], mode[p], ret[p], targets[p], evict[p], must[p]>>
    BY <1>23 DEF CasDelete
  <2> QED BY <2>1, <2>2, <2>3, <2>4, LeaveSequential, <1>2
<1> QED
  BY <1>3, <1>4, <1>5, <1>6, <1>7, <1>8, <1>9, <1>10, <1>11, <1>12, <1>13, <1>14, <1>15,
     <1>16, <1>17, <1>18, <1>19, <1>20, <1>21, <1>22, <1>23 DEF LogoutStep

\* prune_index, enforce_max_login_count and the account-wide loops, likewise.
LEMMA AccountSequential ==
  ASSUME SequentialConfig, TypeInv, OwnedInv, RollbackInv, OneTokenPerDevice,
         UNCHANGED config, NEW p \in Procs, SeqParts(p), AccountStep(p)
  PROVE  SeqStep(p)
<1> USE DEF store, loginVars, logoutVars, listVars, history, Goto, LoginLabels,
   LogoutLabels, RenewLabels, StageLabels, ShareLabels, PostDelete, PreDelete, ReturnsTo
<1>1. /\ pc \in [Procs -> Labels] /\ tok \in [Procs -> Tokens \cup {NoToken}]
      /\ cur \in [Procs -> Tokens \cup {NoToken}] /\ mode \in [Procs -> LogoutModes]
      /\ ident \in [Procs -> BOOLEAN] /\ ret \in [Procs -> ReturnLabels]
      /\ targets \in [Procs -> SUBSET Tokens] /\ index \in Seq(Tokens) /\ NoRepeats(index)
      /\ probe \in [Procs -> Seq(Tokens)] /\ alive \in [Procs -> Seq(Tokens)]
      /\ evict \in [Procs -> SUBSET Tokens]
      /\ pc[p] \in {"listIndex", "probe"} => ret[p] \in {"enforce", "collect"}
      /\ UNCHANGED config /\ NoToken \notin Tokens /\ body \subseteq Tokens
  BY ConstantsAssumption DEF TypeInv, TypeOK, RollbackInv, Holding
<1>2. /\ SeqParts(p) /\ OneTokenPerDevice /\ UNCHANGED config
      /\ Live \subseteq body /\ Live \subseteq Tokens /\ NoToken \notin Tokens
      /\ committed \subseteq Tokens /\ mode[p] \in LogoutModes /\ body \subseteq Tokens
      /\ pc[p] \in {"listIndex", "probe"} => ret[p] \in {"enforce", "collect"}
  BY <1>1 DEF TypeInv, TypeOK, Live, Usable
<1> USE DEF SeqParts
<1>3. CASE ListIndex(p)
  <2>1. /\ pc[p] = "listIndex"
        /\ pc'[p] = "probe"
        /\ probe'[p] = index
        /\ alive'[p] = <<>>
        /\ UNCHANGED <<body, tokenId, index, session, mapping, device, committed,
                       tok[p], before[p], comp[p], cur[p], mode[p], ident[p], ret[p],
                       local[p], targets[p], evict[p], must[p]>>
    BY <1>3, <1>1 DEF ListIndex
  <2>2. <<>> \o index = index
    BY <1>1, EmptyEnds
  <2>3. Live' = Live /\ ToReplace(p)' = ToReplace(p)
    BY <2>1, <1>1 DEF Live, Usable, Marked, ToReplace, PerDevice, ReplacedRange
  <2>4. Control(p)' /\ Swept(p)' /\ Found(p)'
    BY <2>1, <1>2 DEF Control, EvictStage, LoggingIn, Replacing, HasLimit, IsConcurrent,
       MaxLoginCount, Swept, Found
  <2>5. Agreed(p)' /\ Staged(p)'
    BY <2>1, <1>2, <2>2 DEF Agreed, Subject, In, Out, Staged, LoggingIn, Replacing
  <2>6. LoggedOut(p)' /\ Listed(p)'
    BY <2>1, <1>2, <2>2 DEF LoggedOut, Agreed, Subject, In, Out, Listed, EvictStage
  <2>7. Replaced(p)' /\ Shared(p)' /\ OneTokenPerDevice'
    BY <2>1, <1>2, <2>3 DEF Replaced, Replacing, IsConcurrent, Shared, LoggingIn,
       IsShare, OneTokenPerDevice
  <2>8. Kept(p)' \subseteq Kept(p)
    BY <2>1, <1>2, <2>3 DEF Kept, EvictStage, Control
  <2>9. Within(p)'
    BY <2>8, <1>2, <1>1, KeptShrinks
  <2> QED BY <2>4, <2>5, <2>6, <2>7, <2>9 DEF SeqStep, SeqParts
<1>4. CASE Probe(p)
  <2>0. Head(probe[p]) \in body
    <3>1. alive[p] \o probe[p] = index /\ pc[p] = "probe" /\ probe[p] # <<>>
      BY <1>4, <1>2 DEF Probe, Listed
    <3>2. Head(probe[p]) \in Range(index) /\ Head(probe[p]) \in Tokens
      BY <1>1, <3>1, MoveHead, RangeType
    <3> QED BY <1>2, <3>1, <3>2 DEF Agreed, Subject, In, Out
  <2>1. /\ pc[p] = "probe"
        /\ probe[p] # <<>>
        /\ pc'[p] = "probe"
        /\ (alive'[p] \o probe'[p] = index)
        /\ UNCHANGED <<body, tokenId, index, session, mapping, device, committed,
                       tok[p], before[p], comp[p], cur[p], mode[p], ident[p], ret[p],
                       local[p], targets[p], evict[p], must[p]>>
    <3>1. /\ pc[p] = "probe" /\ probe[p] # <<>> /\ pc'[p] = "probe"
          /\ alive'[p] = Append(alive[p], Head(probe[p])) /\ probe'[p] = Tail(probe[p])
      BY <1>4, <1>1, <2>0 DEF Probe
    <3>2. alive[p] \o probe[p] = index
      BY <3>1, <1>2 DEF Listed
    <3>3. alive[p] \in Seq(Tokens) /\ probe[p] \in Seq(Tokens)
      BY <1>1
    <3>4. Append(alive[p], Head(probe[p])) \o Tail(probe[p]) = index
      BY <3>1, <3>2, <3>3, MoveHead
    <3> QED BY <1>4, <3>1, <3>4 DEF Probe
  <2>2. Live' = Live /\ ToReplace(p)' = ToReplace(p)
    BY <2>1, <1>1 DEF Live, Usable, Marked, ToReplace, PerDevice, ReplacedRange
  <2>3. Control(p)' /\ Swept(p)' /\ Found(p)'
    BY <2>1, <1>2 DEF Control, EvictStage, LoggingIn, Replacing, HasLimit, IsConcurrent,
       MaxLoginCount, Swept, Found
  <2>4. Agreed(p)' /\ Staged(p)'
    BY <2>1, <1>2 DEF Agreed, Subject, In, Out, Staged, LoggingIn, Replacing
  <2>5. LoggedOut(p)' /\ Listed(p)'
    BY <2>1, <1>2 DEF LoggedOut, Agreed, Subject, In, Out, Listed, EvictStage
  <2>6. Replaced(p)' /\ Shared(p)' /\ OneTokenPerDevice'
    BY <2>1, <1>2, <2>2 DEF Replaced, Replacing, IsConcurrent, Shared, LoggingIn,
       IsShare, OneTokenPerDevice
  <2>7. Kept(p)' \subseteq Kept(p)
    BY <2>1, <1>2, <2>2 DEF Kept, EvictStage, Control
  <2>8. Within(p)'
    BY <2>7, <1>2, <1>1, KeptShrinks
  <2> QED BY <2>3, <2>4, <2>5, <2>6, <2>8 DEF SeqStep, SeqParts
<1>5. CASE PruneDone(p)
  <2>1. /\ pc[p] = "probe"
        /\ probe[p] = <<>>
        /\ pc'[p] = ret[p]
        /\ UNCHANGED <<body, tokenId, index, session, mapping, device, committed,
                       tok[p], before[p], comp[p], cur[p], mode[p], ident[p], ret[p],
                       local[p], targets[p], probe[p], alive[p], evict[p], must[p]>>
    BY <1>5, <1>1 DEF PruneDone
  <2>2. alive[p] = index
    BY <2>1, <1>1, <1>2, EmptyEnds DEF Listed
  <2>3. EvictStage(p)' = EvictStage(p) /\ ~LoggingIn(p) /\ ~LoggingIn(p)' /\ (ret[p] =
       "collect" => tok[p] = NoToken)
    BY <2>1, <1>2 DEF Control, EvictStage, LoggingIn, Replacing
  <2>4. Live' = Live /\ ToReplace(p)' = ToReplace(p)
    BY <2>1, <1>1 DEF Live, Usable, Marked, ToReplace, PerDevice, ReplacedRange
  <2>5. Control(p)' /\ Swept(p)' /\ Found(p)'
    BY <2>1, <1>2, <2>3 DEF Control, EvictStage, LoggingIn, Replacing, HasLimit,
       IsConcurrent, MaxLoginCount, Swept, Found
  <2>6. Agreed(p)' /\ Staged(p)'
    BY <2>1, <1>2, <2>2 DEF Agreed, Subject, In, Out, Staged, LoggingIn, Replacing
  <2>7. LoggedOut(p)' /\ Listed(p)'
    BY <2>1, <1>2, <2>2 DEF LoggedOut, Agreed, Subject, In, Out, Listed, EvictStage
  <2>8. Replaced(p)' /\ Shared(p)' /\ OneTokenPerDevice'
    BY <2>1, <1>2, <2>4 DEF Replaced, Replacing, IsConcurrent, Shared, LoggingIn,
       IsShare, OneTokenPerDevice
  <2>9. Kept(p)' \subseteq Kept(p)
    BY <2>1, <1>2, <2>4 DEF Kept, EvictStage, Control
  <2>10. Within(p)'
    BY <2>9, <1>2, <1>1, KeptShrinks
  <2> QED BY <2>5, <2>6, <2>7, <2>8, <2>10 DEF SeqStep, SeqParts
<1>6. CASE Collect(p)
  <2>1. /\ pc[p] = "collect"
        /\ alive[p] = index
        /\ pc'[p] = (IF alive[p] = <<>> THEN "scan" ELSE "accountNext")
        /\ targets'[p] = Range(index)
        /\ alive'[p] = <<>>
        /\ UNCHANGED <<body, tokenId, index, session, mapping, device, committed,
                       tok[p], before[p], comp[p], cur[p], mode[p], ident[p], ret[p],
                       local[p], probe[p], evict[p], must[p]>>
    BY <1>6, <1>1, <1>2 DEF Collect, Listed
  <2>2. body \subseteq Range(index)
    BY <2>1, <1>2 DEF Agreed, Subject, In, Out
  <2>3. index = <<>> => Range(index) = {}
    BY DEF Range
  <2>4. Live' = Live /\ ToReplace(p)' = ToReplace(p)
    BY <2>1, <1>1 DEF Live, Usable, Marked, ToReplace, PerDevice, ReplacedRange
  <2>5. Control(p)' /\ Swept(p)' /\ Found(p)'
    BY <2>1, <1>2, <2>3, <2>2 DEF Control, EvictStage, LoggingIn, Replacing, HasLimit,
       IsConcurrent, MaxLoginCount, Swept, Found
  <2>6. Agreed(p)' /\ Staged(p)'
    BY <2>1, <1>2, <2>3, <2>2 DEF Agreed, Subject, In, Out, Staged, LoggingIn, Replacing
  <2>7. LoggedOut(p)' /\ Listed(p)'
    BY <2>1, <1>2, <2>3, <2>2 DEF LoggedOut, Agreed, Subject, In, Out, Listed,
       EvictStage
  <2>8. Replaced(p)' /\ Shared(p)' /\ OneTokenPerDevice'
    BY <2>1, <1>2, <2>4 DEF Replaced, Replacing, IsConcurrent, Shared, LoggingIn,
       IsShare, OneTokenPerDevice
  <2>9. Kept(p)' \subseteq Kept(p)
    BY <2>1, <1>2, <2>4 DEF Kept, EvictStage, Control
  <2>10. Within(p)'
    BY <2>9, <1>2, <1>1, KeptShrinks
  <2> QED BY <2>5, <2>6, <2>7, <2>8, <2>10 DEF SeqStep, SeqParts
<1>7. CASE ScanBodies(p)
  <2>1. /\ pc[p] = "scan"
        /\ body = {}
        /\ pc'[p] = "mappingFallback"
        /\ targets'[p] = {}
        /\ UNCHANGED <<body, tokenId, index, session, mapping, device, committed,
                       tok[p], before[p], comp[p], cur[p], mode[p], ident[p], ret[p],
                       local[p], probe[p], alive[p], evict[p], must[p]>>
    BY <1>7, <1>1, <1>2 DEF ScanBodies, Listed
  <2>2. Live' = Live /\ ToReplace(p)' = ToReplace(p)
    BY <2>1, <1>1 DEF Live, Usable, Marked, ToReplace, PerDevice, ReplacedRange
  <2>3. Control(p)' /\ Swept(p)' /\ Found(p)'
    BY <2>1, <1>2 DEF Control, EvictStage, LoggingIn, Replacing, HasLimit, IsConcurrent,
       MaxLoginCount, Swept, Found
  <2>4. Agreed(p)' /\ Staged(p)'
    BY <2>1, <1>2 DEF Agreed, Subject, In, Out, Staged, LoggingIn, Replacing
  <2>5. LoggedOut(p)' /\ Listed(p)'
    BY <2>1, <1>2 DEF LoggedOut, Agreed, Subject, In, Out, Listed, EvictStage
  <2>6. Replaced(p)' /\ Shared(p)' /\ OneTokenPerDevice'
    BY <2>1, <1>2, <2>2 DEF Replaced, Replacing, IsConcurrent, Shared, LoggingIn,
       IsShare, OneTokenPerDevice
  <2>7. Kept(p)' \subseteq Kept(p)
    BY <2>1, <1>2, <2>2 DEF Kept, EvictStage, Control
  <2>8. Within(p)'
    BY <2>7, <1>2, <1>1, KeptShrinks
  <2> QED BY <2>3, <2>4, <2>5, <2>6, <2>8 DEF SeqStep, SeqParts
<1>8. CASE MappingFallback(p)
  <2>1. /\ pc[p] = "mappingFallback"
        /\ body = {}
        /\ pc'[p] = "accountNext"
        /\ UNCHANGED <<body, tokenId, index, session, mapping, device, committed,
                       tok[p], before[p], comp[p], cur[p], mode[p], ident[p], ret[p],
                       local[p], probe[p], alive[p], evict[p], must[p]>>
    BY <1>8, <1>1, <1>2 DEF MappingFallback, Listed
  <2>2. Live' = Live /\ ToReplace(p)' = ToReplace(p)
    BY <2>1, <1>1 DEF Live, Usable, Marked, ToReplace, PerDevice, ReplacedRange
  <2>3. Control(p)' /\ Swept(p)' /\ Found(p)'
    BY <2>1, <1>2 DEF Control, EvictStage, LoggingIn, Replacing, HasLimit, IsConcurrent,
       MaxLoginCount, Swept, Found
  <2>4. Agreed(p)' /\ Staged(p)'
    BY <2>1, <1>2 DEF Agreed, Subject, In, Out, Staged, LoggingIn, Replacing
  <2>5. LoggedOut(p)' /\ Listed(p)'
    BY <2>1, <1>2 DEF LoggedOut, Agreed, Subject, In, Out, Listed, EvictStage
  <2>6. Replaced(p)' /\ Shared(p)' /\ OneTokenPerDevice'
    BY <2>1, <1>2, <2>2 DEF Replaced, Replacing, IsConcurrent, Shared, LoggingIn,
       IsShare, OneTokenPerDevice
  <2>7. Kept(p)' \subseteq Kept(p)
    BY <2>1, <1>2, <2>2 DEF Kept, EvictStage, Control
  <2>8. Within(p)'
    BY <2>7, <1>2, <1>1, KeptShrinks
  <2> QED BY <2>3, <2>4, <2>5, <2>6, <2>8 DEF SeqStep, SeqParts
<1>9. ASSUME NEW t \in Tokens,
             AccountOne(p, t)
      PROVE  SeqStep(p)
  <2>1. /\ pc[p] = "accountNext"
        /\ t \in targets[p]
        /\ pc'[p] = "resolveBody"
        /\ targets'[p] = targets[p] \ {t}
        /\ cur'[p] = t
        /\ ret'[p] = "accountNext"
        /\ UNCHANGED <<body, tokenId, index, session, mapping, device, committed,
                       tok[p], before[p], comp[p], mode[p], local[p], probe[p],
                       alive[p], evict[p], must[p]>>
    BY <1>9, <1>1 DEF AccountOne, StartLogout
  <2>2. tok[p] = NoToken /\ ~EvictStage(p) /\ ~EvictStage(p)' /\ ~LoggingIn(p) /\
       ~LoggingIn(p)'
    BY <2>1, <1>2 DEF Control, EvictStage, LoggingIn, Replacing
  <2>3. Live' = Live /\ ToReplace(p)' = ToReplace(p)
    BY <2>1, <1>1 DEF Live, Usable, Marked, ToReplace, PerDevice, ReplacedRange
  <2>4. Control(p)' /\ Swept(p)' /\ Found(p)'
    BY <2>1, <1>2 DEF Control, EvictStage, LoggingIn, Replacing, HasLimit, IsConcurrent,
       MaxLoginCount, Swept, Found
  <2>5. Agreed(p)' /\ Staged(p)'
    BY <2>1, <1>2 DEF Agreed, Subject, In, Out, Staged, LoggingIn, Replacing
  <2>6. LoggedOut(p)' /\ Listed(p)'
    BY <2>1, <1>2 DEF LoggedOut, Agreed, Subject, In, Out, Listed, EvictStage
  <2>7. Replaced(p)' /\ Shared(p)' /\ OneTokenPerDevice'
    BY <2>1, <1>2, <2>3 DEF Replaced, Replacing, IsConcurrent, Shared, LoggingIn,
       IsShare, OneTokenPerDevice
  <2>8. Kept(p)' \subseteq Kept(p)
    BY <2>1, <1>2, <2>3 DEF Kept, EvictStage, Control
  <2>9. Within(p)'
    BY <2>8, <1>2, <1>1, KeptShrinks
  <2> QED BY <2>4, <2>5, <2>6, <2>7, <2>9 DEF SeqStep, SeqParts
<1>10. CASE AccountDone(p)
  <2>1. /\ pc[p] = "accountNext"
        /\ body = {}
        /\ pc'[p] \in {"dropSession", "return"}
        /\ UNCHANGED <<body, tokenId, index, session, mapping, device, committed,
                       tok[p], before[p], comp[p], cur[p], mode[p], ident[p], ret[p],
                       local[p], targets[p], probe[p], alive[p], evict[p], must[p]>>
    BY <1>10, <1>1, <1>2 DEF AccountDone, Swept, Control, EvictStage, LoggingIn,
       Replacing
  <2>2. Live' = Live /\ ToReplace(p)' = ToReplace(p)
    BY <2>1, <1>1 DEF Live, Usable, Marked, ToReplace, PerDevice, ReplacedRange
  <2>3. Control(p)' /\ Swept(p)' /\ Found(p)'
    BY <2>1, <1>2 DEF Control, EvictStage, LoggingIn, Replacing, HasLimit, IsConcurrent,
       MaxLoginCount, Swept, Found
  <2>4. Agreed(p)' /\ Staged(p)'
    BY <2>1, <1>2 DEF Agreed, Subject, In, Out, Staged, LoggingIn, Replacing
  <2>5. LoggedOut(p)' /\ Listed(p)'
    BY <2>1, <1>2 DEF LoggedOut, Agreed, Subject, In, Out, Listed, EvictStage
  <2>6. Replaced(p)' /\ Shared(p)' /\ OneTokenPerDevice'
    BY <2>1, <1>2, <2>2 DEF Replaced, Replacing, IsConcurrent, Shared, LoggingIn,
       IsShare, OneTokenPerDevice
  <2>7. Kept(p)' \subseteq Kept(p)
    BY <2>1, <1>2, <2>2 DEF Kept, EvictStage, Control
  <2>8. Within(p)'
    BY <2>7, <1>2, <1>1, KeptShrinks
  <2> QED BY <2>3, <2>4, <2>5, <2>6, <2>8 DEF SeqStep, SeqParts
<1>11. CASE DropSession(p)
  <2>1. /\ pc[p] = "dropSession"
        /\ body = {}
        /\ pc'[p] = "return"
        /\ (session'.terminals = {})
        /\ UNCHANGED <<body, tokenId, index, mapping, device, committed, tok[p],
                       before[p], comp[p], cur[p], mode[p], ident[p], ret[p], local[p],
                       targets[p], probe[p], alive[p], evict[p], must[p]>>
    BY <1>11, <1>1, <1>2 DEF DropSession, Swept, NoSession
  <2>2. Live' = Live /\ ToReplace(p)' = ToReplace(p)
    BY <2>1, <1>1 DEF Live, Usable, Marked, ToReplace, PerDevice, ReplacedRange
  <2>3. Control(p)' /\ Swept(p)' /\ Found(p)'
    BY <2>1, <1>2 DEF Control, EvictStage, LoggingIn, Replacing, HasLimit, IsConcurrent,
       MaxLoginCount, Swept, Found
  <2>4. Agreed(p)' /\ Staged(p)'
    BY <2>1, <1>2 DEF Agreed, Subject, In, Out, Staged, LoggingIn, Replacing
  <2>5. LoggedOut(p)' /\ Listed(p)'
    BY <2>1, <1>2 DEF LoggedOut, Agreed, Subject, In, Out, Listed, EvictStage
  <2>6. Replaced(p)' /\ Shared(p)' /\ OneTokenPerDevice'
    BY <2>1, <1>2, <2>2 DEF Replaced, Replacing, IsConcurrent, Shared, LoggingIn,
       IsShare, OneTokenPerDevice
  <2>7. Kept(p)' \subseteq Kept(p)
    BY <2>1, <1>2, <2>2 DEF Kept, EvictStage, Control
  <2>8. Within(p)'
    BY <2>7, <1>2, <1>1, KeptShrinks
  <2> QED BY <2>3, <2>4, <2>5, <2>6, <2>8 DEF SeqStep, SeqParts
<1>12. ASSUME NEW t \in Tokens,
             EvictOne(p, t)
      PROVE  SeqStep(p)
  <2>0. ~(OverflowMode = "Logout" /\ LogoutRange = "Account")
    <3>1. EvictStage(p) /\ HasLimit
      BY <1>12, <1>2 DEF EvictOne, EvictStage, Control
    <3>2. config \in Configs
      BY DEF TypeInv, TypeOK
    <3> QED BY <3>1, <3>2 DEF SequentialConfig, HasLimit, IsConcurrent, MaxLoginCount,
       OverflowMode, LogoutRange
  <2>1. /\ pc[p] = "evictNext"
        /\ t \in evict[p]
        /\ pc'[p] = "resolveBody"
        /\ evict'[p] = evict[p] \ {t}
        /\ cur'[p] = t
        /\ ret'[p] = "evictNext"
        /\ (Range(index') = Range(index) \ {t})
        /\ UNCHANGED <<body, tokenId, session, mapping, device, committed, tok[p],
                       before[p], comp[p], local[p], targets[p], probe[p], alive[p],
                       must[p]>>
    <3>1. Range(Without(index, t)) = Range(index) \ {t}
      BY <1>1, WithoutRange, WithoutKeeps
    <3>2. pc'[p] = "resolveBody"
      BY <1>12, <1>1, <2>0 DEF EvictOne, LogoutEntry
    <3> QED BY <1>12, <1>1, <3>1, <3>2 DEF EvictOne, StartLogout
  <2>2. EvictStage(p) /\ EvictStage(p)' /\ In(tok[p]) /\ tok[p] \in Tokens \ {t} /\
       ~LoggingIn(p)' /\ ~Replacing(p)' /\ IsConcurrent /\ HasLimit
    BY <2>1, <1>2 DEF Control, Listed, EvictStage, LoggingIn, Replacing, HasLimit
  <2>3. Live' = Live /\ ToReplace(p)' = ToReplace(p)
    BY <2>1, <1>1 DEF Live, Usable, Marked, ToReplace, PerDevice, ReplacedRange
  <2>4. Control(p)' /\ Swept(p)' /\ Found(p)'
    BY <2>1, <1>2, <2>2 DEF Control, EvictStage, LoggingIn, Replacing, HasLimit,
       IsConcurrent, MaxLoginCount, Swept, Found
  <2>5. Agreed(p)' /\ Staged(p)'
    BY <2>1, <1>2, <2>2 DEF Agreed, Subject, In, Out, Staged, LoggingIn, Replacing
  <2>6. LoggedOut(p)' /\ Listed(p)'
    BY <2>1, <1>2, <2>2 DEF LoggedOut, Agreed, Subject, In, Out, Listed, EvictStage
  <2>7. Replaced(p)' /\ Shared(p)' /\ OneTokenPerDevice'
    BY <2>1, <1>2, <2>3, <2>2 DEF Replaced, Replacing, IsConcurrent, Shared, LoggingIn,
       IsShare, OneTokenPerDevice
  <2>8. Kept(p)' \subseteq Kept(p)
    BY <2>1, <1>2, <2>3, <2>2 DEF Kept, EvictStage, Control
  <2>9. Within(p)'
    BY <2>8, <1>2, <1>1, KeptShrinks
  <2> QED BY <2>4, <2>5, <2>6, <2>7, <2>9 DEF SeqStep, SeqParts
<1>13. CASE Enforce(p)
  <2>1. /\ pc[p] = "enforce"
        /\ pc'[p] = "evictNext"
        /\ evict'[p] = {index[i] : i \in 1..(Len(index) - MaxLoginCount)}
        /\ UNCHANGED <<body, tokenId, index, session, mapping, device, committed,
                       tok[p], before[p], comp[p], cur[p], mode[p], ident[p], ret[p],
                       local[p], targets[p], probe[p], must[p]>>
    <3>1. pc[p] = "enforce" /\ alive[p] = index
      BY <1>13, <1>2 DEF Enforce, Listed
    <3>2. /\ evict'[p] = {alive[p][i] : i \in 1..(Len(alive[p]) - MaxLoginCount)}
          /\ pc'[p] = "evictNext"
      BY <1>13, <1>1 DEF Enforce
    <3> QED BY <1>13, <3>1, <3>2 DEF Enforce
  <2>2. EvictStage(p) /\ EvictStage(p)' /\ In(tok[p]) /\ ~LoggingIn(p)' /\ HasLimit /\
       index # <<>> /\ Last(index) = tok[p] /\ ~Replacing(p)'
    BY <2>1, <1>2 DEF Control, Listed, EvictStage, LoggingIn, Replacing
  <2>3. MaxLoginCount \in Int /\ MaxLoginCount > 0 /\ MaxLoginCount' = MaxLoginCount /\
       HasLimit'
    BY <1>1, <2>2, ConstantsAssumption DEF TypeInv, TypeOK, Config, MaxLoginCount,
       HasLimit, IsConcurrent
  <2>4. MaxLoginCount > 0 => LET gone == {index[i] : i \in 1..(Len(index) -
       MaxLoginCount)} IN IsFiniteSet(Range(index) \ gone) /\ Cardinality(Range(index) \
       gone) <= MaxLoginCount /\ (NoRepeats(index) /\ index # <<>> => Last(index) \notin
       gone)
    <3>1. index \in Seq(Tokens)
      BY <1>1
    <3>2. MaxLoginCount \in Int
      BY <2>3
    <3> QED BY ONLY <3>1, <3>2, OldestEvicted
  <2>5. IsFiniteSet(Range(index) \ evict'[p]) /\ Cardinality(Range(index) \ evict'[p])
       <= MaxLoginCount /\ Last(index) \notin evict'[p]
    BY <1>1, <2>1, <2>2, <2>3, <2>4
  <2>6. Live' \subseteq Range(index)
    BY <2>1, <1>2 DEF Agreed, Subject, In, Out, Live, Usable, Marked
  <2>7. Kept(p)' \subseteq Range(index) \ evict'[p]
    BY <2>1, <2>2, <2>6 DEF Kept
  <2>8. Live' = Live /\ ToReplace(p)' = ToReplace(p)
    BY <2>1, <1>1 DEF Live, Usable, Marked, ToReplace, PerDevice, ReplacedRange
  <2>9. Control(p)' /\ Swept(p)' /\ Found(p)'
    BY <2>1, <1>2, <2>2 DEF Control, EvictStage, LoggingIn, Replacing, HasLimit,
       IsConcurrent, MaxLoginCount, Swept, Found
  <2>10. Agreed(p)' /\ Staged(p)'
    BY <2>1, <1>2, <2>2, <2>5 DEF Agreed, Subject, In, Out, Staged, LoggingIn, Replacing
  <2>11. LoggedOut(p)' /\ Listed(p)'
    BY <2>1, <1>2, <2>2, <2>5 DEF LoggedOut, Agreed, Subject, In, Out, Listed,
       EvictStage
  <2>12. Replaced(p)' /\ Shared(p)' /\ OneTokenPerDevice'
    BY <2>1, <1>2, <2>8, <2>2 DEF Replaced, Replacing, IsConcurrent, HasLimit, Shared,
       LoggingIn, IsShare, OneTokenPerDevice
  <2>13. Within(p)'
    BY <2>7, <2>5, <2>3, FS_Subset, FS_CardinalityType DEF Within
  <2> QED BY <2>9, <2>10, <2>11, <2>12, <2>13 DEF SeqStep, SeqParts
<1>14. CASE EvictDone(p)
  <2>1. /\ Finish(p) /\ UNCHANGED <<body, tokenId, index, session, mapping, committed, device>>
        /\ pc[p] = "evictNext" /\ evict[p] = {}
    BY <1>14 DEF EvictDone
  <2>2. Live' = Live
    BY <2>1 DEF Live, Usable, Marked
  <2>3. \A t \in Tokens : In(t)' \/ Out(t)'
    BY <2>1, <1>2 DEF Agreed, Subject, In, Out
  <2>4. OneTokenPerDevice'
    BY <2>1, <2>2, <1>2 DEF OneTokenPerDevice, IsConcurrent
  <2>5. Kept(p) = Live /\ (IsShare => Live' \subseteq {mapping'})
    BY <2>1, <2>2, <1>2 DEF Kept, Shared
  <2>6. SeqParts(p)'
    BY <2>1, <2>2, <2>3, <2>5, <1>2, FinishSequential
  <2> QED BY <2>4, <2>6 DEF SeqStep
<1>15. ~Prune(p)
  BY <1>2 DEF Prune, Control
<1> QED
  BY <1>3, <1>4, <1>5, <1>6, <1>7, <1>8, <1>9, <1>10, <1>11, <1>12, <1>13, <1>14, <1>15
     DEF AccountStep

\* The calls, likewise.
LEMMA BeginSequential ==
  ASSUME SequentialConfig, TypeInv, OwnedInv, OneTokenPerDevice, UNCHANGED config,
         NEW p \in Procs, SeqParts(p), Begin(p)
  PROVE  SeqStep(p)
<1> USE DEF store, loginVars, logoutVars, listVars, history, Goto, LoginLabels,
   LogoutLabels, RenewLabels, StageLabels, ShareLabels, PostDelete, PreDelete, ReturnsTo
<1>1. /\ pc \in [Procs -> Labels] /\ tok \in [Procs -> Tokens \cup {NoToken}]
      /\ cur \in [Procs -> Tokens \cup {NoToken}] /\ mode \in [Procs -> LogoutModes]
      /\ ret \in [Procs -> ReturnLabels] /\ must \in [Procs -> SUBSET Tokens]
      /\ device \in [Tokens -> Devices \cup {NoDevice}]
      /\ UNCHANGED config /\ NoToken \notin Tokens /\ committed \subseteq Tokens
  BY ConstantsAssumption DEF TypeInv, TypeOK
<1>2. /\ SeqParts(p) /\ OneTokenPerDevice /\ UNCHANGED config /\ NoToken \notin Tokens
      /\ Live \subseteq committed /\ committed \subseteq used /\ committed \subseteq Tokens
  BY <1>1 DEF OwnedInv, Live
<1> USE DEF SeqParts
<1>3. ASSUME NEW t \in Tokens, NEW d \in Devices \cup {NoDevice},
             Login(p, t, d)
      PROVE  SeqStep(p)
  <2>1. /\ pc[p] = "idle"
        /\ t \notin used
        /\ \A u \in Tokens \ {t} : device'[u] = device[u]
        /\ pc'[p] = (IF IsShare THEN "share" ELSE "before")
        /\ tok'[p] = t
        /\ UNCHANGED <<body, tokenId, index, session, mapping, committed, before[p],
                       comp[p], cur[p], mode[p], ident[p], ret[p], local[p], targets[p],
                       probe[p], alive[p], evict[p], must[p]>>
    BY <1>3, <1>1 DEF Login
  <2>2. Out(t) /\ t \notin committed
    BY <2>1, <1>2 DEF Agreed, Subject, In, Out
  <2>3. tok[p] = NoToken /\ ~EvictStage(p) /\ ~EvictStage(p)'
    BY <2>1, <1>2 DEF Control, EvictStage, LoggingIn, Replacing
  <2>4. Live' = Live
    BY <2>1 DEF Live, Usable, Marked
  <2>5. Control(p)' /\ Swept(p)' /\ Found(p)'
    BY <2>1, <1>2, <2>3 DEF Control, EvictStage, LoggingIn, Replacing, HasLimit,
       IsConcurrent, MaxLoginCount, Swept, Found
  <2>6. Agreed(p)' /\ Staged(p)'
    BY <2>1, <1>2, <2>2, <2>3 DEF Agreed, Subject, In, Out, Staged, LoggingIn, Replacing
  <2>7. LoggedOut(p)' /\ Listed(p)'
    BY <2>1, <1>2, <2>2, <2>3 DEF LoggedOut, Agreed, Subject, In, Out, Listed,
       EvictStage
  <2>8. Replaced(p)' /\ Shared(p)' /\ OneTokenPerDevice'
    BY <2>1, <1>2, <2>4, <2>2, <2>4 DEF Replaced, Replacing, IsConcurrent, Shared,
       LoggingIn, IsShare, OneTokenPerDevice
  <2>9. Kept(p)' \subseteq Kept(p)
    BY <2>1, <1>2, <2>4, <2>4, <2>3 DEF Kept, EvictStage, Control
  <2>10. Within(p)'
    BY <2>9, <1>2, <1>1, KeptShrinks
  <2> QED BY <2>5, <2>6, <2>7, <2>8, <2>10 DEF SeqStep, SeqParts
<1>4. ASSUME NEW t \in Tokens,
             Logout(p, t)
      PROVE  SeqStep(p)
  <2>1. /\ pc[p] = "idle"
        /\ pc'[p] \in {"rangeBody", "resolveBody"}
        /\ cur'[p] = t
        /\ mode'[p] = "Logout"
        /\ ret'[p] = "return"
        /\ UNCHANGED <<body, tokenId, index, session, mapping, device, committed,
                       tok[p], before[p], comp[p], local[p], targets[p], probe[p],
                       alive[p], evict[p], must[p]>>
    BY <1>4, <1>1 DEF Logout, TokenCall, StartLogout, LogoutEntry
  <2>2. tok[p] = NoToken /\ ~EvictStage(p) /\ ~EvictStage(p)' /\ ~LoggingIn(p) /\
       ~LoggingIn(p)'
    BY <2>1, <1>2 DEF Control, EvictStage, LoggingIn, Replacing
  <2>3. Live' = Live /\ ToReplace(p)' = ToReplace(p)
    BY <2>1, <1>1 DEF Live, Usable, Marked, ToReplace, PerDevice, ReplacedRange
  <2>4. Control(p)' /\ Swept(p)' /\ Found(p)'
    BY <2>1, <1>2, <2>2 DEF Control, EvictStage, LoggingIn, Replacing, HasLimit,
       IsConcurrent, MaxLoginCount, Swept, Found
  <2>5. Agreed(p)' /\ Staged(p)'
    BY <2>1, <1>2, <2>2 DEF Agreed, Subject, In, Out, Staged, LoggingIn, Replacing
  <2>6. LoggedOut(p)' /\ Listed(p)'
    BY <2>1, <1>2, <2>2 DEF LoggedOut, Agreed, Subject, In, Out, Listed, EvictStage
  <2>7. Replaced(p)' /\ Shared(p)' /\ OneTokenPerDevice'
    BY <2>1, <1>2, <2>3 DEF Replaced, Replacing, IsConcurrent, Shared, LoggingIn,
       IsShare, OneTokenPerDevice
  <2>8. Kept(p)' \subseteq Kept(p)
    BY <2>1, <1>2, <2>3, <2>2 DEF Kept, EvictStage, Control
  <2>9. Within(p)'
    BY <2>8, <1>2, <1>1, KeptShrinks
  <2> QED BY <2>4, <2>5, <2>6, <2>7, <2>9 DEF SeqStep, SeqParts
<1>5. ASSUME NEW t \in Tokens,
             KickOutByToken(p, t)
      PROVE  SeqStep(p)
  <2>1. /\ pc[p] = "idle"
        /\ pc'[p] = "resolveBody"
        /\ cur'[p] = t
        /\ mode'[p] = "KickOut"
        /\ ret'[p] = "return"
        /\ UNCHANGED <<body, tokenId, index, session, mapping, device, committed,
                       tok[p], before[p], comp[p], local[p], targets[p], probe[p],
                       alive[p], evict[p], must[p]>>
    BY <1>5, <1>1 DEF KickOutByToken, TokenCall, StartLogout
  <2>2. tok[p] = NoToken /\ ~EvictStage(p) /\ ~EvictStage(p)' /\ ~LoggingIn(p) /\
       ~LoggingIn(p)'
    BY <2>1, <1>2 DEF Control, EvictStage, LoggingIn, Replacing
  <2>3. Live' = Live /\ ToReplace(p)' = ToReplace(p)
    BY <2>1, <1>1 DEF Live, Usable, Marked, ToReplace, PerDevice, ReplacedRange
  <2>4. Control(p)' /\ Swept(p)' /\ Found(p)'
    BY <2>1, <1>2, <2>2 DEF Control, EvictStage, LoggingIn, Replacing, HasLimit,
       IsConcurrent, MaxLoginCount, Swept, Found
  <2>5. Agreed(p)' /\ Staged(p)'
    BY <2>1, <1>2, <2>2 DEF Agreed, Subject, In, Out, Staged, LoggingIn, Replacing
  <2>6. LoggedOut(p)' /\ Listed(p)'
    BY <2>1, <1>2, <2>2 DEF LoggedOut, Agreed, Subject, In, Out, Listed, EvictStage
  <2>7. Replaced(p)' /\ Shared(p)' /\ OneTokenPerDevice'
    BY <2>1, <1>2, <2>3 DEF Replaced, Replacing, IsConcurrent, Shared, LoggingIn,
       IsShare, OneTokenPerDevice
  <2>8. Kept(p)' \subseteq Kept(p)
    BY <2>1, <1>2, <2>3, <2>2 DEF Kept, EvictStage, Control
  <2>9. Within(p)'
    BY <2>8, <1>2, <1>1, KeptShrinks
  <2> QED BY <2>4, <2>5, <2>6, <2>7, <2>9 DEF SeqStep, SeqParts
<1>6. ASSUME NEW t \in Tokens,
             ReplacedByToken(p, t)
      PROVE  SeqStep(p)
  <2>1. /\ pc[p] = "idle"
        /\ pc'[p] = "resolveBody"
        /\ cur'[p] = t
        /\ mode'[p] = "Replaced"
        /\ ret'[p] = "return"
        /\ UNCHANGED <<body, tokenId, index, session, mapping, device, committed,
                       tok[p], before[p], comp[p], local[p], targets[p], probe[p],
                       alive[p], evict[p], must[p]>>
    BY <1>6, <1>1 DEF ReplacedByToken, TokenCall, StartLogout
  <2>2. tok[p] = NoToken /\ ~EvictStage(p) /\ ~EvictStage(p)' /\ ~LoggingIn(p) /\
       ~LoggingIn(p)'
    BY <2>1, <1>2 DEF Control, EvictStage, LoggingIn, Replacing
  <2>3. Live' = Live /\ ToReplace(p)' = ToReplace(p)
    BY <2>1, <1>1 DEF Live, Usable, Marked, ToReplace, PerDevice, ReplacedRange
  <2>4. Control(p)' /\ Swept(p)' /\ Found(p)'
    BY <2>1, <1>2, <2>2 DEF Control, EvictStage, LoggingIn, Replacing, HasLimit,
       IsConcurrent, MaxLoginCount, Swept, Found
  <2>5. Agreed(p)' /\ Staged(p)'
    BY <2>1, <1>2, <2>2 DEF Agreed, Subject, In, Out, Staged, LoggingIn, Replacing
  <2>6. LoggedOut(p)' /\ Listed(p)'
    BY <2>1, <1>2, <2>2 DEF LoggedOut, Agreed, Subject, In, Out, Listed, EvictStage
  <2>7. Replaced(p)' /\ Shared(p)' /\ OneTokenPerDevice'
    BY <2>1, <1>2, <2>3 DEF Replaced, Replacing, IsConcurrent, Shared, LoggingIn,
       IsShare, OneTokenPerDevice
  <2>8. Kept(p)' \subseteq Kept(p)
    BY <2>1, <1>2, <2>3, <2>2 DEF Kept, EvictStage, Control
  <2>9. Within(p)'
    BY <2>8, <1>2, <1>1, KeptShrinks
  <2> QED BY <2>4, <2>5, <2>6, <2>7, <2>9 DEF SeqStep, SeqParts
<1>7. CASE LogoutByLoginId(p)
  <2>1. /\ pc[p] = "idle"
        /\ pc'[p] = "listIndex"
        /\ ret'[p] = "collect"
        /\ must'[p] = Live
        /\ UNCHANGED <<body, tokenId, index, session, mapping, device, committed,
                       tok[p], before[p], comp[p], cur[p], ident[p], local[p],
                       targets[p], probe[p], alive[p], evict[p]>>
    BY <1>7, <1>1 DEF LogoutByLoginId, AccountCall, CollectInto
  <2>2. tok[p] = NoToken /\ ~EvictStage(p) /\ ~EvictStage(p)' /\ ~LoggingIn(p) /\
       ~LoggingIn(p)'
    BY <2>1, <1>2 DEF Control, EvictStage, LoggingIn, Replacing
  <2>3. Live' = Live /\ ToReplace(p)' = ToReplace(p)
    BY <2>1, <1>1 DEF Live, Usable, Marked, ToReplace, PerDevice, ReplacedRange
  <2>4. Control(p)' /\ Swept(p)' /\ Found(p)'
    BY <2>1, <1>2, <2>2 DEF Control, EvictStage, LoggingIn, Replacing, HasLimit,
       IsConcurrent, MaxLoginCount, Swept, Found
  <2>5. Agreed(p)' /\ Staged(p)'
    BY <2>1, <1>2, <2>2 DEF Agreed, Subject, In, Out, Staged, LoggingIn, Replacing
  <2>6. LoggedOut(p)' /\ Listed(p)'
    BY <2>1, <1>2, <2>2 DEF LoggedOut, Agreed, Subject, In, Out, Listed, EvictStage
  <2>7. Replaced(p)' /\ Shared(p)' /\ OneTokenPerDevice'
    BY <2>1, <1>2, <2>3 DEF Replaced, Replacing, IsConcurrent, Shared, LoggingIn,
       IsShare, OneTokenPerDevice
  <2>8. Kept(p)' \subseteq Kept(p)
    BY <2>1, <1>2, <2>3, <2>2 DEF Kept, EvictStage, Control
  <2>9. Within(p)'
    BY <2>8, <1>2, <1>1, KeptShrinks
  <2> QED BY <2>4, <2>5, <2>6, <2>7, <2>9 DEF SeqStep, SeqParts
<1>8. CASE KickOut(p)
  <2>1. /\ pc[p] = "idle"
        /\ pc'[p] = "listIndex"
        /\ ret'[p] = "collect"
        /\ must'[p] = Live
        /\ UNCHANGED <<body, tokenId, index, session, mapping, device, committed,
                       tok[p], before[p], comp[p], cur[p], ident[p], local[p],
                       targets[p], probe[p], alive[p], evict[p]>>
    BY <1>8, <1>1 DEF KickOut, AccountCall, CollectInto
  <2>2. tok[p] = NoToken /\ ~EvictStage(p) /\ ~EvictStage(p)' /\ ~LoggingIn(p) /\
       ~LoggingIn(p)'
    BY <2>1, <1>2 DEF Control, EvictStage, LoggingIn, Replacing
  <2>3. Live' = Live /\ ToReplace(p)' = ToReplace(p)
    BY <2>1, <1>1 DEF Live, Usable, Marked, ToReplace, PerDevice, ReplacedRange
  <2>4. Control(p)' /\ Swept(p)' /\ Found(p)'
    BY <2>1, <1>2, <2>2 DEF Control, EvictStage, LoggingIn, Replacing, HasLimit,
       IsConcurrent, MaxLoginCount, Swept, Found
  <2>5. Agreed(p)' /\ Staged(p)'
    BY <2>1, <1>2, <2>2 DEF Agreed, Subject, In, Out, Staged, LoggingIn, Replacing
  <2>6. LoggedOut(p)' /\ Listed(p)'
    BY <2>1, <1>2, <2>2 DEF LoggedOut, Agreed, Subject, In, Out, Listed, EvictStage
  <2>7. Replaced(p)' /\ Shared(p)' /\ OneTokenPerDevice'
    BY <2>1, <1>2, <2>3 DEF Replaced, Replacing, IsConcurrent, Shared, LoggingIn,
       IsShare, OneTokenPerDevice
  <2>8. Kept(p)' \subseteq Kept(p)
    BY <2>1, <1>2, <2>3, <2>2 DEF Kept, EvictStage, Control
  <2>9. Within(p)'
    BY <2>8, <1>2, <1>1, KeptShrinks
  <2> QED BY <2>4, <2>5, <2>6, <2>7, <2>9 DEF SeqStep, SeqParts
<1>9. ASSUME NEW t \in Tokens PROVE ~Renew(p, t)
  BY DEF Renew, SequentialConfig
<1> QED
  BY <1>3, <1>4, <1>5, <1>6, <1>7, <1>8, <1>9 DEF Begin

\* A task that returns.
LEMMA ReturnSequential ==
  ASSUME TypeInv, OwnedInv, OneTokenPerDevice, UNCHANGED config, NEW p \in Procs,
         SeqParts(p), Return(p)
  PROVE  SeqStep(p)
<1>1. /\ Finish(p) /\ UNCHANGED <<body, tokenId, index, session, mapping, committed, device>>
      /\ pc[p] = "return"
  BY DEF Return, store
<1>2. Live' = Live
  BY <1>1 DEF Live, Usable, Marked
<1>3. \A t \in Tokens : In(t)' \/ Out(t)'
  BY <1>1 DEF SeqParts, Agreed, Subject, In, Out, LogoutLabels, StageLabels
<1>4. OneTokenPerDevice'
  BY <1>1, <1>2 DEF OneTokenPerDevice, IsConcurrent
<1>5. Kept(p) = Live /\ (IsShare => Live' \subseteq {mapping'})
  BY <1>1, <1>2 DEF Kept, EvictStage, SeqParts, Shared, LogoutLabels
<1>6. SeqParts(p)'
  BY <1>1, <1>2, <1>3, <1>5, FinishSequential
<1> QED BY <1>4, <1>6 DEF SeqStep

\* The one storage error SequentialConfig leaves: an entry that cannot be probed is kept,
\* as it would have been.
LEMMA ProbeFaultSequential ==
  ASSUME TypeInv, OwnedInv, OneTokenPerDevice, UNCHANGED config, NEW p \in Procs,
         SeqParts(p), ProbeFault(p)
  PROVE  SeqStep(p)
<1> USE DEF store, loginVars, logoutVars, listVars, history, Goto, LoginLabels,
   LogoutLabels, RenewLabels, StageLabels, ShareLabels, PostDelete, PreDelete, ReturnsTo
<1>1. /\ pc \in [Procs -> Labels] /\ ret \in [Procs -> ReturnLabels]
      /\ probe \in [Procs -> Seq(Tokens)] /\ alive \in [Procs -> Seq(Tokens)]
      /\ UNCHANGED config
  BY DEF TypeInv, TypeOK
<1>2. SeqParts(p) /\ OneTokenPerDevice /\ UNCHANGED config
  OBVIOUS
<1> USE DEF SeqParts
<1>3. CASE ProbeFault(p)
  <2>1. /\ pc[p] = "probe"
        /\ pc'[p] = "probe"
        /\ (alive'[p] \o probe'[p] = index)
        /\ UNCHANGED <<body, tokenId, index, session, mapping, device, committed,
                       tok[p], before[p], comp[p], cur[p], mode[p], ident[p], ret[p],
                       local[p], targets[p], evict[p], must[p]>>
    <3>1. /\ pc[p] = "probe" /\ probe[p] # <<>> /\ pc'[p] = "probe"
          /\ alive'[p] = Append(alive[p], Head(probe[p])) /\ probe'[p] = Tail(probe[p])
      BY <1>3, <1>1 DEF ProbeFault
    <3>2. alive[p] \o probe[p] = index
      BY <3>1, <1>2 DEF Listed
    <3>3. alive[p] \in Seq(Tokens) /\ probe[p] \in Seq(Tokens)
      BY <1>1
    <3>4. Append(alive[p], Head(probe[p])) \o Tail(probe[p]) = index
      BY <3>1, <3>2, <3>3, MoveHead
    <3> QED BY <1>3, <3>1, <3>4 DEF ProbeFault
  <2>2. Live' = Live /\ ToReplace(p)' = ToReplace(p)
    BY <2>1, <1>1 DEF Live, Usable, Marked, ToReplace, PerDevice, ReplacedRange
  <2>3. Control(p)' /\ Swept(p)' /\ Found(p)'
    BY <2>1, <1>2 DEF Control, EvictStage, LoggingIn, Replacing, HasLimit, IsConcurrent,
       MaxLoginCount, Swept, Found
  <2>4. Agreed(p)' /\ Staged(p)'
    BY <2>1, <1>2 DEF Agreed, Subject, In, Out, Staged, LoggingIn, Replacing
  <2>5. LoggedOut(p)' /\ Listed(p)'
    BY <2>1, <1>2 DEF LoggedOut, Agreed, Subject, In, Out, Listed, EvictStage
  <2>6. Replaced(p)' /\ Shared(p)' /\ OneTokenPerDevice'
    BY <2>1, <1>2, <2>2 DEF Replaced, Replacing, IsConcurrent, Shared, LoggingIn,
       IsShare, OneTokenPerDevice
  <2>7. Kept(p)' \subseteq Kept(p)
    BY <2>1, <1>2, <2>2 DEF Kept, EvictStage, Control
  <2>8. Within(p)'
    BY <2>7, <1>2, <1>1, KeptShrinks
  <2> QED BY <2>3, <2>4, <2>5, <2>6, <2>8 DEF SeqStep, SeqParts
<1> QED BY <1>3

-----------------------------------------------------------------------------
(***************************************************************************)
(* The invariant and the theorems                                          *)
(***************************************************************************)

\* Nothing else happens: no renewal, no other storage error, no dropped task.
LEMMA StepSequential ==
  ASSUME SequentialConfig
  PROVE  TypeInv /\ OwnedInv /\ RollbackInv /\ SequentialInv /\ [Next]_vars
           => SequentialInv'
<1> SUFFICES ASSUME TypeInv, OwnedInv, RollbackInv, SequentialInv, [Next]_vars
             PROVE  SequentialInv'
  OBVIOUS
<1>1. OneTokenPerDevice /\ \A p \in Procs : SeqParts(p)
  BY DEF SequentialInv, SeqParts
<1>2. CASE UNCHANGED vars
  <2> USE <1>2 DEF vars, store, loginVars, logoutVars, listVars, history, LoggingIn, Replacing,
     EvictStage, In, Out
  <2>1. /\ Live' = Live /\ OneTokenPerDevice' = OneTokenPerDevice /\ HasLimit' = HasLimit
        /\ MaxLoginCount' = MaxLoginCount
    BY DEF Live, Usable, Marked, OneTokenPerDevice, HasLimit, IsConcurrent, MaxLoginCount
  <2>2. ASSUME NEW p \in Procs
        PROVE  SeqParts(p)'
    <3>1. Control(p)' /\ Agreed(p)' /\ Staged(p)' /\ LoggedOut(p)'
      BY <1>1, <2>1 DEF SeqParts, Control, Agreed, Subject, Staged, LoggedOut
    <3>2. Listed(p)' /\ Swept(p)' /\ Found(p)'
      BY <1>1 DEF SeqParts, Listed, Swept, Found
    <3>3. Kept(p)' = Kept(p) /\ ToReplace(p)' = ToReplace(p)
      BY <2>1 DEF Kept, ToReplace, PerDevice, ReplacedRange
    <3>4. Replaced(p)' /\ Within(p)' /\ Shared(p)'
      BY <1>1, <2>1, <3>3 DEF SeqParts, Replaced, Within, Shared, IsConcurrent, IsShare,
         Marked
    <3> QED BY <3>1, <3>2, <3>4 DEF SeqParts
  <2> QED BY <1>1, <2>1, <2>2 DEF SequentialInv, SeqParts
<1>3. ASSUME NEW p \in Procs, Begin(p) \/ Step(p) \/ Disturb(p), UNCHANGED config
      PROVE  SequentialInv'
  <2>1. SeqParts(p) /\ OneTokenPerDevice
    BY <1>1
  <2>2. ~RenewStep(p)
    BY <2>1 DEF SeqParts, Control, RenewStep, RenewCheckMark, RenewReadBody,
       RenewWriteBody,
       RenewLabels
  <2>3. Disturb(p) => ProbeFault(p)
    BY DEF SequentialConfig, Disturb, Fault, UndoFault, PruneFault, Crash, LoginAborts,
       LogoutAborts, RenewLabels
  <2>4. SeqStep(p)
    BY <1>3, <2>1, <2>2, <2>3, BeginSequential, LoginSequential, LogoutSequential,
       AccountSequential, ReturnSequential, ProbeFaultSequential DEF Step
  <2>5. \A q \in Procs : q = p
    BY DEF SequentialConfig
  <2> QED BY <2>4, <2>5 DEF SeqStep, SequentialInv, SeqParts
<1> QED BY <1>2, <1>3 DEF Next

\* Nothing is logged in at first.
LEMMA InitSequential == Init => SequentialInv
<1> SUFFICES ASSUME Init PROVE SequentialInv
  OBVIOUS
<1>1. Live = {} /\ Range(index) = {}
  BY DEF Init, Live, Range
<1>2. ASSUME NEW p \in Procs
      PROVE  SeqParts(p)
  <2> USE DEF LoginLabels, LogoutLabels, RenewLabels, StageLabels, ShareLabels, PostDelete,
     PreDelete
  <2>1. /\ pc[p] = "idle" /\ tok[p] = NoToken /\ comp[p] = <<>> /\ must[p] = {}
        /\ config \in Configs
    BY DEF Init
  <2>2. ~EvictStage(p) /\ ~LoggingIn(p) /\ ~Replacing(p)
    BY <2>1 DEF EvictStage, LoggingIn, Replacing
  <2>3. Control(p) /\ Staged(p) /\ LoggedOut(p) /\ Listed(p)
    BY <2>1, <2>2 DEF Control, Staged, LoggedOut, Listed
  <2>4. Agreed(p)
    BY <1>1 DEF Init, NoSession, Agreed, Out
  <2>5. Swept(p) /\ Found(p) /\ Replaced(p)
    BY <2>1, <2>2 DEF Swept, Found, Replaced
  <2>6. Within(p)
    <3>1. Kept(p) = {}
      BY <1>1 DEF Kept
    <3>2. MaxLoginCount \in Int
      BY <2>1, ConstantsAssumption DEF MaxLoginCount, Config
    <3> QED BY <3>1, <3>2, FS_EmptySet DEF Within, HasLimit
  <2>7. Shared(p)
    BY <1>1, <2>1, <2>2 DEF Shared
  <2> QED BY <2>3, <2>4, <2>5, <2>6, <2>7 DEF SeqParts
<1>3. OneTokenPerDevice
  BY <1>1 DEF OneTokenPerDevice
<1> QED BY <1>2, <1>3 DEF SequentialInv, SeqParts

\* The invariant of one call at a time.
SeqInv == TypeInv /\ OwnedInv /\ RollbackInv /\ SequentialInv

\* It is inductive, with the type, ownership and rollback invariants.
LEMMA SequentialInvariant ==
  ASSUME SequentialConfig
  PROVE  /\ Init => SeqInv
         /\ SeqInv /\ [Next]_vars => SeqInv'
<1>1. Init => SeqInv
  BY InitType, InitOwned, InitRollback, InitSequential DEF SeqInv
<1>2. "rollback" \notin MayFail
  BY DEF SequentialConfig
<1>3. SeqInv /\ [Next]_vars => SeqInv'
  BY <1>2, TypeStep, StepOwned, StepRollback, StepSequential DEF SeqInv
<1> QED BY <1>1, <1>3

\* The one task is idle when no call is in progress.
LEMMA QuietParts ==
  ASSUME SequentialConfig, SeqInv, Quiet
  PROVE  \E p \in Procs : SeqParts(p) /\ pc[p] = "idle" /\ Kept(p) = Live
<1>1. PICK p \in Procs : SeqParts(p) /\ pc[p] = "idle"
  BY DEF SequentialConfig, SeqInv, SequentialInv, SeqParts, Quiet
<1>2. Kept(p) = Live
  BY <1>1 DEF Kept, EvictStage, LogoutLabels
<1> QED BY <1>1, <1>2

\* Every token is then in or out.
LEMMA QuietAgrees ==
  ASSUME SequentialConfig, SeqInv
  PROVE  QuietAgreement
<1> SUFFICES ASSUME Quiet
             PROVE  Live = Range(index) /\ Live = session.terminals
  BY DEF QuietAgreement
<1>1. PICK p \in Procs : SeqParts(p) /\ pc[p] = "idle"
  BY QuietParts
<1>2. \A t \in Tokens : In(t) \/ Out(t)
  BY <1>1 DEF SeqParts, Agreed, Subject, LogoutLabels, StageLabels
<1>3. /\ Live \subseteq Tokens /\ Range(index) \subseteq Tokens
      /\ session.terminals \subseteq Tokens
  BY RangeType DEF SeqInv, TypeInv, TypeOK, Live, SessionType
<1>4. \A t \in Tokens : /\ t \in Live <=> t \in Range(index)
                        /\ t \in Live <=> t \in session.terminals
  BY <1>2 DEF In, Out, Live, Usable, Marked
<1> QED BY <1>3, <1>4

\* And the login policy holds.
LEMMA LimitsKept ==
  ASSUME SequentialConfig, SeqInv
  PROVE  LoginLimits
<1>1. OneTokenPerDevice
  BY DEF SeqInv, SequentialInv
<1>2. ShareOneToken
  <2> SUFFICES ASSUME Quiet, IsShare PROVE Cardinality(Live) <= 1
    BY DEF ShareOneToken
  <2>1. Live \subseteq {mapping}
    BY QuietParts DEF SeqParts, Shared
  <2>2. /\ IsFiniteSet({mapping}) /\ Cardinality({mapping}) = 1
    BY FS_Singleton
  <2>3. Cardinality(Live) <= Cardinality({mapping}) /\ IsFiniteSet(Live)
    BY <2>1, <2>2, FS_Subset
  <2> QED BY <2>2, <2>3
<1>3. MaxLoginRespected
  BY QuietParts DEF MaxLoginRespected, SeqParts, Within, HasLimit
<1> QED BY <1>1, <1>2, <1>3 DEF LoginLimits

\* For one task at a time and any number of tokens and devices: with no call in progress
\* the index, the Account-Session and the live tokens agree, and the login policy holds:
\* one live token per device type, or for a sharing account, or at most max_login_count
\* after enforce_max_login_count has evicted the oldest.
THEOREM SequentialCorrect ==
  ASSUME SequentialConfig
  PROVE  Spec => [](QuietAgreement /\ LoginLimits)
<1>1. SeqInv => QuietAgreement /\ LoginLimits
  BY QuietAgrees, LimitsKept
<1> QED BY <1>1, SequentialInvariant, PTL DEF Spec

\* How a call ends: its task finishes, at the label where the code returns.
LEMMA CallEnds ==
  ASSUME SequentialConfig, SeqInv, [Next]_vars, NEW p \in Procs, pc[p] # "idle",
         pc'[p] = "idle"
  PROVE  \/ CheckShareBody(p) \/ CommitConcurrent(p) \/ CommitCas(p)
         \/ RolledBack(p) \/ EvictDone(p) \/ Return(p)
<1>1. /\ pc \in [Procs -> Labels] /\ ret \in [Procs -> ReturnLabels] /\ SeqParts(p)
      /\ pc[p] \in {"listIndex", "probe"} => ret[p] \in {"enforce", "collect"}
  BY DEF SeqInv, SequentialInv, SeqParts, TypeInv, TypeOK, Holding
<1>2. PICK q \in Procs : Begin(q) \/ Step(q) \/ Disturb(q)
  BY DEF Next, vars
<1>3. Begin(p) \/ Step(p) \/ Disturb(p)
  BY <1>2 DEF SequentialConfig
<1>4. ~Begin(p)
  BY DEF Begin, Login, Logout, KickOutByToken, ReplacedByToken, TokenCall, Renew,
     LogoutByLoginId, KickOut, AccountCall
<1>5. Disturb(p) => ProbeFault(p)
  BY DEF SequentialConfig, Disturb, Fault, UndoFault, PruneFault, Crash, LoginAborts,
     LogoutAborts, RenewLabels
<1> USE DEF Goto, ReturnLabels
<1>6. ~(CommitAbsent(p) \/ Prune(p) \/ RenewStep(p) \/ ProbeFault(p))
  BY <1>1 DEF SeqParts, Control, CommitAbsent, Prune, RenewStep, RenewCheckMark,
     RenewReadBody, RenewWriteBody, RenewLabels, ProbeFault
<1>7. ~(\/ ReadShare(p) \/ CheckShareMark(p) \/ ReadBefore(p) \/ ListTerminals(p)
        \/ ListTokens(p) \/ AddMappingTarget(p) \/ \E t \in Tokens : ReplaceOne(p, t)
        \/ ReplaceDone(p) \/ AppendIndex(p) \/ Snapshot(p) \/ ReadSession(p)
        \/ SaveSession(p) \/ SaveTokenId(p) \/ SaveBody(p) \/ CasRefused(p) \/ CasLost(p)
        \/ Rollback(p))
  BY <1>1 DEF ReadShare, CheckShareMark, ReadBefore, ListTerminals, ListTokens,
     AddMappingTarget, Replace, ReplaceOne, ReplaceDone, AppendIndex, Snapshot,
     ReadSession, SaveSession, SaveTokenId, SaveBody, CasRefused, CasLost, Rollback
<1>8. ~LogoutStep(p)
  BY <1>1 DEF LogoutStep, RangeBody, RangeId, CollectInto, ResolveBody, ResolveId,
     DeleteBody, Mark, RemoveIndex, ReadTerminals, SaveTerminals, CountTerminals,
     DeleteSession, CasDelete, AfterTerminals
<1>9. AccountStep(p) => EvictDone(p)
  BY <1>1, <1>6 DEF AccountStep, ListIndex, Probe, PruneDone, Enforce, EvictOne,
     LogoutEntry,
     Collect, ScanBodies, MappingFallback, AccountOne, AccountDone, DropSession
<1> QED BY <1>3, <1>4, <1>5, <1>6, <1>7, <1>8, <1>9 DEF Step, LoginStep

\* An account-wide call that returns has every body deleted, of the tokens that were live
\* when it started and of any other.
LEMMA SweptAway ==
  ASSUME SequentialConfig, SeqInv, [Next]_vars, NEW p \in Procs, pc[p] # "idle",
         pc'[p] = "idle"
  PROVE  must[p] \cap Live' = {}
<1>1. SeqParts(p)
  BY DEF SeqInv, SequentialInv, SeqParts
<1>2. CASE Return(p)
  <2>1. pc[p] = "return" /\ body' = body
    BY <1>2 DEF Return, store
  <2>2. must[p] = {} \/ body' = {}
    BY <1>1, <2>1 DEF SeqParts, Swept, LogoutLabels
  <2> QED BY <2>2 DEF Live, Usable
<1>3. CASE ~Return(p)
  <2>1. pc[p] \in {"shareBody", "cas", "rollback", "evictNext"}
    BY <1>3, CallEnds DEF CheckShareBody, CommitConcurrent, CommitCas, RolledBack,
       EvictDone
  <2>2. must[p] = {}
    BY <1>1, <2>1 DEF SeqParts, Swept, LogoutLabels
  <2> QED BY <2>2
<1> QED BY <1>2, <1>3

\* A login that returns its token has it in everywhere: this step committed it, or it was
\* committed before and is not among the tokens evicted since.
LEMMA ReturnsLive ==
  ASSUME SequentialConfig, SeqInv, [Next]_vars, NEW p \in Procs, pc[p] # "idle",
         pc'[p] = "idle", tok[p] \in committed'
  PROVE  tok[p] \in Live'
<1>1. SeqParts(p) /\ NoToken \notin Tokens /\ committed \subseteq Tokens
  BY ConstantsAssumption DEF SeqInv, SequentialInv, SeqParts, TypeInv, TypeOK
<1>2. LoggingIn(p) => tok[p] \notin committed
  BY DEF SeqInv, OwnedInv
<1>3. CASE CheckShareBody(p) \/ RolledBack(p)
  BY <1>2, <1>3 DEF CheckShareBody, RolledBack, LoggingIn, LoginLabels
<1>4. CASE Return(p)
  <2>1. pc[p] = "return" /\ committed' = committed
    BY <1>4 DEF Return
  <2>2. tok[p] = NoToken
    BY <1>1, <2>1 DEF SeqParts, Control, LoggingIn, Replacing, EvictStage, LoginLabels,
       LogoutLabels
  <2> QED BY <1>1, <2>1, <2>2
<1>5. CASE EvictDone(p)
  <2>1. pc[p] = "evictNext" /\ UNCHANGED <<body, tokenId, committed>>
    BY <1>5 DEF EvictDone, store
  <2>2. In(tok[p])
    BY <1>1, <2>1 DEF SeqParts, Listed, EvictStage
  <2> QED BY <2>1, <2>2 DEF In, Live, Usable, Marked
<1>6. CASE CommitConcurrent(p) \/ CommitCas(p)
  <2>1. pc[p] = "cas" /\ UNCHANGED <<body, tokenId>>
    BY <1>6 DEF CommitConcurrent, CommitCas, Commit
  <2>2. tok[p] \in body /\ tokenId[tok[p]] = "identity"
    BY <1>1, <2>1 DEF SeqParts, Staged, StageLabels
  <2> QED BY <2>1, <2>2 DEF Live, Usable, Marked
<1> QED BY <1>3, <1>4, <1>5, <1>6, CallEnds

\* One call at a time, an account-wide logout or kick-out leaves none of the tokens live
\* that were when it started, and a login returns a token that is.
THEOREM CallsCorrect ==
  ASSUME SequentialConfig
  PROVE  Spec => AccountCallComplete /\ LoginReturnsLive
<1>1. SeqInv /\ [Next]_vars =>
        [\A p \in Procs : pc[p] # "idle" /\ pc'[p] = "idle" => must[p] \cap Live' = {}]_vars
  BY SweptAway
<1>2. SeqInv /\ [Next]_vars =>
        [\A p \in Procs :
           pc[p] # "idle" /\ pc'[p] = "idle" /\ tok[p] \in committed'
             => tok[p] \in Live']_vars
  BY ReturnsLive
<1> QED BY <1>1, <1>2, SequentialInvariant, PTL
       DEF Spec, AccountCallComplete, LoginReturnsLive

=============================================================================
