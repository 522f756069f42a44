---------------------------- MODULE ServiceProofs ----------------------------
(***************************************************************************)
(* Services a request passes through, for any number of requests: the path *)
(* gate and the request context, the permission matcher, the event bus, the*)
(* storage back ends, and the keys things are stored under.                *)
(***************************************************************************)
EXTENDS RequestContext, Permissions, EventBus, Backends, Keys, TLAPS, SequenceTheorems,
        WellFoundedInduction

-----------------------------------------------------------------------------
(***************************************************************************)
(* Paths and patterns, and the context of a request: the matcher of the    *)
(* code and the documented meaning agree on every path on which no pattern *)
(* is stretched, and the context is set for the request that reads it.     *)
(***************************************************************************)
\* Behind the prefix of a "one" pattern the paths have no empty segment, and every
\* segment is one word.
Regular ==
  \A path \in Paths : \A r \in Rules : \A p \in r.include \cup r.exclude :
    p.kind = "one" /\ IsPrefix(p.path, path) =>
      \A i \in (Len(p.path) + 1)..(Len(path) - 1) : (path[i] = "/") # (path[i+1] = "/")

\* The context belongs to the task that runs the handler.
Scoped == \A l \in Layers : l.binds = "task"

\* IsPrefix, element by element.
LEMMA PrefixElements ==
  ASSUME NEW S, NEW s \in Seq(S), NEW t \in Seq(S)
  PROVE  IsPrefix(s, t) <=> Len(s) <= Len(t) /\ \A i \in 1..Len(s) : s[i] = t[i]
<1>1. /\ Len(s) \in Nat /\ Len(t) \in Nat
      /\ SubSeq(s, 1, Len(s)) = s
  OBVIOUS
<1>2. ASSUME Len(s) <= Len(t)
      PROVE  SubSeq(t, 1, Len(s)) = s <=> \A i \in 1..Len(s) : s[i] = t[i]
  <2>1. /\ SubSeq(t, 1, Len(s)) \in Seq(S) /\ Len(SubSeq(t, 1, Len(s))) = Len(s)
        /\ \A i \in 1..Len(s) : SubSeq(t, 1, Len(s))[i] = t[i]
    BY <1>1, <1>2, SubSeqProperties
  <2> HIDE DEF IsPrefix
  <2>2. ASSUME \A i \in 1..Len(s) : s[i] = t[i]
        PROVE  SubSeq(t, 1, Len(s)) = s
    <3> DEFINE u == SubSeq(t, 1, Len(s))
    <3>1. u \in Seq(S) /\ Len(u) = Len(s) /\ \A i \in 1..Len(s) : u[i] = s[i]
      BY <2>1, <2>2
    <3> HIDE DEF u
    <3>2. u = s
      BY <3>1, SeqEqual
    <3> QED BY <3>2 DEF u
  <2> QED BY <2>1, <2>2
<1> QED BY <1>1, <1>2 DEF IsPrefix

\* IsSuffix, element by element.
LEMMA SuffixElements ==
  ASSUME NEW S, NEW s \in Seq(S), NEW t \in Seq(S)
  PROVE  IsSuffix(s, t) <=>
           Len(s) <= Len(t) /\ \A i \in 1..Len(s) : s[i] = t[Len(t) - Len(s) + i]
<1>1. /\ Reverse(s) \in Seq(S) /\ Len(Reverse(s)) = Len(s)
      /\ \A i \in 1..Len(s) : Reverse(s)[i] = s[Len(s) - i + 1]
  BY DEF Reverse
<1>2. /\ Reverse(t) \in Seq(S) /\ Len(Reverse(t)) = Len(t)
      /\ \A i \in 1..Len(t) : Reverse(t)[i] = t[Len(t) - i + 1]
  BY DEF Reverse
<1>3. IsSuffix(s, t) <=>
        Len(s) <= Len(t) /\ \A i \in 1..Len(s) : Reverse(s)[i] = Reverse(t)[i]
  BY <1>1, <1>2, PrefixElements DEF IsSuffix
<1>4. Len(s) \in Nat /\ Len(t) \in Nat
  OBVIOUS
<1>5. ASSUME Len(s) <= Len(t)
      PROVE  (\A i \in 1..Len(s) : Reverse(s)[i] = Reverse(t)[i])
               <=> \A i \in 1..Len(s) : s[i] = t[Len(t) - Len(s) + i]
  <2>1. \A i \in 1..Len(s) : /\ Len(s) - i + 1 \in 1..Len(s) /\ i \in 1..Len(t)
                             /\ Len(s) - (Len(s) - i + 1) + 1 = i
                             /\ Len(t) - (Len(s) - i + 1) + 1 = Len(t) - Len(s) + i
                             /\ Len(t) - Len(s) + (Len(s) - i + 1) = Len(t) - i + 1
                             /\ Len(s) - i + 1 \in 1..Len(t)
    BY <1>4, <1>5
  <2>2. ASSUME \A i \in 1..Len(s) : Reverse(s)[i] = Reverse(t)[i], NEW i \in 1..Len(s)
        PROVE  s[i] = t[Len(t) - Len(s) + i]
    <3> DEFINE j == Len(s) - i + 1
    <3>1. j \in 1..Len(s) /\ j \in 1..Len(t) /\ Len(s) - j + 1 = i
          /\ Len(t) - j + 1 = Len(t) - Len(s) + i
      BY <2>1
    <3> HIDE DEF j
    <3> QED BY <1>1, <1>2, <2>2, <3>1
  <2>3. ASSUME \A i \in 1..Len(s) : s[i] = t[Len(t) - Len(s) + i], NEW i \in 1..Len(s)
        PROVE  Reverse(s)[i] = Reverse(t)[i]
    <3> DEFINE j == Len(s) - i + 1
    <3>1. j \in 1..Len(s) /\ i \in 1..Len(t) /\ Len(t) - Len(s) + j = Len(t) - i + 1
      BY <2>1
    <3>2. Reverse(s)[i] = s[j] /\ Reverse(t)[i] = t[Len(t) - i + 1]
      BY <1>1, <1>2, <3>1
    <3> HIDE DEF j
    <3> QED BY <2>3, <3>1, <3>2
  <2> QED BY <2>2, <2>3
<1> QED BY <1>3, <1>5

\* A suffix is what a path ends with.
LEMMA EndingMeans ==
  ASSUME NEW S, NEW s \in Seq(S), NEW t \in Seq(S), s # <<>>
  PROVE  IsSuffix(s, t) <=> \E n \in 1..Len(t) : SubSeq(t, n, Len(t)) = s
<1>1. Len(s) \in Nat /\ Len(t) \in Nat /\ Len(s) > 0
  OBVIOUS
<1>2. ASSUME NEW n \in 1..Len(t)
      PROVE  /\ SubSeq(t, n, Len(t)) \in Seq(S) /\ Len(SubSeq(t, n, Len(t))) = Len(t) - n + 1
             /\ \A i \in 1..(Len(t) - n + 1) : SubSeq(t, n, Len(t))[i] = t[n + i - 1]
  <2>1. n \in 1..(Len(t) + 1) /\ Len(t) \in (n - 1)..Len(t)
    BY <1>1
  <2> QED BY <1>1, <2>1, SubSeqProperties
<1>3. ASSUME NEW n \in 1..Len(t), SubSeq(t, n, Len(t)) = s
      PROVE  IsSuffix(s, t)
  <2> DEFINE u == SubSeq(t, n, Len(t))
  <2>0. /\ Len(u) = Len(t) - n + 1 /\ \A i \in 1..(Len(t) - n + 1) : u[i] = t[n + i - 1]
        /\ u = s
    BY <1>2, <1>3
  <2> HIDE DEF u
  <2>1. /\ Len(s) <= Len(t) /\ Len(s) = Len(t) - n + 1
        /\ \A i \in 1..Len(s) : s[i] = t[n + i - 1]
    BY <1>1, <2>0
  <2>2. \A i \in 1..Len(s) : n + i - 1 = Len(t) - Len(s) + i
    BY <1>1, <2>1
  <2> QED BY <2>1, <2>2, SuffixElements
<1>4. ASSUME IsSuffix(s, t)
      PROVE  \E n \in 1..Len(t) : SubSeq(t, n, Len(t)) = s
  <2> DEFINE n == Len(t) - Len(s) + 1
             u == SubSeq(t, n, Len(t))
  <2>1. Len(s) <= Len(t) /\ \A i \in 1..Len(s) : s[i] = t[Len(t) - Len(s) + i]
    BY <1>4, SuffixElements
  <2>2. /\ n \in 1..Len(t) /\ Len(t) - n + 1 = Len(s)
        /\ \A i \in 1..Len(s) : n + i - 1 = Len(t) - Len(s) + i
    BY <1>1, <2>1
  <2>3. u \in Seq(S) /\ Len(u) = Len(s) /\ \A i \in 1..Len(s) : u[i] = t[n + i - 1]
    BY <1>2, <2>2
  <2> HIDE DEF n, u
  <2>4. \A i \in 1..Len(s) : u[i] = s[i]
    BY <2>1, <2>2, <2>3
  <2>5. u = s
    BY <2>3, <2>4, SeqEqual
  <2> QED BY <2>2, <2>5 DEF u
<1> QED BY <1>3, <1>4

\* The elements of a sequence with one appended.
LEMMA AppendElements ==
  ASSUME NEW S, NEW s \in Seq(S), NEW e \in S
  PROVE  /\ Append(s, e) \in Seq(S) /\ Len(Append(s, e)) = Len(s) + 1
         /\ Append(s, e)[Len(s) + 1] = e
         /\ \A i \in 1..Len(s) : Append(s, e)[i] = s[i]
BY AppendProperties

\* A path that starts with s and a slash starts with s.
LEMMA Begins ==
  ASSUME NEW s \in Seq(Pieces), NEW t \in Seq(Pieces), NEW n \in 1..Len(t),
         SubSeq(t, 1, n) = Append(s, "/")
  PROVE  IsPrefix(s, t)
<1> DEFINE v == SubSeq(t, 1, n)
           w == Append(s, "/")
<1>0. Len(s) \in Nat /\ Len(t) \in Nat
  OBVIOUS
<1>1. /\ w \in Seq(Pieces) /\ Len(w) = Len(s) + 1 /\ \A i \in 1..Len(s) : w[i] = s[i]
  <2>1. "/" \in Pieces
    BY DEF Pieces
  <2> QED BY <2>1, AppendElements
<1>2. n \in Nat /\ n \in 0..Len(t) /\ 1 \in 1..(Len(t) + 1)
  BY <1>0
<1>3. Len(v) = n - 1 + 1 /\ \A i \in 1..(n - 1 + 1) : v[i] = t[1 + i - 1]
  BY <1>2, SubSeqProperties
<1>4. v = w
  OBVIOUS
<1> HIDE DEF v, w
<1>5. Len(w) = n /\ \A i \in 1..n : w[i] = t[i]
  BY <1>0, <1>2, <1>3, <1>4
<1>6. Len(s) <= Len(t) /\ \A i \in 1..Len(s) : i \in 1..n
  BY <1>0, <1>1, <1>5
<1>7. \A i \in 1..Len(s) : s[i] = t[i]
  BY <1>1, <1>5, <1>6
<1> QED BY <1>6, <1>7, PrefixElements

\* A path that goes on with a slash behind s starts with s and a slash.
LEMMA GoesOn ==
  ASSUME NEW s \in Seq(Pieces), NEW t \in Seq(Pieces), IsPrefix(s, t), t # s,
         t[Len(s) + 1] = "/"
  PROVE  Len(s) + 1 \in 1..Len(t) /\ SubSeq(t, 1, Len(s) + 1) = Append(s, "/")
<1> DEFINE m == Len(s)
           v == SubSeq(t, 1, m + 1)
           w == Append(s, "/")
<1>1. m \in Nat /\ Len(t) \in Nat
  OBVIOUS
<1>2. m < Len(t) /\ \A i \in 1..m : s[i] = t[i]
  <2>1. m <= Len(t) /\ \A i \in 1..m : s[i] = t[i]
    BY PrefixElements
  <2>2. m # Len(t)
    BY <2>1, SeqEqual
  <2> QED BY <1>1, <2>1, <2>2
<1>3. v \in Seq(Pieces) /\ Len(v) = m + 1 /\ \A i \in 1..(m + 1) : v[i] = t[i]
  BY <1>1, <1>2, SubSeqProperties
<1>4. /\ w \in Seq(Pieces) /\ Len(w) = m + 1 /\ w[m + 1] = "/"
      /\ \A i \in 1..m : w[i] = s[i]
  <2>1. "/" \in Pieces
    BY DEF Pieces
  <2> QED BY <2>1, AppendElements
<1>5. m + 1 \in 1..Len(t)
  BY <1>1, <1>2
<1> HIDE DEF v, w
<1>6. \A i \in 1..(m + 1) : i \in 1..m \/ i = m + 1
  BY <1>1
<1>7. \A i \in 1..Len(v) : v[i] = w[i]
  BY <1>2, <1>3, <1>4, <1>6
<1>8. v = w
  BY <1>3, <1>4, <1>7, SeqEqual
<1> QED BY <1>5, <1>8 DEF v, w

\* Where the pattern is not stretched, a prefix is one that a slash follows.
LEMMA UnderMeans ==
  ASSUME NEW s \in Seq(Pieces), NEW t \in Seq(Pieces),
         IsPrefix(s, t) => t # s /\ t[Len(s) + 1] = "/"
  PROVE  IsPrefix(s, t) <=> \E n \in 1..Len(t) : SubSeq(t, 1, n) = Append(s, "/")
BY Begins, GoesOn

\* A path that goes on with a slash behind the prefix s of a pattern.
LEMMA OneMeans ==
  ASSUME NEW s \in Seq(Pieces), NEW t \in Seq(Pieces), IsPrefix(s, t), t # s,
         t[Len(s) + 1] = "/",
         \A i \in (Len(s) + 1)..(Len(t) - 1) : (t[i] = "/") # (t[i+1] = "/")
  PROVE  OneSegment(SubSeq(t, Len(s) + 1, Len(t)))
           <=> \E n \in 1..Len(t) : SubSeq(t, 1, n) = Append(s, "/") /\ Len(t) <= n + 1
<1> DEFINE m == Len(s)
           u == SubSeq(t, m + 1, Len(t))
<1>1. m \in Nat /\ Len(t) \in Nat
  OBVIOUS
<1>2. m < Len(t) /\ \A i \in 1..m : s[i] = t[i]
  <2>1. m <= Len(t) /\ \A i \in 1..m : s[i] = t[i]
    BY PrefixElements
  <2>2. m # Len(t)
    BY <2>1, SeqEqual
  <2> QED BY <1>1, <2>1, <2>2
<1>3. u \in Seq(Pieces) /\ Len(u) = Len(t) - m /\ \A i \in 1..(Len(t) - m) : u[i] = t[m + i]
  <2>1. m + 1 \in 1..(Len(t) + 1) /\ Len(t) \in m..Len(t)
    BY <1>1, <1>2
  <2>2. /\ u \in Seq(Pieces) /\ Len(u) = Len(t) - (m + 1) + 1
        /\ \A i \in 1..(Len(t) - (m + 1) + 1) : u[i] = t[(m + 1) + i - 1]
    BY <1>1, <1>2, <2>1, SubSeqProperties
  <2> QED BY <1>1, <1>2, <2>2
<1>4. SubSeq(t, 1, m + 1) = Append(s, "/")
  BY GoesOn
<1>5. (\E n \in 1..Len(t) : SubSeq(t, 1, n) = Append(s, "/") /\ Len(t) <= n + 1)
        <=> Len(t) <= m + 2
  <2>1. ASSUME NEW n \in 1..Len(t), SubSeq(t, 1, n) = Append(s, "/")
        PROVE  n = m + 1
    <3>1. Len(SubSeq(t, 1, n)) = n
      BY <1>1, SubSeqProperties
    <3>2. Len(Append(s, "/")) = m + 1
      BY AppendProperties
    <3> QED BY <2>1, <3>1, <3>2
  <2>2. m + 1 \in 1..Len(t)
    BY <1>1, <1>2
  <2> QED BY <1>1, <1>4, <2>1, <2>2
<1> HIDE DEF u
<1>6. OneSegment(u) <=> Len(t) <= m + 2
  <2>1. DOMAIN u = 1..(Len(t) - m)
    BY <1>3
  <2>2. ASSUME Len(t) <= m + 2
        PROVE  OneSegment(u)
    <3>1. \A i, j \in 1..(Len(t) - m) : i < j => i = 1
      BY <1>1, <2>2
    <3>2. u[1] = "/"
      BY <1>1, <1>2, <1>3
    <3> QED BY <2>1, <3>1, <3>2 DEF OneSegment
  <2>3. ASSUME ~(Len(t) <= m + 2)
        PROVE  ~OneSegment(u)
    <3>1. /\ m + 1 \in (m + 1)..(Len(t) - 1) /\ m + 2 \in (m + 1)..(Len(t) - 1)
          /\ (m + 1) + 1 = m + 2 /\ (m + 2) + 1 = m + 3
          /\ 2 \in 1..(Len(t) - m) /\ 3 \in 1..(Len(t) - m)
      BY <1>1, <2>3
    <3>2. t[m + 2] # "/" /\ t[m + 3] = "/"
      BY <3>1
    <3>3. u[2] = t[m + 2] /\ u[3] = t[m + 3]
      BY <1>3, <3>1
    <3> QED BY SMTT(30), <2>1, <3>1, <3>2, <3>3 DEF OneSegment
  <2> QED BY <2>2, <2>3
<1> QED BY <1>5, <1>6 DEF u

\* What a pattern matches is what it is said to match, where it is not stretched.
LEMMA PatternMeans ==
  ASSUME Regular, NEW path \in Paths, NEW r \in Rules, NEW p \in r.include \cup r.exclude,
         ~Stretched(path, p)
  PROVE  MatchPath(path, p) <=> Meant(path, p)
<1>1. /\ p.kind \in {"all", "under", "one", "ending", "exact"}
      /\ p.path \in Seq(Pieces) /\ (p.kind = "ending" => p.path # <<>>)
      /\ path \in Seq(Pieces)
  BY ContextAssumption
<1>2. CASE p.kind \in {"all", "exact"}
  BY <1>2 DEF MatchPath, Meant
<1>3. CASE p.kind = "under"
  <2>1. IsPrefix(p.path, path) => path # p.path /\ path[Len(p.path) + 1] = "/"
    BY <1>3 DEF Stretched
  <2> QED BY <1>1, <1>3, <2>1, UnderMeans DEF MatchPath, Meant
<1>4. CASE p.kind = "ending"
  BY <1>1, <1>4, EndingMeans DEF MatchPath, Meant
<1>5. CASE p.kind = "one" /\ IsPrefix(p.path, path)
  <2>1. path # p.path /\ path[Len(p.path) + 1] = "/"
    BY <1>5 DEF Stretched
  <2>2. \A i \in (Len(p.path) + 1)..(Len(path) - 1) : (path[i] = "/") # (path[i+1] = "/")
    BY <1>5 DEF Regular
  <2> QED BY <1>1, <1>5, <2>1, <2>2, OneMeans DEF MatchPath, Meant
<1>6. CASE p.kind = "one" /\ ~IsPrefix(p.path, path)
  <2>1. ~\E n \in 1..Len(path) : SubSeq(path, 1, n) = Append(p.path, "/")
    BY <1>1, <1>6, Begins
  <2> QED BY <1>6, <2>1 DEF MatchPath, Meant
<1> QED BY <1>1, <1>2, <1>3, <1>4, <1>5, <1>6

\* A path on which no rule is stretched needs a login exactly where it is said to be
\* protected.
LEMMA GateMeans ==
  ASSUME Regular, rules \in UNION {RulesOf(l) : l \in Layers}, NEW path \in Paths,
         \A p \in rules.include \cup rules.exclude : ~Stretched(path, p)
  PROVE  NeedAuth(path) = Protected(path)
<1>1. CASE rules \in Rules
  <2>1. \A p \in rules.include \cup rules.exclude : MatchPath(path, p) <=> Meant(path, p)
    BY <1>1, PatternMeans
  <2> QED BY <2>1 DEF Protected, NeedAuth, MatchAny
<1>2. CASE rules = [include |-> {}, exclude |-> {}, accept |-> {}]
  BY <1>2 DEF Protected, NeedAuth, MatchAny
<1> QED BY <1>1, <1>2 DEF RulesOf

-----------------------------------------------------------------------------
(***************************************************************************)
(* The requests                                                            *)
(***************************************************************************)
Contexts == [account : Visitors \cup {Nil}, switch : Visitors \cup {Nil}]

\* The types, as far as the argument needs them.
RcTypeOK ==
  /\ pc \in [Tasks -> {"idle", "isValid", "getInfo", "handling", "lookUp", "gone"}]
  /\ layer \in Layers /\ rules \in UNION {RulesOf(l) : l \in Layers}
  /\ loggedIn \subseteq Visitors /\ failed \subseteq Tasks
  /\ visit = [t \in Tasks |-> visit[t]] /\ told = [t \in Tasks |-> told[t]]
  /\ sought \in [Tasks -> Visitors \cup {Nil}]
  /\ context \in [Tasks -> Contexts \cup {Nil}]
  /\ verdict \in [Tasks -> {"admitted", "rejected", Nil}]
  /\ wish \in [Tasks -> Visitors \cup {Nil}]

\* The labels of a request whose handler runs.
Inside == {"handling", "lookUp"}

\* An account found for a token is the token's, and none is found only for one that
\* has ended or after an error.
Found(t, account) ==
  \/ account # Nil /\ account = visit[t].token
  \/ account = Nil /\ (visit[t].token \in loggedIn => t \in failed)

\* On a plain path the gate was the one of the documentation, and it was decided for
\* the request's own token.
Gated ==
  \A t \in Tasks :
    /\ pc[t] # "idle" /\ visit[t].plain => visit[t].need = visit[t].meant
    /\ pc[t] \in {"idle", "isValid", "getInfo"} => verdict[t] = Nil
    /\ pc[t] \in Inside /\ visit[t].need => context[t].account \in rules.accept
    /\ verdict[t] = "rejected" =>
         /\ visit[t].need
         /\ visit[t].token \in loggedIn \cap rules.accept => t \in failed

\* The context of a request is its own.
OwnContext ==
  \A t \in Tasks :
    /\ pc[t] \in Inside => /\ context[t] \in Contexts /\ Found(t, context[t].account)
                           /\ context[t].switch = wish[t]
    /\ pc[t] \notin Inside \cup {"gone"} => wish[t] = Nil
    /\ pc[t] = "lookUp" => /\ wish[t] = Nil /\ sought[t] = context[t].account
                           /\ sought[t] # Nil

\* What a handler was told is its own account, or what it switched to.
ToldWell ==
  \A t \in Tasks :
    /\ pc[t] = "idle" => told[t] = {}
    /\ \A answer \in told[t] :
         IF answer[2] # Nil THEN answer[1] = answer[2] ELSE Found(t, answer[1])

\* What is invariant of the requests.
RcInv == RcTypeOK /\ Gated /\ OwnContext /\ ToldWell

\* No request has come in at first.
LEMMA RcInitial == ControlInit /\ RcInit => RcInv
<1> SUFFICES ASSUME ControlInit, RcInit PROVE RcInv
  OBVIOUS
<1>1. RcTypeOK
  BY DEF ControlInit, RcInit, RcTypeOK
<1>2. Gated
  BY ContextAssumption DEF ControlInit, RcInit, Gated, Inside
<1>3. OwnContext
  BY DEF ControlInit, RcInit, OwnContext, Inside
<1>4. ToldWell
  BY DEF ControlInit, RcInit, ToldWell
<1> QED BY <1>1, <1>2, <1>3, <1>4 DEF RcInv

\* Nothing happens to a task in somebody else's step, except that tokens end.
LEMMA RcInductive ==
  ASSUME Regular, Scoped
  PROVE  RcInv /\ [RcNext]_rcVars => RcInv'
<1> SUFFICES ASSUME RcInv, [RcNext]_rcVars
             PROVE  RcInv'
  OBVIOUS
<1> USE ContextAssumption DEF RcInv
<1>0. layer.binds = "task" /\ RcTypeOK
  BY DEF RcTypeOK, Scoped
<1>1. CASE UNCHANGED rcVars
  <2> USE <1>1 DEF rcVars, control, rcState, rcConfig, rcHistory
  <2>1. RcTypeOK'
    BY DEF Contexts, RcTypeOK
  <2>2. Gated'
    BY DEF Gated, Inside
  <2>3. OwnContext'
    BY DEF OwnContext, Inside, Found
  <2>4. ToldWell'
    BY DEF ToldWell, Found
  <2> QED BY <2>1, <2>2, <2>3, <2>4
<1>2. ASSUME NEW k \in Visitors, EndToken(k)
      PROVE  RcInv'
  <2> USE <1>2 DEF EndToken, control, rcConfig, rcHistory
  <2>1. RcTypeOK'
    BY DEF Contexts, RcTypeOK
  <2>2. Gated'
    BY DEF Gated, Inside
  <2>3. OwnContext'
    BY DEF OwnContext, Inside, Found
  <2>4. ToldWell'
    BY DEF ToldWell, Found
  <2> QED BY <2>1, <2>2, <2>3, <2>4
<1>3. ASSUME NEW t \in Tasks, NEW path \in Paths, NEW carried, Arrive(t, path, carried)
      PROVE  RcInv'
  <2> DEFINE brought == Brought(path, carried)
  <2>1. /\ pc[t] = "idle" /\ pc' = [pc EXCEPT ![t] = "isValid"]
        /\ visit' = [visit EXCEPT ![t] = brought]
        /\ UNCHANGED <<layer, rules, loggedIn, context, onWorker, sought, failed, verdict,
                       wish, told>>
    BY <1>3 DEF Arrive, Begin, rcConfig, rcHistory
  <2>2. brought.plain => brought.need = brought.meant
    BY GateMeans, <1>0 DEF Brought, RcTypeOK
  <2> HIDE DEF brought
  <2>3. RcTypeOK'
    BY <1>0, <2>1 DEF Contexts, RcTypeOK
  <2>4. visit'[t] = brought /\ \A s \in Tasks \ {t} : visit'[s] = visit[s] /\ pc'[s] = pc[s]
    BY <1>0, <2>1 DEF Contexts, RcTypeOK
  <2>5. pc'[t] = "isValid"
    BY <1>0, <2>1 DEF Contexts, RcTypeOK
  <2>6. Gated'
    BY <2>1, <2>2, <2>4, <2>5 DEF Gated, Inside
  <2>7. OwnContext'
    BY <2>1, <2>4, <2>5 DEF OwnContext, Inside, Found
  <2>8. ToldWell'
    BY <2>1, <2>4, <2>5 DEF ToldWell, Found
  <2> QED BY <2>3, <2>6, <2>7, <2>8
<1>4. ASSUME NEW t \in Tasks, NEW w \in Workers, NEW valid \in BOOLEAN,
             NEW account \in Visitors \cup {Nil},
             pc[t] \in {"isValid", "getInfo"}, Lookup(t, visit[t].token, account),
             Decide(t, w, valid, account), account = Nil \/ valid,
             UNCHANGED <<rcConfig, loggedIn, visit, sought, wish, told>>
      PROVE  RcInv'
  <2>1. /\ failed \subseteq failed' /\ failed' \subseteq Tasks /\ Found(t, account)'
        /\ \A s \in Tasks, a \in Visitors \cup {Nil} : Found(s, a) => Found(s, a)'
        /\ UNCHANGED <<layer, rules, loggedIn, visit, sought, wish, told>>
    BY <1>0, <1>4 DEF Lookup, Found, RcTypeOK, rcConfig
  <2>2. rules.accept \subseteq Visitors
    BY <1>0 DEF Contexts, RcTypeOK, RulesOf
  <2>3. verdict[t] = Nil /\ wish[t] = Nil
    BY <1>4 DEF Gated, OwnContext, Inside
  <2>4. CASE visit[t].need /\ ~Accepted(t, valid, account)
    <3>1. /\ pc' = [pc EXCEPT ![t] = "gone"] /\ verdict' = [verdict EXCEPT ![t] = "rejected"]
          /\ UNCHANGED <<context, onWorker>>
      BY <1>4, <2>4 DEF Decide, Goto
    <3>2. visit[t].token \in loggedIn \cap rules.accept => t \in failed'
      BY <1>4, <2>1, <2>2, <2>4 DEF Accepted, Found
    <3>3. RcTypeOK'
      BY <1>0, <2>1, <3>1 DEF Contexts, RcTypeOK
    <3>a. /\ \A s \in Tasks \ {t} : pc'[s] = pc[s] /\ verdict'[s] = verdict[s]
          /\ pc'[t] = "gone" /\ verdict'[t] = "rejected"
      BY <1>0, <3>1 DEF RcTypeOK
    <3>4. Gated'
      BY <1>4, <2>1, <2>4, <3>1, <3>2, <3>a DEF Gated, Inside
    <3>5. OwnContext'
      BY <1>0, <2>1, <3>1 DEF OwnContext, Inside, RcTypeOK, Contexts
    <3>6. ToldWell'
      BY <1>0, <2>1, <3>1 DEF ToldWell, RcTypeOK, Found
    <3> QED BY <3>3, <3>4, <3>5, <3>6
  <2>5. CASE ~(visit[t].need /\ ~Accepted(t, valid, account))
    <3>1. /\ pc' = [pc EXCEPT ![t] = "handling"]
          /\ verdict' = [verdict EXCEPT ![t] = "admitted"]
          /\ context' = [context EXCEPT ![t] = [account |-> account, switch |-> Nil]]
      BY <1>4, <2>5 DEF Decide, Goto
    <3>2. visit[t].need => account \in rules.accept
      BY <2>5 DEF Accepted
    <3>3. RcTypeOK'
      BY <1>0, <2>1, <3>1 DEF Contexts, RcTypeOK
    <3>a. /\ \A s \in Tasks \ {t} : /\ pc'[s] = pc[s] /\ verdict'[s] = verdict[s]
                                    /\ context'[s] = context[s]
          /\ pc'[t] = "handling" /\ verdict'[t] = "admitted"
          /\ context'[t].account = account
      BY <1>0, <3>1 DEF RcTypeOK
    <3>4. Gated'
      BY <1>4, <2>1, <3>2, <3>a DEF Gated, Inside
    <3>5. OwnContext'
      BY <1>0, <2>1, <2>3, <3>1 DEF OwnContext, Inside, RcTypeOK, Contexts
    <3>6. ToldWell'
      BY <1>0, <2>1, <3>1 DEF ToldWell, RcTypeOK, Found
    <3> QED BY <3>3, <3>4, <3>5, <3>6
  <2> QED BY <2>4, <2>5
<1>5. ASSUME NEW t \in Tasks, NEW w \in Workers, CheckToken(t, w)
      PROVE  RcInv'
  <2>1. PICK account \in Visitors \cup {Nil} :
          /\ Lookup(t, visit[t].token, account)
          /\ \/ account = Nil /\ Decide(t, w, FALSE, Nil)
             \/ /\ account # Nil /\ Goto(t, "getInfo")
                /\ UNCHANGED <<context, onWorker, verdict>>
    BY <1>5 DEF CheckToken
  <2>2. pc[t] = "isValid" /\ UNCHANGED <<rcConfig, loggedIn, visit, sought, wish, told>>
    BY <1>5 DEF CheckToken
  <2>3. CASE account = Nil /\ Decide(t, w, FALSE, Nil)
    BY <1>4, <2>1, <2>2, <2>3
  <2>4. CASE account # Nil /\ Goto(t, "getInfo") /\ UNCHANGED <<context, onWorker, verdict>>
    <3>1. /\ failed \subseteq failed' /\ failed' \subseteq Tasks
          /\ UNCHANGED <<layer, rules, loggedIn, visit, sought, wish, told, context, verdict>>
          /\ pc' = [pc EXCEPT ![t] = "getInfo"]
      BY <1>0, <2>1, <2>2, <2>4 DEF Lookup, RcTypeOK, Goto, rcConfig
    <3>2. RcTypeOK'
      BY <1>0, <3>1 DEF Contexts, RcTypeOK
    <3>3. Gated'
      BY <1>0, <2>2, <3>1 DEF Gated, Inside, RcTypeOK
    <3>4. OwnContext'
      BY <1>0, <2>2, <3>1 DEF OwnContext, Inside, RcTypeOK, Found
    <3>5. ToldWell'
      BY <1>0, <2>2, <3>1 DEF ToldWell, RcTypeOK, Found
    <3> QED BY <3>2, <3>3, <3>4, <3>5
  <2> QED BY <2>1, <2>3, <2>4
<1>6. ASSUME NEW t \in Tasks, NEW w \in Workers, GetInfo(t, w)
      PROVE  RcInv'
  BY <1>4, <1>6 DEF GetInfo
<1>7. ASSUME NEW t \in Tasks, pc' = [pc EXCEPT ![t] = "gone"], pc[t] # "idle",
             context' \in {context, [context EXCEPT ![t] = Nil]},
             UNCHANGED <<rcConfig, loggedIn, visit, sought, rcHistory>>
      PROVE  RcInv'
  <2> USE <1>0, <1>7 DEF rcConfig, rcHistory
  <2>1. RcTypeOK'
    BY DEF Contexts, RcTypeOK
  <2>2. Gated'
    BY DEF Contexts, RcTypeOK, Gated, Inside
  <2>3. OwnContext'
    BY DEF Contexts, RcTypeOK, OwnContext, Inside, Found
  <2>4. ToldWell'
    BY DEF Contexts, RcTypeOK, ToldWell, Found
  <2> QED BY <2>1, <2>2, <2>3, <2>4
<1>8. ASSUME NEW t \in Tasks, NEW w \in Workers, Respond(t, w)
      PROVE  RcInv'
  BY <1>0, <1>7, <1>8 DEF Respond, Goto
<1>9. ASSUME NEW t \in Tasks, Disconnect(t)
      PROVE  RcInv'
  BY <1>7, <1>9 DEF Disconnect, Goto, rcState
<1>10. ASSUME NEW t \in Tasks, NEW w \in Workers, NEW u \in Visitors \cup {Nil},
              Switch(t, w, u)
       PROVE  RcInv'
  <2>1. /\ pc[t] = "handling" /\ UNCHANGED pc /\ wish' = [wish EXCEPT ![t] = u]
        /\ context' = [context EXCEPT ![t].switch = u]
        /\ UNCHANGED <<layer, rules, loggedIn, visit, sought, failed, verdict, told>>
    BY <1>0, <1>10 DEF Switch, TryCurrent, rcConfig
  <2>2. /\ context[t] \in Contexts /\ context'[t] \in Contexts
        /\ context'[t].account = context[t].account /\ context'[t].switch = u
        /\ \A s \in Tasks \ {t} : context'[s] = context[s]
    <3>1. context[t] \in Contexts
      BY <2>1 DEF OwnContext, Inside
    <3>2. context'[t] = [context[t] EXCEPT !.switch = u]
      BY <1>0, <2>1 DEF Contexts, RcTypeOK
    <3> QED BY <1>0, <2>1, <3>1, <3>2 DEF Contexts, RcTypeOK
  <2>3. RcTypeOK'
    BY <1>0, <2>1, <2>2 DEF Contexts, RcTypeOK
  <2>4. Gated'
    BY <1>0, <2>1, <2>2 DEF Contexts, RcTypeOK, Gated, Inside
  <2>5. OwnContext'
    BY <1>0, <2>1, <2>2 DEF Contexts, RcTypeOK, OwnContext, Inside, Found
  <2>6. ToldWell'
    BY <2>1 DEF ToldWell, Found
  <2> QED BY <2>3, <2>4, <2>5, <2>6
<1>11. ASSUME NEW t \in Tasks, NEW w \in Workers, GetLoginId(t, w)
       PROVE  RcInv'
  <2>1. /\ pc[t] = "handling"
        /\ UNCHANGED <<layer, rules, loggedIn, visit, context, failed, verdict, wish>>
        /\ Found(t, context[t].account) /\ context[t].switch = wish[t]
        /\ context[t] \in Contexts
    BY <1>0, <1>11 DEF GetLoginId, OwnContext, Inside, rcConfig, RcTypeOK
  <2>2. \/ /\ context[t].switch # Nil /\ Tell(t, context[t].switch)
           /\ UNCHANGED <<pc, sought>>
        \/ /\ context[t].switch = Nil /\ context[t].account = Nil /\ Tell(t, Nil)
           /\ UNCHANGED <<pc, sought>>
        \/ /\ context[t].switch = Nil /\ context[t].account # Nil /\ UNCHANGED told
           /\ pc' = [pc EXCEPT ![t] = "lookUp"]
           /\ sought' = [sought EXCEPT ![t] = context[t].account]
    BY <1>0, <1>11, <2>1 DEF GetLoginId, TryCurrent
  <2>3. RcTypeOK'
    BY <1>0, <2>1, <2>2 DEF Contexts, RcTypeOK, Tell
  <2>4. Gated'
    BY <1>0, <2>1, <2>2 DEF Contexts, RcTypeOK, Gated, Inside
  <2>5. OwnContext'
    BY <1>0, <2>1, <2>2 DEF Contexts, RcTypeOK, OwnContext, Inside, Found
  <2>6. ToldWell'
    BY <1>0, <2>1, <2>2 DEF Contexts, RcTypeOK, ToldWell, Found, Tell
  <2> QED BY <2>3, <2>4, <2>5, <2>6
<1>12. ASSUME NEW t \in Tasks, GetLoginIdDone(t)
       PROVE  RcInv'
  <2>1. PICK account \in Visitors \cup {Nil} :
          Lookup(t, sought[t], account) /\ Tell(t, account)
    BY <1>12 DEF GetLoginIdDone
  <2>2. /\ pc[t] = "lookUp" /\ pc' = [pc EXCEPT ![t] = "handling"]
        /\ UNCHANGED <<layer, rules, loggedIn, visit, context, verdict, wish>>
        /\ sought' = [sought EXCEPT ![t] = Nil]
    BY <1>12 DEF GetLoginIdDone, Goto, rcConfig
  <2>3. wish[t] = Nil /\ sought[t] = visit[t].token /\ sought[t] # Nil
    BY <2>2 DEF OwnContext, Inside, Found
  <2>4. /\ failed \subseteq failed' /\ failed' \subseteq Tasks /\ Found(t, account)'
    BY <1>0, <2>1, <2>2, <2>3 DEF Lookup, Found, RcTypeOK
  <2>5. told' = [told EXCEPT ![t] = {<<account, Nil>>}]
    BY <2>1, <2>3 DEF Tell
  <2>6. RcTypeOK'
    BY <1>0, <2>2, <2>4, <2>5 DEF Contexts, RcTypeOK
  <2>7. Gated'
    BY <1>0, <2>2, <2>4 DEF Contexts, RcTypeOK, Gated, Inside
  <2>8. OwnContext'
    BY <1>0, <2>2, <2>4 DEF Contexts, RcTypeOK, OwnContext, Inside, Found
  <2>9. ToldWell'
    BY <1>0, <2>2, <2>4, <2>5 DEF Contexts, RcTypeOK, ToldWell, Found
  <2> QED BY <2>6, <2>7, <2>8, <2>9
<1> HIDE DEF RcInv
<1> QED
  BY <1>1, <1>2, <1>3, <1>5, <1>6, <1>8, <1>9, <1>10, <1>11, <1>12
  DEF RcNext, SwitchTo, EndSwitch

\* Where a context belongs to the task that runs the handler, the gate asks for a login
\* exactly where the patterns are said to, on every path on which none is stretched, and
\* a handler acts as the account of its own request or the one it switched to.
THEOREM ContextCorrect ==
  ASSUME Regular, Scoped
  PROVE  RcSpec => [](GateIsExact /\ ActsAsItself)
<1>1. RcInv => GateIsExact
  <2> SUFFICES ASSUME RcInv, NEW t \in Tasks, verdict[t] # Nil, visit[t].plain
               PROVE  Exact(t)
    BY DEF GateIsExact
  <2>1. Nil \notin rules.accept
    BY ContextAssumption DEF RcInv, RcTypeOK, RulesOf
  <2>2. visit[t].need = visit[t].meant
    BY DEF RcInv, Gated
  <2> QED BY <2>1, <2>2 DEF Exact, RcInv, Gated, OwnContext, Inside, Found
<1>2. RcInv => ActsAsItself
  BY DEF RcInv, ToldWell, ActsAsItself, Found
<1> QED BY RcInitial, RcInductive, <1>1, <1>2, PTL DEF RcSpec

-----------------------------------------------------------------------------
(***************************************************************************)
(* Permissions: the recursive walk over the segments computes what the     *)
(* table of matcher.rs says, for patterns and permissions of any length.   *)
(***************************************************************************)
\* Segment i of the pattern stands for segment i of the target.
Stands(pattern, target, i) == i <= Len(target) /\ pattern[i] \in {"*", target[i]}

\* What is left of the pattern from segment i on matches what is left of the target.
RestMatches(pattern, target, i) ==
  \/ /\ Len(target) = Len(pattern)
     /\ \A j \in i..Len(pattern) : Stands(pattern, target, j)
  \/ \E n \in i..Len(pattern) :
       pattern[n] = "**" /\ \A j \in i..(n - 1) : Stands(pattern, target, j)

\* The arguments of a check.
PmTypeOK ==
  /\ owned \subseteq UpTo(Segments, MaxSegments)
  /\ \A i \in DOMAIN required :
       required[i] \in UpTo(Words, MaxSegments) \cup {<<>>}

\* What is invariant of the permission checks.
PmInv == PmTypeOK /\ GrantsWhatIsOwned

\* A bounded set of numbers has a largest element.
LEMMA LargestElement ==
  ASSUME NEW n \in Nat, NEW S, S \subseteq 1..n, S # {}
  PROVE  \E x \in S : \A y \in S : y <= x
<1> DEFINE R == {p \in Nat \X Nat : p[1] < p[2]}
           T == {n - x : x \in S}
<1>1. IsWellFoundedOn(R, Nat)
  BY NatLessThanWellFounded DEF OpToRel
<1>0. \A x \in S : x \in 1..n /\ n - x \in Nat
  OBVIOUS
<1>2. T \subseteq Nat /\ T # {}
  BY <1>0
<1>3. PICK u \in T : \A w \in T : <<w, u>> \notin R
  BY <1>1, <1>2, WFMin
<1>4. PICK x \in S : u = n - x
  OBVIOUS
<1>5. \A y \in S : n - y \in T /\ ~ (n - y < n - x)
  BY <1>2, <1>3, <1>4
<1> QED BY <1>0, <1>5

\* The recursive walk of ant_segment_match is RestMatches from the first segment on:
\* RestMatches satisfies the recursion, and a largest segment on which another function
\* that does differs does not exist.
LEMMA WalkMatches ==
  ASSUME NEW pattern, NEW target, Len(pattern) \in Nat
  PROVE  SegmentMatch(pattern, target) = RestMatches(pattern, target, 1)
<1> DEFINE n == Len(pattern)
           Rest(i) == RestMatches(pattern, target, i)
           F(g) == [i \in 1..(n + 1) |->
                      IF i > n THEN Len(target) = n
                      ELSE \/ pattern[i] = "**"
                           \/ i <= Len(target) /\ pattern[i] \in {"*", target[i]}
                                /\ g[i + 1]]
           walked == [i \in 1..(n + 1) |-> Rest(i)]
<1>1. SegmentMatch(pattern, target) = (CHOOSE g : g = F(g))[1]
  BY DEF SegmentMatch
<1>2. Rest(n + 1) <=> Len(target) = n
  <2>1. (n + 1)..n = {}
    OBVIOUS
  <2> QED BY <2>1 DEF RestMatches
<1>3. \A i \in 1..n :
        Rest(i) <=> \/ pattern[i] = "**"
                    \/ i <= Len(target) /\ pattern[i] \in {"*", target[i]} /\ Rest(i + 1)
  <2> SUFFICES ASSUME NEW i \in 1..n
               PROVE  Rest(i) <=> \/ pattern[i] = "**"
                                  \/ Stands(pattern, target, i) /\ Rest(i + 1)
    BY DEF Stands, RestMatches
  <2>1. i..n = {i} \cup (i + 1)..n
    OBVIOUS
  <2>2. \A m \in (i + 1)..n : i..(m - 1) = {i} \cup (i + 1)..(m - 1)
    OBVIOUS
  <2>3. i..(i - 1) = {}
    OBVIOUS
  <2>4. ASSUME Rest(i)
        PROVE  pattern[i] = "**" \/ (Stands(pattern, target, i) /\ Rest(i + 1))
    <3>1. CASE Len(target) = n /\ \A j \in i..n : Stands(pattern, target, j)
      BY <3>1, <2>1 DEF RestMatches
    <3>2. ASSUME NEW m \in i..n, pattern[m] = "**",
                 \A j \in i..(m - 1) : Stands(pattern, target, j)
          PROVE  pattern[i] = "**" \/ (Stands(pattern, target, i) /\ Rest(i + 1))
      <4>1. CASE m = i
        BY <3>2, <4>1
      <4>2. CASE m # i
        <5>1. m \in (i + 1)..n /\ i \in i..(m - 1)
          BY <4>2
        <5>2. \A j \in (i + 1)..(m - 1) : Stands(pattern, target, j)
          BY <3>2, <5>1, <2>2
        <5> QED BY <3>2, <5>1, <5>2 DEF RestMatches
      <4> QED BY <4>1, <4>2
    <3> QED BY <2>4, <3>1, <3>2 DEF RestMatches
  <2>5. pattern[i] = "**" => Rest(i)
    BY <2>1, <2>3 DEF RestMatches
  <2>6. ASSUME Stands(pattern, target, i), Rest(i + 1)
        PROVE  Rest(i)
    <3>1. CASE Len(target) = n /\ \A j \in (i + 1)..n : Stands(pattern, target, j)
      BY <3>1, <2>1, <2>6 DEF RestMatches
    <3>2. ASSUME NEW m \in (i + 1)..n, pattern[m] = "**",
                 \A j \in (i + 1)..(m - 1) : Stands(pattern, target, j)
          PROVE  Rest(i)
      <4>1. \A j \in i..(m - 1) : Stands(pattern, target, j)
        BY <3>2, <2>2, <2>6
      <4> QED BY <4>1, <3>2, <2>1 DEF RestMatches
    <3> QED BY <2>6, <3>1, <3>2 DEF RestMatches
  <2> QED BY <2>4, <2>5, <2>6
<1>a. \A i \in 1..(n + 1) : Rest(i) \in BOOLEAN
  BY DEF RestMatches
<1> HIDE DEF Rest
<1>4. walked = F(walked)
  <2> SUFFICES ASSUME NEW i \in 1..(n + 1) PROVE walked[i] = F(walked)[i]
    OBVIOUS
  <2>1. CASE i = n + 1
    <3>1. i > n
      BY <2>1
    <3>2. walked[i] = Rest(n + 1) /\ F(walked)[i] = (Len(target) = n)
      BY <2>1, <3>1
    <3> QED BY <1>2, <1>a, <3>2, <2>1
  <2>2. CASE i # n + 1
    <3>1. i \in 1..n /\ i + 1 \in 1..(n + 1) /\ ~ (i > n)
      BY <2>2
    <3>2. walked[i] = Rest(i) /\ walked[i + 1] = Rest(i + 1)
      BY <3>1
    <3>3. F(walked)[i] = \/ pattern[i] = "**"
                         \/ /\ i <= Len(target) /\ pattern[i] \in {"*", target[i]}
                            /\ Rest(i + 1)
      BY <3>1, <3>2
    <3> HIDE DEF walked, F
    <3> QED BY <1>3, <1>a, <3>1, <3>2, <3>3
  <2> QED BY <2>1, <2>2
<1>5. ASSUME NEW g, g = F(g)
      PROVE  g = walked
  <2> DEFINE S == {i \in 1..(n + 1) : g[i] # walked[i]}
  <2>1. SUFFICES S = {}
    BY <1>5, <1>4
  <2>2. SUFFICES ASSUME S # {} PROVE FALSE
    OBVIOUS
  <2>3. PICK x \in S : \A y \in S : y <= x
    <3>1. n + 1 \in Nat /\ S \subseteq 1..(n + 1)
      OBVIOUS
    <3> HIDE DEF S
    <3> QED BY <2>2, <3>1, LargestElement
  <2>4. x \in 1..(n + 1) /\ g[x] # walked[x]
    OBVIOUS
  <2>5. g[x] = F(g)[x] /\ walked[x] = F(walked)[x]
    <3> HIDE DEF F, walked
    <3> QED BY <1>4, <1>5
  <2>6. CASE x = n + 1
    <3>1. x > n
      BY <2>6
    <3>2. F(g)[x] = (Len(target) = n) /\ F(walked)[x] = (Len(target) = n)
      BY <2>4, <3>1
    <3> QED BY <2>4, <2>5, <3>2
  <2>7. CASE x # n + 1
    <3>1. x \in 1..n /\ x + 1 \in 1..(n + 1) /\ x + 1 \notin S /\ ~ (x > n)
      BY <2>3, <2>4, <2>7
    <3>2. g[x + 1] = walked[x + 1]
      BY <3>1
    <3> HIDE DEF walked
    <3>3. F(g)[x] = F(walked)[x]
      BY <2>4, <3>1, <3>2
    <3> QED BY <2>4, <2>5, <3>3
  <2> QED BY <2>6, <2>7
<1>6. (CHOOSE g : g = F(g)) = walked
  <2> HIDE DEF F, walked
  <2> QED BY <1>4, <1>5
<1>7. SegmentMatch(pattern, target) = walked[1]
  <2> HIDE DEF F, walked
  <2> QED BY <1>1, <1>6
<1>8. walked[1] = Rest(1)
  OBVIOUS
<1> QED BY <1>7, <1>8 DEF Rest

\* Patterns and permissions are non-empty sequences of segments.
LEMMA SegmentsSequence ==
  ASSUME NEW S, NEW n \in Nat, NEW p \in UpTo(S, n)
  PROVE  p \in Seq(S) /\ Len(p) \in Nat \ {0} /\ DOMAIN p = 1..Len(p)
         /\ \A i \in 1..Len(p) : p[i] \in S
<1>1. PICK m \in 1..n : p \in [1..m -> S]
  BY DEF UpTo
<1>2. p \in Seq(S) /\ Len(p) = m
  BY <1>1, SeqDef
<1> QED BY <1>1, <1>2

\* A pattern matches a permission exactly where its meaning covers it.
LEMMA MatchMeans ==
  ASSUME NEW pattern \in UpTo(Segments, MaxSegments),
         NEW target \in UpTo(Words, MaxSegments)
  PROVE  MatchesOne(pattern, target) <=> Meaning(pattern, target)
<1> DEFINE n == Len(pattern)
           k == Len(target)
           Fits(m) == m <= k /\ \A i \in 1..m : pattern[i] \in {"*", target[i]}
<1>1. /\ pattern \in Seq(Segments) /\ n \in Nat \ {0} /\ DOMAIN pattern = 1..n
      /\ target \in Seq(Words) /\ k \in Nat \ {0}
      /\ \A i \in 1..k : target[i] \in Words
  BY SegmentsSequence, PermissionsAssumption
<1>2. target # <<>> /\ "*" \notin Words /\ "**" \notin Words
  BY <1>1, PermissionsAssumption
<1>3. SegmentMatch(pattern, target) <=>
        (n = k /\ Fits(n)) \/ \E m \in 1..n : pattern[m] = "**" /\ Fits(m - 1)
  <2>1. \A m \in 1..n : Fits(m - 1) <=> \A j \in 1..(m - 1) : Stands(pattern, target, j)
    <3> SUFFICES ASSUME NEW m \in 1..n, \A j \in 1..(m - 1) : Stands(pattern, target, j)
                 PROVE  m - 1 <= k
      BY <1>1 DEF Stands
    <3>1. CASE m = 1
      BY <3>1, <1>1
    <3>2. CASE m # 1
      BY <3>2, <1>1 DEF Stands
    <3> QED BY <3>1, <3>2
  <2>2. n = k => (Fits(n) <=> \A j \in 1..n : Stands(pattern, target, j))
    BY <1>1 DEF Stands
  <2>3. SegmentMatch(pattern, target) <=> RestMatches(pattern, target, 1)
    BY <1>1, WalkMatches
  <2> HIDE DEF Fits
  <2> QED BY <2>1, <2>2, <2>3 DEF RestMatches
<1>4. Meaning(pattern, target) <=>
        pattern = <<"*">> \/ (n = k /\ Fits(n))
          \/ \E m \in 1..n : pattern[m] = "**" /\ Fits(m - 1)
  BY <1>1, <1>2 DEF Meaning
<1>5. pattern = target => n = k /\ Fits(n)
  BY <1>1
<1>6. pattern = <<"**">> => \E m \in 1..n : pattern[m] = "**" /\ Fits(m - 1)
  <2> SUFFICES ASSUME pattern = <<"**">> PROVE 1 \in 1..n /\ pattern[1] = "**" /\ Fits(0)
    OBVIOUS
  <2> QED BY <1>1
<1>7. n = k /\ Fits(n) /\ ~ HasStar(pattern) => pattern = target
  <2> SUFFICES ASSUME n = k, Fits(n), ~ HasStar(pattern) PROVE pattern = target
    OBVIOUS
  <2>1. \A i \in 1..n : pattern[i] = target[i]
    BY <1>1, <1>2 DEF HasStar
  <2>2. pattern \in Seq(Segments) /\ target \in Seq(Segments)
    BY <1>1, SeqMonotonic DEF Segments
  <2> QED BY <2>1, <2>2, SeqEqual
<1>8. \A m \in 1..n : pattern[m] = "**" => HasStar(pattern)
  BY <1>1, <1>2 DEF HasStar
<1> DEFINE Whole == n = k /\ Fits(n)
           Open == \E m \in 1..n : pattern[m] = "**" /\ Fits(m - 1)
<1>9. Open => HasStar(pattern)
  BY <1>8
<1> HIDE DEF Fits, Whole, Open
<1>10. SegmentMatch(pattern, target) <=> Whole \/ Open
  BY <1>3 DEF Whole, Open
<1>11. Meaning(pattern, target) <=> pattern = <<"*">> \/ Whole \/ Open
  BY <1>4 DEF Whole, Open
<1>12. /\ pattern = target => Whole
       /\ pattern = <<"**">> => Open
       /\ Whole /\ ~ HasStar(pattern) => pattern = target
  BY <1>5, <1>6, <1>7 DEF Whole, Open
<1> QED BY <1>9, <1>10, <1>11, <1>12 DEF MatchesOne

\* A permission is granted exactly where a pattern held covers it, alone or in a list.
LEMMA CoveredMeans ==
  ASSUME PmTypeOK, NEW i \in DOMAIN required
  PROVE  Covered(i) <=> \E p \in owned : Meaning(p, required[i])
<1>1. CASE required[i] = <<>>
  BY <1>1 DEF Covered, Matches, BulkMatches, Meaning
<1>2. CASE required[i] # <<>>
  <2>1. required[i] \in UpTo(Words, MaxSegments)
    BY <1>2 DEF PmTypeOK
  <2>2. \A p \in owned : MatchesOne(p, required[i]) <=> Meaning(p, required[i])
    BY <2>1, MatchMeans DEF PmTypeOK
  <2>3. \A p \in owned : ~ HasStar(p) => (MatchesOne(p, required[i]) <=> p = required[i])
    <3> SUFFICES ASSUME NEW p \in owned, p \in {<<"*">>, <<"**">>} PROVE HasStar(p)
      BY DEF MatchesOne
    <3>1. 1 \in DOMAIN p /\ p[1] \notin Words
      BY PermissionsAssumption
    <3> QED BY <3>1 DEF HasStar
  <2> QED BY <1>2, <2>2, <2>3 DEF Covered, Matches, BulkMatches
<1> QED BY <1>1, <1>2

\* A check is asked on patterns and permissions, and not answered yet.
LEMMA PmInitial == PmInit => PmInv
<1> SUFFICES ASSUME PmInit PROVE PmInv
  OBVIOUS
<1>1. owned \subseteq UpTo(Segments, MaxSegments)
  BY DEF PmInit
<1>2. ASSUME NEW i \in DOMAIN required
      PROVE  required[i] \in UpTo(Words, MaxSegments) \cup {<<>>}
  BY DEF PmInit
<1>3. verdicts = {}
  BY DEF PmInit
<1> QED BY <1>1, <1>2, <1>3 DEF PmInv, PmTypeOK, GrantsWhatIsOwned

\* The answer is what is owned.
LEMMA PmStep == PmInv /\ [PmNext]_pmState => PmInv'
<1> SUFFICES ASSUME PmInv, [PmNext]_pmState PROVE PmInv'
  OBVIOUS
<1>1. PmTypeOK'
  BY DEF PmInv, PmTypeOK, PmNext, Check, pmState
<1>2. CASE UNCHANGED pmState
  BY <1>1, <1>2 DEF PmInv, GrantsWhatIsOwned, pmState
<1>3. CASE Check
  <2>1. required' = required /\ owned' = owned
    BY <1>3 DEF Check
  <2>2. \A v \in verdicts' : v.all = MatchesAll /\ v.any = MatchesAny
    BY <1>3 DEF Check
  <2>3. \A i \in DOMAIN required : Covered(i) <=> \E p \in owned : Meaning(p, required[i])
    BY CoveredMeans DEF PmInv
  <2>4. GrantsWhatIsOwned'
    BY <2>1, <2>2, <2>3 DEF GrantsWhatIsOwned, MatchesAll, MatchesAny
  <2> QED BY <1>1, <2>4 DEF PmInv
<1> QED BY <1>2, <1>3 DEF PmNext

\* For any patterns held and any permissions asked for, of whatever length, a check
\* grants what the patterns mean, one permission at a time as in a list.
THEOREM PermissionsCorrect == PmSpec => []GrantsWhatIsOwned
<1>1. PmInv => GrantsWhatIsOwned
  BY DEF PmInv
<1> QED BY <1>1, PmInitial, PmStep, PTL DEF PmSpec

-----------------------------------------------------------------------------
(***************************************************************************)
(* The event bus: a publisher that waits awaits every entry of its list.   *)
(***************************************************************************)
\* What is known of an event follows from the list its publisher took.
Snapshots ==
  /\ pc \in [Tasks -> {"idle", "dispatch"}] /\ calls \in Nat
  /\ \A t \in Tasks : pc[t] = "dispatch" =>
       publishing[t] \in Events /\ present[publishing[t]] # Nil
  /\ \A e \in Events :
       /\ sentTo[e] # Nil => DOMAIN runs[e] = DOMAIN sentTo[e]
       /\ mode # "detached" => sentTo[e] = present[e]
       /\ e \in returned => present[e] # Nil

\* One after the other: a listener's turn comes when those before it have ended.
InTurn ==
  mode # "concurrent" =>
    \A e \in Events : \A i, j \in DOMAIN runs[e] :
      j < i /\ runs[e][i] # "not yet" => runs[e][j] = "ended"

\* A publish that returned has awaited every entry.
Awaited ==
  mode # "detached" =>
    \A e \in returned : \A i \in DOMAIN runs[e] : runs[e][i] = "ended"

\* What is invariant of the event bus.
EvInv == EvTypeOK /\ Snapshots /\ InTurn /\ Awaited

\* Nothing is published at first.
LEMMA EvInitial == ControlInit /\ EvInit => EvInv
<1> SUFFICES ASSUME ControlInit, EvInit PROVE EvInv
  OBVIOUS
<1> USE EventsAssumption DEF ControlInit, EvInit
<1>1. EvTypeOK
  BY DEF EvTypeOK
<1>2. Snapshots /\ InTurn /\ Awaited
  BY DEF Snapshots, InTurn, Awaited
<1> QED BY <1>1, <1>2 DEF EvInv

\* The stages a snapshot starts with.
LEMMA FirstStagesOf ==
  ASSUME NEW list \in Seq(Listeners)
  PROVE  /\ FirstStages(list) \in Seq(RunStages)
         /\ DOMAIN FirstStages(list) = DOMAIN list
         /\ mode # "concurrent" =>
              \A i \in DOMAIN list : FirstStages(list)[i] = "not yet"
<1>1. Len(list) \in Nat /\ DOMAIN list = 1..Len(list)
  BY LenProperties
<1>2. FirstStages(list) \in [1..Len(list) -> RunStages]
  BY <1>1 DEF FirstStages, RunStages
<1>3. FirstStages(list) \in Seq(RunStages)
  BY <1>1, <1>2, SeqDef
<1> QED BY <1>1, <1>3 DEF FirstStages

\* An event gets its snapshot.
LEMMA SnapshotTaken ==
  ASSUME EvInv, NEW e \in Events, Snapshot(e), UNCHANGED mode,
         mode # "detached" => e \notin returned'
  PROVE  /\ sentTo' \in [Events -> Seq(Listeners) \cup {Nil}]
         /\ runs' \in [Events -> Seq(RunStages)]
         /\ \A d \in Events : sentTo'[d] # Nil => DOMAIN runs'[d] = DOMAIN sentTo'[d]
         /\ InTurn'
         /\ returned' = returned => Awaited'
<1> USE DEF EvInv, EvTypeOK
<1>1. /\ sentTo' = [sentTo EXCEPT ![e] = registered]
      /\ runs' = [runs EXCEPT ![e] = FirstStages(registered)]
      /\ FirstStages(registered) \in Seq(RunStages)
      /\ DOMAIN FirstStages(registered) = DOMAIN registered
  BY FirstStagesOf DEF Snapshot
<1>2. \A d \in Events : sentTo'[d] # Nil => DOMAIN runs'[d] = DOMAIN sentTo'[d]
  BY <1>1 DEF Snapshots
<1>3. InTurn'
  BY ZenonT(30), <1>1, FirstStagesOf DEF InTurn
<1>4. returned' = returned => Awaited'
  BY <1>1 DEF Awaited
<1> QED BY <1>1, <1>2, <1>3, <1>4

\* The indices before an index.
LEMMA Earlier ==
  \A n \in Nat : \A a, b \in 1..n : b < a => b \in 1..(a - 1) /\ b # a
OBVIOUS

\* One entry of one event's list goes on.
LEMMA EntryMoves ==
  ASSUME EvInv, NEW e \in Events, NEW i \in DOMAIN runs[e],
         NEW stage \in RunStages, SetStage(e, i, stage),
         UNCHANGED <<control, mode, registered, publishing, sentTo, evHistory>>,
         runs[e][i] # "ended", stage # "not yet",
         runs[e][i] = "not yet" => Due(e, i)
  PROVE  EvInv'
<1> USE DEF EvInv, evHistory, control
<1>1. runs[e] \in Seq(RunStages)
  BY DEF EvTypeOK
<1>2. Len(runs[e]) \in Nat /\ DOMAIN runs[e] = 1..Len(runs[e])
  BY <1>1, LenProperties
<1>3. [runs[e] EXCEPT ![i] = stage] \in Seq(RunStages)
  BY <1>1, <1>2, ExceptSeq
<1>4. /\ runs' = [runs EXCEPT ![e] = [runs[e] EXCEPT ![i] = stage]]
      /\ DOMAIN runs = Events
  BY DEF SetStage, EvTypeOK
<1>5. /\ \A d \in Events : DOMAIN runs'[d] = DOMAIN runs[d]
      /\ \A d \in Events : \A j \in DOMAIN runs[d] :
           runs'[d][j] = IF d = e /\ j = i THEN stage ELSE runs[d][j]
  BY <1>4
<1>6. EvTypeOK'
  BY <1>3, <1>4 DEF EvTypeOK
<1>7. Snapshots'
  BY <1>5 DEF Snapshots
<1>8. InTurn'
  <2> SUFFICES ASSUME mode # "concurrent", NEW d \in Events, NEW k \in DOMAIN runs[d],
                      NEW j \in DOMAIN runs[d], j < k, runs'[d][k] # "not yet"
               PROVE  runs'[d][j] = "ended"
    BY <1>5 DEF InTurn
  <2>1. CASE d = e /\ k = i
    <3>1. i \in 1..Len(runs[e]) /\ j \in 1..Len(runs[e]) /\ j < i
      BY <1>2, <2>1, Zenon
    <3>2. j \in 1..(i - 1) /\ j # i
      BY <1>2, <3>1, Earlier, Zenon
    <3>3. CASE runs[e][i] = "not yet"
      BY <1>5, <2>1, <3>2, <3>3 DEF Due
    <3>4. CASE runs[e][i] # "not yet"
      BY <1>5, <2>1, <3>2, <3>4 DEF InTurn
    <3> QED BY <3>3, <3>4
  <2>2. CASE d = e /\ j = i /\ k # i
    BY <1>5, <2>2 DEF InTurn
  <2>3. CASE d # e \/ (j # i /\ k # i)
    BY ZenonT(30), <1>5, <2>3 DEF InTurn
  <2> QED BY <1>2, <2>1, <2>2, <2>3
<1>9. Awaited'
  BY ZenonT(30), <1>5 DEF Awaited, EvTypeOK
<1> QED BY <1>6, <1>7, <1>8, <1>9

\* Every step keeps the invariant; one step of the proof per action.
LEMMA EvInductive ==
  ASSUME EvInv, [EvNext]_evVars
  PROVE  EvInv'
<1> USE EventsAssumption, RequestsAssumption
    DEF EvInv, EvTypeOK, Snapshots, evHistory, Call, Begin, Goto, Finish
<1>0. ASSUME UNCHANGED <<mode, returned, runs>>
      PROVE  InTurn' /\ Awaited'
  <2> HIDE DEF EvTypeOK, Snapshots
  <2>1. InTurn'
    BY <1>0 DEF InTurn
  <2>2. Awaited'
    BY <1>0 DEF Awaited
  <2> QED BY <2>1, <2>2
<1>1. ASSUME NEW l \in Listeners, Register(l)
      PROVE  EvInv'
  <2>1. registered' \in Seq(Listeners)
    BY <1>1, AppendProperties DEF Register
  <2> QED BY <1>0, <1>1, <2>1 DEF Register, control
<1>2. CASE ClearListeners
  <2>1. registered' \in Seq(Listeners)
    BY <1>2, EmptySeq DEF ClearListeners
  <2> QED BY <1>0, <1>2, <2>1 DEF ClearListeners, control
<1>3. ASSUME NEW t \in Tasks, Published(t)
      PROVE  EvInv'
  <2>1. EvTypeOK' /\ Snapshots'
    BY <1>3 DEF Published
  <2>2. InTurn' /\ Awaited'
    <3> HIDE DEF EvTypeOK, Snapshots
    <3>1. /\ UNCHANGED <<mode, runs>> /\ returned' = returned \cup {publishing[t]}
          /\ \A i \in DOMAIN runs[publishing[t]] : runs[publishing[t]][i] = "ended"
      BY <1>3 DEF Published
    <3>2. InTurn'
      BY <3>1 DEF InTurn
    <3>3. Awaited'
      BY <3>1 DEF Awaited
    <3> QED BY <3>2, <3>3
  <2> QED BY <2>1, <2>2
<1>4. ASSUME NEW t \in Tasks, PublisherDropped(t)
      PROVE  EvInv'
  <2>1. EvTypeOK' /\ Snapshots'
    BY <1>4 DEF PublisherDropped, Dropped
  <2> QED BY <1>0, <1>4, <2>1 DEF PublisherDropped
<1>5. ASSUME NEW t \in Tasks, NEW e \in Events, Publish(t, e)
      PROVE  EvInv'
  <2>1. CASE mode = "detached"
    <3>1. EvTypeOK' /\ Snapshots'
      BY <1>5, <2>1 DEF Publish
    <3>2. InTurn' /\ Awaited'
      <4> HIDE DEF EvTypeOK, Snapshots
      <4>1. UNCHANGED <<mode, runs>>
        BY <1>5, <2>1 DEF Publish
      <4>2. InTurn'
        BY <4>1 DEF InTurn
      <4>3. Awaited'
        BY <2>1, <4>1 DEF Awaited
      <4> QED BY <4>2, <4>3
    <3> QED BY <3>1, <3>2
  <2>2. CASE mode # "detached"
    <3>1. Snapshot(e) /\ e \notin returned /\ UNCHANGED <<mode, registered, returned, cut>>
      BY <1>5, <2>2 DEF Publish
    <3>2. /\ sentTo' \in [Events -> Seq(Listeners) \cup {Nil}]
          /\ runs' \in [Events -> Seq(RunStages)]
          /\ \A d \in Events : sentTo'[d] # Nil => DOMAIN runs'[d] = DOMAIN sentTo'[d]
          /\ InTurn' /\ Awaited'
      BY <3>1, SnapshotTaken
    <3>3. /\ present' = [present EXCEPT ![e] = registered] /\ pc[t] = "idle"
          /\ publishing' = [publishing EXCEPT ![t] = e]
          /\ pc' = [pc EXCEPT ![t] = "dispatch"] /\ calls' = calls + 1
          /\ sentTo' = [sentTo EXCEPT ![e] = registered]
      BY <1>5, <2>2, <3>1 DEF Publish, Snapshot
    <3>4. EvTypeOK'
      <4> HIDE DEF Snapshots
      <4> QED BY <3>1, <3>2, <3>3
    <3>5. /\ pc' \in [Tasks -> {"idle", "dispatch"}] /\ calls' \in Nat
          /\ \A u \in Tasks : pc'[u] = "dispatch" =>
               publishing'[u] \in Events /\ present'[publishing'[u]] # Nil
      BY <3>3
    <3>6. \A d \in Events :
            /\ mode' # "detached" => sentTo'[d] = present'[d]
            /\ d \in returned' => present'[d] # Nil
      BY <3>1, <3>3
    <3>7. Snapshots'
      <4> HIDE DEF EvTypeOK
      <4> QED BY <3>2, <3>5, <3>6
    <3> QED BY <3>2, <3>4, <3>7
  <2> QED BY <2>1, <2>2
<1>6. ASSUME NEW e \in Events, DetachedSnapshot(e)
      PROVE  EvInv'
  <2>1. /\ Snapshot(e) /\ mode = "detached"
        /\ UNCHANGED <<pc, calls, mode, registered, publishing, present, returned, cut>>
    BY <1>6 DEF DetachedSnapshot, control
  <2>2. /\ sentTo' \in [Events -> Seq(Listeners) \cup {Nil}]
        /\ runs' \in [Events -> Seq(RunStages)]
        /\ \A d \in Events : sentTo'[d] # Nil => DOMAIN runs'[d] = DOMAIN sentTo'[d]
        /\ InTurn' /\ Awaited'
    BY <2>1, SnapshotTaken
  <2> QED BY <2>1, <2>2
<1>7. ASSUME NEW e \in Events, Invoke(e)
      PROVE  EvInv'
  <2>1. PICK i \in DOMAIN runs[e] : Due(e, i) /\ SetStage(e, i, "generic")
    BY <1>7 DEF Invoke
  <2> HIDE DEF EvInv, EvTypeOK, Snapshots
  <2> QED BY <1>7, <2>1, EntryMoves DEF Invoke, Due, RunStages
<1>8. ASSUME NEW e \in Events, NEW i \in DOMAIN runs[e], CallTyped(e, i)
      PROVE  EvInv'
  <2> HIDE DEF EvInv, EvTypeOK, Snapshots
  <2> QED BY <1>8, EntryMoves DEF CallTyped, RunStages
<1>9. ASSUME NEW e \in Events, NEW i \in DOMAIN runs[e], ListenerEnds(e, i)
      PROVE  EvInv'
  <2> HIDE DEF EvInv, EvTypeOK, Snapshots
  <2> QED BY <1>9, EntryMoves DEF ListenerEnds, Running, RunStages
<1>10. ASSUME NEW e \in Events, NEW i \in DOMAIN runs[e], TimedOut(e, i)
       PROVE  EvInv'
  <2> HIDE DEF EvInv, EvTypeOK, Snapshots
  <2> QED BY <1>10, EntryMoves DEF TimedOut, Running, RunStages
<1>11. CASE UNCHANGED evVars
  BY <1>0, <1>11 DEF evVars, evState, control
<1> HIDE DEF EvInv
<1> QED
  BY <1>1, <1>2, <1>3, <1>4, <1>5, <1>6, <1>7, <1>8, <1>9, <1>10, <1>11 DEF EvNext

\* When a publish returns to a caller that waits, each listener of the list it found has
\* had the event; and a bus that is not concurrent runs one listener of an event at a
\* time.
THEOREM EventBusCorrect == EvSpec => [](EvTypeOK /\ EveryListenerHears)
<1>1. ASSUME EvInv PROVE EveryListenerHears
  <2> USE <1>1, EventsAssumption DEF EvInv, EvTypeOK
  <2>1. ASSUME mode # "detached", NEW e \in returned
        PROVE  runs[e] = [i \in DOMAIN present[e] |-> "ended"]
    BY <2>1 DEF Snapshots, Awaited
  <2>2. ASSUME mode # "concurrent", NEW e \in Events, NEW i \in DOMAIN runs[e],
               NEW j \in DOMAIN runs[e], {runs[e][i], runs[e][j]} \subseteq Running
        PROVE  i = j
    <3>1. Len(runs[e]) \in Nat /\ DOMAIN runs[e] = 1..Len(runs[e])
      BY LenProperties
    <3>2. i \in Nat /\ j \in Nat /\ (i < j \/ j < i \/ i = j)
      BY <3>1
    <3>3. runs[e][i] \in {"generic", "typed"} /\ runs[e][j] \in {"generic", "typed"}
      BY <2>2 DEF Running
    <3>4. /\ j < i => runs[e][j] = "ended"
          /\ i < j => runs[e][i] = "ended"
      <4> HIDE DEF EvTypeOK
      <4> QED BY <2>2, <3>3 DEF InTurn
    <3> QED BY <3>2, <3>3, <3>4
  <2> QED BY <2>1, <2>2 DEF EveryListenerHears
<1>2. EvInv => EvTypeOK
  BY DEF EvInv
<1> QED BY EvInitial, EvInductive, <1>1, <1>2, PTL DEF EvSpec

-----------------------------------------------------------------------------
(***************************************************************************)
(* The back ends: a simulation.  Keys that are not set apart hold the same *)
(* on both sides, up to entries that have expired.                         *)
(***************************************************************************)
\* What Redis still holds of an entry.
Fresh(e) == IF Expired(e) THEN Nil ELSE e

\* The types, as far as the argument needs them.
BeShaped ==
  /\ second \in Nat
  /\ \A s \in {scalars, redis} :
       s \in [ScalarKeys -> [value : Contents, until : Deadlines] \cup {Nil}]
  /\ \A l \in {lists, redisLists} : DOMAIN l = ListKeys
  /\ \A k \in ListKeys : \A l \in {lists[k], redisLists[k]} :
       l = [value |-> l.value, until |-> l.until] /\ l.until \in Deadlines
  /\ purging \in [Tasks -> ScalarKeys \cup {Nil}]
  /\ pc \in [Tasks -> {"idle", "purge"}]
  /\ \A t \in Tasks : pc[t] = "purge" => purging[t] \in ScalarKeys

\* A key that is not set apart holds the same entry on both sides, once the expired ones
\* are gone.
ScalarsPaired ==
  \A k \in ScalarKeys \ apart : redis[k] = Fresh(scalars[k])

\* So does a list; its expiry matters while it has members.
ListsPaired ==
  \A k \in ListKeys :
    /\ k \notin TimedLists => lists[k].until = Nil /\ redisLists[k].until = Nil
    /\ k \notin apart =>
         /\ redisLists[k].value = Members(lists[k])
         /\ redisLists[k].value # <<>> => redisLists[k].until = lists[k].until

\* What is invariant of the back end beside Redis.
BeInv == BeShaped /\ ScalarsPaired /\ ListsPaired /\ BackendsAgree

\* Both are empty at first.
LEMMA BeInitial == ControlInit /\ BeInit => BeInv
<1> SUFFICES ASSUME ControlInit, BeInit PROVE BeInv
  OBVIOUS
<1>1. BeShaped
  BY BackendsAssumption DEF ControlInit, BeInit, BeShaped, Deadlines, NoList
<1>2. ScalarsPaired
  BY DEF BeInit, ScalarsPaired, Fresh, Expired, Past
<1>3. ListsPaired
  BY BackendsAssumption DEF BeInit, ListsPaired, Members, Past, NoList
<1>4. BackendsAgree
  BY DEF BeInit, BackendsAgree
<1> QED BY <1>1, <1>2, <1>3, <1>4 DEF BeInv

\* An entry just made is there, and has its value.
LEMMA EntryMade ==
  ASSUME BeShaped, NEW v \in Contents, NEW timed \in BOOLEAN
  PROVE  /\ Entry(v, timed) \in [value : Contents, until : Deadlines]
         /\ Fresh(Entry(v, timed)) = Entry(v, timed)
<1> DEFINE u == IF timed THEN second + EntryTtl ELSE Nil
<1>1. Entry(v, timed) = [value |-> v, until |-> u]
  BY DEF Entry
<1>2. u \in Deadlines
  BY BackendsAssumption DEF BeShaped, Deadlines
<1>3. Entry(v, timed).until = u
  BY <1>1
<1>4. ~ (u # Nil /\ second > u)
  BY BackendsAssumption DEF BeShaped
<1> QED BY <1>1, <1>2, <1>3, <1>4 DEF Fresh, Expired, Past

\* What two paired entries answer.
LEMMA PairedAnswers ==
  ASSUME BeInv, NEW k \in ScalarKeys, k \notin apart
  PROVE  /\ Current(scalars[k]) = Current(redis[k])
         /\ (Current(scalars[k]) = Nil) <=> (redis[k] = Nil)
         /\ Left(scalars[k]) = Left(redis[k])
         /\ redis[k] # Nil => redis[k] = scalars[k]
<1>1. redis[k] = Fresh(scalars[k])
  BY DEF BeInv, ScalarsPaired
<1>2. scalars[k] \in [value : Contents, until : Deadlines] \cup {Nil}
  BY DEF BeInv, BeShaped
<1>3. scalars[k] # Nil => scalars[k].value # Nil
  BY <1>2, BackendsAssumption
<1> QED BY <1>1, <1>3 DEF Fresh, Expired, Past, Current, Left

\* A call that writes the same entry to both sides keeps them paired.
LEMMA WriteKeeps ==
  ASSUME BeInv, NEW t, NEW k \in ScalarKeys, NEW a, NEW b,
         NEW e \in [value : Contents, until : Deadlines] \cup {Nil},
         NEW r \in [value : Contents, until : Deadlines] \cup {Nil},
         Write(t, k, e, r, a, b), apart' = apart \/ apart' = apart \ {k},
         k \notin apart' => r = Fresh(e) /\ a = b
  PROVE  BeInv'
<1> USE DEF Write, Answers
<1>1. BeShaped'
  BY DEF BeInv, BeShaped
<1>2. ScalarsPaired'
  <2> SUFFICES ASSUME NEW j \in ScalarKeys, j \notin apart'
               PROVE  redis'[j] = Fresh(scalars[j])'
    BY DEF ScalarsPaired
  <2>1. CASE j = k
    BY <2>1 DEF BeInv, BeShaped, Fresh, Expired, Past
  <2>2. CASE j # k
    BY <2>2 DEF BeInv, BeShaped, ScalarsPaired, Fresh, Expired, Past
  <2> QED BY <2>1, <2>2
<1>3. ListsPaired'
  BY BackendsAssumption DEF BeInv, ListsPaired, Members, Past
<1>4. BackendsAgree'
  BY DEF BackendsAgree
<1> QED BY <1>1, <1>2, <1>3, <1>4 DEF BeInv

\* So does one that writes a list.
LEMMA ListWriteKeeps ==
  ASSUME BeInv, NEW t, NEW k \in ListKeys, NEW a, NEW b, NEW l, NEW r,
         \A x \in {l, r} :
           x = [value |-> x.value, until |-> x.until] /\ x.until \in Deadlines,
         ListWrite(t, k, l, r, a, b), apart' = apart \/ apart' = apart \cup {k},
         k \notin TimedLists => l.until = Nil /\ r.until = Nil,
         k \notin apart' => /\ r.value = Members(l) /\ a = b
                            /\ r.value # <<>> => r.until = l.until
  PROVE  BeInv'
<1> USE DEF ListWrite, Answers
<1>1. BeShaped'
  BY DEF BeInv, BeShaped
<1>2. ScalarsPaired'
  BY BackendsAssumption DEF BeInv, ScalarsPaired, Fresh, Expired, Past
<1>3. ListsPaired'
  <2> SUFFICES ASSUME NEW j \in ListKeys
               PROVE  /\ j \notin TimedLists =>
                           lists'[j].until = Nil /\ redisLists'[j].until = Nil
                      /\ j \notin apart' =>
                           /\ redisLists'[j].value = Members(lists[j])'
                           /\ redisLists'[j].value # <<>> =>
                                redisLists'[j].until = lists'[j].until
    BY DEF ListsPaired
  <2>1. CASE j = k
    BY <2>1 DEF BeInv, BeShaped, Members, Past
  <2>2. CASE j # k
    BY <2>2 DEF BeInv, BeShaped, ListsPaired, Members, Past
  <2> QED BY <2>1, <2>2
<1>4. BackendsAgree'
  BY DEF BackendsAgree
<1> QED BY <1>1, <1>2, <1>3, <1>4 DEF BeInv

\* The calls on scalar keys; one step of the proof per operation.
LEMMA ScalarCallKeeps ==
  ASSUME BeInv, NEW t \in Tasks, NEW k \in ScalarKeys, ScalarCall(t, k)
  PROVE  BeInv'
<1> DEFINE Es == [value : Contents, until : Deadlines] \cup {Nil}
<1>0. BeShaped /\ scalars[k] \in Es /\ redis[k] \in Es /\ Nil \in Es
      /\ Fresh(Nil) = Nil
  BY DEF BeInv, BeShaped, Fresh, Expired, Past
<1>a. k \notin apart => redis[k] = Fresh(scalars[k])
  BY DEF BeInv, ScalarsPaired
<1>b. k \notin apart => /\ Current(scalars[k]) = Current(redis[k])
                        /\ (Current(scalars[k]) = Nil) <=> (redis[k] = Nil)
                        /\ Left(scalars[k]) = Left(redis[k])
  BY PairedAnswers
<1>1. CASE Get(t, k)
  <2>1. BeShaped'
    BY <1>1, <1>0 DEF Get, Begin, BeShaped, beStore, beRedis
  <2>2. ScalarsPaired' /\ ListsPaired'
    BY <1>1 DEF Get, beStore, beRedis, BeInv, ScalarsPaired, ListsPaired, Fresh,
       Expired, Past, Members
  <2>3. BackendsAgree'
    BY <1>1, <1>b DEF Get, Answers, BackendsAgree
  <2> QED BY <2>1, <2>2, <2>3 DEF BeInv
<1>2. CASE Delete(t, k)
  BY <1>2, <1>0, WriteKeeps DEF Delete
<1>3. CASE GetDel(t, k)
  <2>1. Write(t, k, Nil, Nil, Current(scalars[k]), Current(redis[k])) /\ apart' = apart
    BY <1>3 DEF GetDel, Atomic
  <2> QED BY <2>1, <1>0, <1>b, WriteKeeps
<1>4. CASE RemainingTtl(t, k)
  <2>1. BeShaped' /\ ScalarsPaired' /\ ListsPaired'
    BY <1>4 DEF RemainingTtl, beStore, beRedis, BeInv, BeShaped, ScalarsPaired,
       ListsPaired, Fresh, Expired, Past, Members
  <2>2. BackendsAgree'
    BY <1>4, <1>b DEF RemainingTtl, Answers, BackendsAgree
  <2> QED BY <2>1, <2>2 DEF BeInv
<1>5. ASSUME NEW v \in Contents, NEW timed \in BOOLEAN, Set(t, k, v, timed)
      PROVE  BeInv'
  BY <1>5, <1>0, EntryMade, WriteKeeps DEF Set
<1>6. ASSUME NEW v \in Contents, NEW timed \in BOOLEAN, SetIfAbsent(t, k, v, timed)
      PROVE  BeInv'
  <2> DEFINE a == Current(scalars[k]) = Nil
             b == redis[k] = Nil
             e == IF a THEN Entry(v, timed) ELSE scalars[k]
             r == IF b THEN Entry(v, timed) ELSE redis[k]
  <2>1. Write(t, k, e, r, a, b) /\ apart' = apart
    BY <1>6 DEF SetIfAbsent, Atomic
  <2>2. e \in Es /\ r \in Es
    BY <1>0, EntryMade
  <2>3. k \notin apart => r = Fresh(e) /\ a = b
    BY <1>0, <1>a, <1>b, EntryMade
  <2> HIDE DEF a, b, e, r
  <2> QED BY <2>1, <2>2, <2>3, WriteKeeps
<1>7. ASSUME NEW v \in Contents, NEW timed \in BOOLEAN, NEW x \in Contents \cup {Nil},
             CompareAndSwap(t, k, x, v, timed)
      PROVE  BeInv'
  <2> DEFINE a == Current(scalars[k]) = x
             b == Current(redis[k]) = x
             e == IF a THEN Entry(v, timed) ELSE scalars[k]
             r == IF b THEN Entry(v, timed) ELSE redis[k]
  <2>1. Write(t, k, e, r, a, b) /\ apart' = apart
    BY <1>7 DEF CompareAndSwap, Atomic
  <2>2. e \in Es /\ r \in Es
    BY <1>0, EntryMade
  <2>3. k \notin apart => r = Fresh(e) /\ a = b
    BY <1>0, <1>a, <1>b, EntryMade
  <2> HIDE DEF a, b, e, r
  <2> QED BY <2>1, <2>2, <2>3, WriteKeeps
<1>8. ASSUME NEW x \in Contents, CompareAndDelete(t, k, x)
      PROVE  BeInv'
  <2> DEFINE a == Current(scalars[k]) = x
             b == Current(redis[k]) = x
             e == IF a THEN Nil ELSE scalars[k]
             r == IF b THEN Nil ELSE redis[k]
  <2>1. Write(t, k, e, r, a, b) /\ apart' = apart
    BY <1>8 DEF CompareAndDelete, Atomic
  <2>2. e \in Es /\ r \in Es
    BY <1>0
  <2>3. k \notin apart => r = Fresh(e) /\ a = b
    BY <1>0, <1>a, <1>b
  <2> HIDE DEF a, b, e, r
  <2> QED BY <2>1, <2>2, <2>3, WriteKeeps
<1> HIDE DEF BeInv
<1> QED BY <1>1, <1>2, <1>3, <1>4, <1>5, <1>6, <1>7, <1>8 DEF ScalarCall

\* The calls on list keys; one step of the proof per operation.
LEMMA ListCallKeeps ==
  ASSUME BeInv, NEW t \in Tasks, NEW k \in ListKeys, ListCall(t, k)
  PROVE  BeInv'
<1> DEFINE Listed(x) ==
      x = [value |-> x.value, until |-> x.until] /\ x.until \in Deadlines
<1>0. second \in Nat /\ Listed(lists[k]) /\ Listed(redisLists[k])
  BY DEF BeInv, BeShaped
<1>a. Listed(NoList) /\ NoList.value = <<>> /\ NoList.until = Nil
  BY DEF NoList, Deadlines
<1>b. /\ k \notin TimedLists => lists[k].until = Nil /\ redisLists[k].until = Nil
      /\ k \notin apart =>
           /\ redisLists[k].value = Members(lists[k])
           /\ redisLists[k].value # <<>> => redisLists[k].until = lists[k].until
  BY DEF BeInv, ListsPaired
<1>1. CASE ListRange(t, k)
  <2>1. /\ ListWrite(t, k, lists[k], redisLists[k], Members(lists[k]),
                     redisLists[k].value)
        /\ apart' = apart
    BY <1>1 DEF ListRange, Atomic
  <2> QED BY <2>1, <1>0, <1>b, ListWriteKeeps
<1>2. CASE DeleteList(t, k)
  <2>1. ListWrite(t, k, NoList, redisLists[k], TRUE, TRUE)
    BY <1>2 DEF DeleteList
  <2>2. apart' = IF redisLists[k].value = <<>> THEN apart ELSE apart \cup {k}
    BY <1>2 DEF DeleteList
  <2>3. Members(NoList) = <<>>
    BY <1>a DEF Members, Past
  <2> QED BY ZenonT(30), <2>1, <2>2, <2>3, <1>0, <1>a, <1>b, ListWriteKeeps
<1>3. ASSUME NEW m \in Contents, ListPush(t, k, m)
      PROVE  BeInv'
  <2> DEFINE old == IF Past(lists[k]) THEN NoList ELSE lists[k]
             With(s) == IF Contains(s, m) THEN s ELSE Append(s, m)
             l == Touched(old, With(old.value), k)
             r == Touched(redisLists[k], With(redisLists[k].value), k)
  <2>1. /\ ListWrite(t, k, l, r, Len(With(old.value)), Len(With(redisLists[k].value)))
        /\ apart' = apart
    BY <1>3 DEF ListPush, Atomic
  <2>2. old.value = Members(lists[k])
    BY <1>a DEF Members
  <2>3. old.until \in Deadlines
    BY <1>0, <1>a
  <2> HIDE DEF old, With
  <2>4. /\ l.value = With(old.value) /\ r.value = With(redisLists[k].value)
        /\ l.until = IF k \in TimedLists THEN second + EntryTtl ELSE old.until
        /\ r.until = IF k \in TimedLists THEN second + EntryTtl ELSE redisLists[k].until
    BY DEF Touched
  <2>5. Listed(l) /\ Listed(r)
    BY <2>3, <1>0, BackendsAssumption DEF Touched, Deadlines
  <2>6. Members(l) = l.value
    <3>1. ~ (l.until # Nil /\ second > l.until)
      <4>1. CASE k \in TimedLists
        BY <4>1, <2>4, <1>0, BackendsAssumption
      <4>2. CASE k \notin TimedLists
        <5>1. old.until = Nil
          BY <4>2, <1>a, <1>b DEF old
        <5> QED BY <4>2, <5>1, <2>4
      <4> QED BY <4>1, <4>2
    <3> QED BY <3>1 DEF Members, Past
  <2>7. k \notin TimedLists => l.until = Nil /\ r.until = Nil
    <3>1. k \notin TimedLists => old.until = Nil
      BY <1>a, <1>b DEF old
    <3> QED BY <3>1, <2>4, <1>b
  <2>8. k \notin apart =>
          /\ r.value = Members(l)
          /\ Len(With(old.value)) = Len(With(redisLists[k].value))
          /\ r.value # <<>> => r.until = l.until
    <3> SUFFICES ASSUME k \notin apart
                 PROVE  /\ r.value = Members(l)
                        /\ Len(With(old.value)) = Len(With(redisLists[k].value))
                        /\ r.until = l.until
      OBVIOUS
    <3>1. redisLists[k].value = old.value
      BY <1>b, <2>2
    <3>2. r.until = l.until
      BY <2>4, <2>7
    <3> QED BY <3>1, <3>2, <2>4, <2>6
  <2> HIDE DEF l, r
  <2> QED BY <2>1, <2>5, <2>7, <2>8, ListWriteKeeps
<1>4. ASSUME NEW m \in Contents, ListRemove(t, k, m)
      PROVE  BeInv'
  <2> DEFINE a == Less(Members(lists[k]), m)
             b == Less(redisLists[k].value, m)
             l == [lists[k] EXCEPT !.value = a]
             r == IF b = <<>> THEN NoList ELSE [redisLists[k] EXCEPT !.value = b]
  <2>1. /\ ListWrite(t, k, l, r, a # Members(lists[k]), b # redisLists[k].value)
        /\ apart' = apart
    BY <1>4 DEF ListRemove, Atomic
  <2>2. Past(lists[k]) => a = <<>>
    <3> SUFFICES Less(<<>>, m) = <<>>
      BY DEF Members
    <3> QED BY DEF Less, Contains
  <2>3. k \notin apart => a = b
    BY <1>b
  <2>a. b # <<>> => redisLists[k].value # <<>>
    BY DEF Less, Contains
  <2> HIDE DEF a, b
  <2>4. l.value = a /\ l.until = lists[k].until /\ Listed(l)
    BY <1>0
  <2>5. r.value = b /\ Listed(r) /\ (b # <<>> => r.until = redisLists[k].until)
    BY <1>0, <1>a
  <2>6. k \notin TimedLists => l.until = Nil /\ r.until = Nil
    BY <1>a, <1>b, <2>4
  <2>7. Members(l) = a
    BY <2>2, <2>4 DEF Members, Past
  <2>8. k \notin apart =>
          /\ r.value = Members(l) /\ (a # Members(lists[k])) = (b # redisLists[k].value)
          /\ r.value # <<>> => r.until = l.until
    BY <1>b, <2>3, <2>a, <2>4, <2>5, <2>7
  <2> HIDE DEF l, r
  <2> QED BY <2>1, <2>4, <2>5, <2>6, <2>8, ListWriteKeeps
<1> HIDE DEF BeInv
<1> QED BY <1>1, <1>2, <1>3, <1>4 DEF ListCall

\* BeInv is inductive: calls, a late purge, the clock and the cleanup.
LEMMA BeStep == BeInv /\ [BeNext]_beVars => BeInv'
<1> SUFFICES ASSUME BeInv, [BeNext]_beVars PROVE BeInv'
  OBVIOUS
<1>1. CASE UNCHANGED beVars
  BY <1>1 DEF beVars, control, beState, beStore, beRedis, BeInv, BeShaped, ScalarsPaired,
     ListsPaired, BackendsAgree, Fresh, Expired, Past, Members
<1>2. ASSUME NEW t \in Tasks, Purge(t)
      PROVE  BeInv'
  <2>1. BeShaped'
    BY <1>2 DEF Purge, Finish, Goto, beRedis, BeInv, BeShaped
  <2>2. ScalarsPaired'
    <3> SUFFICES ASSUME NEW j \in ScalarKeys, j \notin apart'
                 PROVE  redis'[j] = Fresh(scalars[j])'
      BY DEF ScalarsPaired
    <3>1. j \notin apart /\ redis'[j] = redis[j] /\ redis[j] = Fresh(scalars[j])
      BY <1>2 DEF Purge, beRedis, BeInv, ScalarsPaired
    <3>2. CASE j = purging[t]
      <4>1. scalars'[j] = Nil
        BY <1>2, <3>2 DEF Purge, BeInv, BeShaped
      <4>2. Current(scalars[j]) = Nil
        BY <1>2, <3>2 DEF Purge
      <4>3. redis[j] = Nil
        BY <3>1, <4>2, PairedAnswers
      <4> QED BY <3>1, <4>1, <4>3 DEF Fresh, Expired, Past
    <3>3. CASE j # purging[t]
      BY <1>2, <3>1, <3>3 DEF Purge, BeInv, BeShaped, Fresh, Expired, Past
    <3> QED BY <3>2, <3>3
  <2>3. ListsPaired'
    BY <1>2 DEF Purge, beRedis, BeInv, ListsPaired, Members, Past
  <2>4. BackendsAgree'
    BY <1>2 DEF Purge, BeInv, BackendsAgree
  <2> QED BY <2>1, <2>2, <2>3, <2>4 DEF BeInv
<1>3. CASE PassSecond
  <2> DEFINE Gone(e) == e.until # Nil /\ second + 1 > e.until
  <2>0. /\ second' = second + 1 /\ scalars' = scalars /\ lists' = lists
        /\ redis' = [k \in ScalarKeys |-> IF redis[k] # Nil /\ Gone(redis[k]) THEN Nil ELSE redis[k]]
        /\ redisLists' = [k \in ListKeys |->
                            IF Gone(redisLists[k]) THEN NoList ELSE redisLists[k]]
        /\ pc' = pc /\ purging' = purging /\ apart' = apart /\ replied' = replied
    BY <1>3 DEF PassSecond, control, beStore
  <2>1. BeShaped'
    BY <2>0 DEF BeInv, BeShaped, NoList, Deadlines
  <2>2. ScalarsPaired'
    <3> SUFFICES ASSUME NEW j \in ScalarKeys, j \notin apart
                 PROVE  redis'[j] = Fresh(scalars[j])'
      BY <2>0 DEF ScalarsPaired
    <3>1. redis[j] = Fresh(scalars[j])
      BY DEF BeInv, ScalarsPaired
    <3>2. second \in Nat /\ scalars[j] \in [value : Contents, until : Deadlines] \cup {Nil}
      BY DEF BeInv, BeShaped
    <3>3. Expired(scalars[j])' <=> scalars[j] # Nil /\ Gone(scalars[j])
      BY <2>0 DEF Expired, Past
    <3>4. Expired(scalars[j]) => Gone(scalars[j])
      BY <3>2 DEF Expired, Past, Deadlines
    <3>5. redis'[j] = IF redis[j] # Nil /\ Gone(redis[j]) THEN Nil ELSE redis[j]
      BY <2>0
    <3>6. Fresh(scalars[j])' = IF scalars[j] # Nil /\ Gone(scalars[j]) THEN Nil ELSE scalars[j]
      BY <3>3, <2>0 DEF Fresh
    <3> QED BY <3>1, <3>4, <3>5, <3>6 DEF Fresh, Expired
  <2>3. ListsPaired'
    <3> SUFFICES ASSUME NEW j \in ListKeys
                 PROVE  /\ j \notin TimedLists =>
                             lists'[j].until = Nil /\ redisLists'[j].until = Nil
                        /\ j \notin apart =>
                             /\ redisLists'[j].value = Members(lists[j])'
                             /\ redisLists'[j].value # <<>> =>
                                  redisLists'[j].until = lists'[j].until
      BY <2>0 DEF ListsPaired
    <3>1. /\ j \notin TimedLists => lists[j].until = Nil /\ redisLists[j].until = Nil
          /\ j \notin apart =>
               /\ redisLists[j].value = Members(lists[j])
               /\ redisLists[j].value # <<>> => redisLists[j].until = lists[j].until
      BY DEF BeInv, ListsPaired
    <3>2. redisLists'[j] = IF Gone(redisLists[j]) THEN NoList ELSE redisLists[j]
      BY <2>0
    <3>3. NoList.value = <<>> /\ NoList.until = Nil
      BY DEF NoList
    <3>4. Members(lists[j])' = IF Gone(lists[j]) THEN <<>> ELSE lists[j].value
      BY <2>0 DEF Members, Past
    <3>5. Past(lists[j]) => Gone(lists[j])
      BY DEF BeInv, BeShaped, Past, Deadlines
    <3>6. \A l \in {lists[j], redisLists[j]} : l = [value |-> l.value, until |-> l.until]
      BY DEF BeInv, BeShaped
    <3>7. j \notin TimedLists =>
            lists'[j].until = Nil /\ redisLists'[j].until = Nil
      BY <2>0, <3>1, <3>2, <3>3
    <3>8. CASE redisLists[j].value = <<>>
      <4>1. redisLists'[j].value = <<>>
        BY <3>2, <3>3, <3>8
      <4>2. j \notin apart => Members(lists[j])' = <<>>
        BY <3>1, <3>4, <3>5, <3>8 DEF Members
      <4> QED BY <3>7, <4>1, <4>2
    <3>9. CASE redisLists[j].value # <<>>
      <4>1. j \notin apart => redisLists[j] = lists[j]
        BY <3>1, <3>6, <3>9 DEF Members
      <4> HIDE DEF Gone
      <4> QED BY <2>0, <3>2, <3>3, <3>4, <3>7, <4>1
    <3> QED BY <3>8, <3>9
  <2>4. BackendsAgree'
    BY <2>0 DEF BeInv, BackendsAgree
  <2> QED BY <2>1, <2>2, <2>3, <2>4 DEF BeInv
<1>4. CASE CleanupEntries
  <2>1. BeShaped'
    BY <1>4 DEF CleanupEntries, control, beRedis, BeInv, BeShaped, NoList, Deadlines
  <2>2. ScalarsPaired'
    BY <1>4 DEF CleanupEntries, beRedis, BeInv, ScalarsPaired, Fresh, Expired, Past
  <2>3. ListsPaired'
    BY <1>4 DEF CleanupEntries, beRedis, BeInv, ListsPaired, Members, Past, NoList
  <2>4. BackendsAgree'
    BY <1>4 DEF CleanupEntries, BeInv, BackendsAgree
  <2> QED BY <2>1, <2>2, <2>3, <2>4 DEF BeInv
<1> HIDE DEF BeInv
<1> QED BY <1>1, <1>2, <1>3, <1>4, ScalarCallKeeps, ListCallKeeps DEF BeNext

\* For any number of requests, keys and values, each back end answers as Redis does on
\* the keys that were not set apart.
THEOREM BackendsCorrect == BeSpec => []BackendsAgree
<1>1. BeInv => BackendsAgree
  BY DEF BeInv
<1> QED BY <1>1, BeInitial, BeStep, PTL DEF BeSpec

-----------------------------------------------------------------------------
(***************************************************************************)
(* Storage keys.  A key is the prefix of its account system, then its      *)
(* category, then the rest; two keys that are equal are equal part by part.*)
(***************************************************************************)
\* The words of the categories.
CategoryWords ==
  {"token", "token-id", "token-session", "last-active", "login", "tokens", "session",
   "permission", "role", "refresh", "user", "nonce", "oauth2", "client", "code", "sso",
   "ticket", "dsession", "dservice", "sign-nonce", "temp-token", "temp-index", "ns",
   "var", "online", "index", "disable", "safe"}

\* s is a sequence of what it holds.
IsSequence(s) == s \in Seq({s[i] : i \in DOMAIN s})

\* The ids and login types whose keys the code keeps apart: escaping tells two ids
\* apart (none contains %3A itself), neither begins with "index", the segment of the
\* presence index, and a login type has no category's word behind its first segment.
PlainAccounts ==
  /\ \A id \in AccountIds : IsSequence(id) /\ id # <<>> /\ id[1] # <<"index">>
  /\ \A id1, id2 \in AccountIds : FlattenSeq(id1) = FlattenSeq(id2) => id1 = id2
  /\ \A type \in AccountTypes :
       /\ IsSequence(type) /\ (type # <<>> => type[1] # <<"index">>)
       /\ \A i \in DOMAIN type : i > 1 => type[i] \notin {<<w>> : w \in CategoryWords}

\* Every word of a key but those of ids and login types; every segment of a key.
KeyWords == CategoryWords \cup Opaque \cup {"same-token", "same-token-past", "users", "sa"}

KeySegments ==
  (UNION {{s[i] : i \in DOMAIN s} : s \in AccountTypes \cup AccountIds})
    \cup {FlattenSeq(id) : id \in AccountIds} \cup {<<w>> : w \in KeyWords}

GlobalCategories ==
  TokenCategories \cup OneTimeCategories \cup DistributedCategories \cup SpecialCategories
    \cup {<<"var">>}

\* KeyWords and paths, as sequences of segments.
LEMMA WordsOfCategories == CategoryWords \subseteq KeyWords
BY DEF KeyWords

\* A word is a segment.
LEMMA WordIsSegment ==
  ASSUME NEW w \in KeyWords
  PROVE  <<w>> \in KeySegments
BY DEF KeySegments

\* Path, element by element.
LEMMA PathSegments ==
  ASSUME NEW s \in Seq(KeyWords)
  PROVE  /\ Path(s) \in Seq(KeySegments) /\ Len(Path(s)) = Len(s)
         /\ \A i \in 1..Len(s) : Path(s)[i] = <<s[i]>>
<1> DEFINE G(w) == <<w>>
<1>1. DOMAIN s = 1..Len(s) /\ Len(s) \in Nat /\ \A i \in 1..Len(s) : s[i] \in KeyWords
  OBVIOUS
<1>2. Path(s) = [i \in 1..Len(s) |-> G(s[i])]
  BY <1>1 DEF Path
<1>3. \A i \in 1..Len(s) : G(s[i]) \in KeySegments
  BY <1>1, WordIsSegment
<1> HIDE DEF G
<1>4. /\ Path(s) \in Seq(KeySegments) /\ Len(Path(s)) = Len(s)
      /\ \A i \in 1..Len(s) : Path(s)[i] = G(s[i])
  BY <1>1, <1>2, <1>3
<1> QED BY <1>4 DEF G

\* Sequences of one and of two.
LEMMA OneElement ==
  ASSUME NEW S, NEW x \in S
  PROVE  <<x>> \in Seq(S) /\ Len(<<x>>) = 1 /\ <<x>>[1] = x
OBVIOUS

\* The same of two.
LEMMA TwoElements ==
  ASSUME NEW S, NEW x \in S, NEW y \in S
  PROVE  <<x, y>> \in Seq(S) /\ Len(<<x, y>>) = 2 /\ <<x, y>>[1] = x /\ <<x, y>>[2] = y
OBVIOUS

\* Segments joined in either order.
LEMMA Grouping ==
  ASSUME NEW s \in Seq(KeySegments), NEW t \in Seq(KeySegments), NEW u \in Seq(KeySegments)
  PROVE  (s \o t) \o u = s \o (t \o u)
BY ConcatAssociative

\* A path of one word.
LEMMA PathOne ==
  ASSUME NEW w \in KeyWords
  PROVE  /\ Path(<<w>>) \in Seq(KeySegments)
         /\ Len(Path(<<w>>)) = 1 /\ Path(<<w>>)[1] = <<w>>
<1> DEFINE s == <<w>>
<1>1. s \in Seq(KeyWords) /\ Len(s) = 1 /\ s[1] = w
  BY OneElement
<1> HIDE DEF s
<1>2. Path(s) \in Seq(KeySegments) /\ Len(Path(s)) = 1 /\ Path(s)[1] = <<w>>
  BY <1>1, PathSegments
<1> QED BY <1>2 DEF s

\* A path of two words.
LEMMA PathTwo ==
  ASSUME NEW v \in KeyWords, NEW w \in KeyWords
  PROVE  /\ Path(<<v, w>>) \in Seq(KeySegments)
         /\ Len(Path(<<v, w>>)) = 2
         /\ Path(<<v, w>>)[1] = <<v>> /\ Path(<<v, w>>)[2] = <<w>>
<1> DEFINE s == <<v, w>>
<1>1. s \in Seq(KeyWords) /\ Len(s) = 2 /\ s[1] = v /\ s[2] = w
  BY TwoElements
<1> HIDE DEF s
<1>2. /\ Path(s) \in Seq(KeySegments) /\ Len(Path(s)) = 2
      /\ Path(s)[1] = <<v>> /\ Path(s)[2] = <<w>>
  BY <1>1, PathSegments
<1> QED BY <1>2 DEF s

\* Login types, ids and escaped ids are sequences of segments.
LEMMA AccountParts ==
  ASSUME PlainAccounts
  PROVE  /\ AccountTypes \subseteq Seq(KeySegments)
         /\ AccountIds \subseteq Seq(KeySegments)
         /\ \A id \in AccountIds : <<FlattenSeq(id)>> \in Seq(KeySegments)
<1>1. ASSUME NEW s \in AccountTypes \cup AccountIds
      PROVE  s \in Seq(KeySegments)
  <2>1. s \in Seq({s[i] : i \in DOMAIN s})
    BY <1>1 DEF PlainAccounts, IsSequence
  <2>2. {s[i] : i \in DOMAIN s} \subseteq KeySegments
    BY <1>1 DEF KeySegments
  <2> QED BY <2>1, <2>2
<1>2. ASSUME NEW id \in AccountIds
      PROVE  <<FlattenSeq(id)>> \in Seq(KeySegments)
  <2> DEFINE f == FlattenSeq(id)
  <2>1. f \in KeySegments BY DEF KeySegments
  <2> HIDE DEF f
  <2>2. <<f>> \in Seq(KeySegments) BY <2>1
  <2> QED BY <2>2 DEF f
<1> QED BY <1>1, <1>2

\* The categories of one word and of two.
OneWord ==
  {"token", "token-id", "token-session", "last-active", "session", "permission", "role",
   "nonce", "refresh", "dsession", "dservice", "sign-nonce", "var", "online", "disable",
   "safe"}
TwoWords ==
  {<<"login", "token">>, <<"login", "tokens">>, <<"refresh", "user">>,
   <<"oauth2", "client">>, <<"oauth2", "code">>, <<"oauth2", "token">>,
   <<"oauth2", "refresh">>, <<"sso", "ticket">>, <<"sso", "session">>,
   <<"temp-token", "ns">>, <<"temp-index", "ns">>, <<"online", "index">>,
   <<"dsession", "index">>}
Categories == {<<w>> : w \in OneWord} \cup TwoWords

\* Of two categories one may begin the other, in three cases.
LEMMA CategoryBegins ==
  ASSUME NEW c \in Categories, NEW d \in Categories, c[1] = d[1], c # d
  PROVE  \/ c \in {<<"refresh">>, <<"dsession">>, <<"online">>} /\ d \in TwoWords
         \/ d \in {<<"refresh">>, <<"dsession">>, <<"online">>} /\ c \in TwoWords
         \/ c \in TwoWords /\ d \in TwoWords /\ c[2] # d[2]
<1>1. CASE \E v, w \in OneWord : c = <<v>> /\ d = <<w>>
  BY <1>1
<1>2. CASE c \in TwoWords /\ d \in TwoWords
  BY <1>2 DEF TwoWords
<1>3. CASE \E v \in OneWord : c = <<v>> /\ d \in TwoWords
  BY <1>3 DEF OneWord, TwoWords
<1>4. CASE \E v \in OneWord : d = <<v>> /\ c \in TwoWords
  BY <1>4 DEF OneWord, TwoWords
<1> QED BY <1>1, <1>2, <1>3, <1>4 DEF Categories

\* A category, as a path.
LEMMA CategoryPath ==
  ASSUME NEW c \in Categories
  PROVE  /\ Path(c) \in Seq(KeySegments) /\ Len(Path(c)) = Len(c) /\ Len(c) \in {1, 2}
         /\ Path(c)[1] = <<c[1]>> /\ (Len(c) = 2 => Path(c)[2] = <<c[2]>>)
         /\ Len(c) = 2 <=> c \in TwoWords
         /\ c[1] \in CategoryWords /\ (Len(c) = 2 => c[2] \in CategoryWords)
<1>1. CASE \E w \in OneWord : c = <<w>>
  <2>1. PICK w \in OneWord : c = <<w>> BY <1>1
  <2>2. w \in CategoryWords
    BY DEF OneWord, CategoryWords
  <2>3. c \notin TwoWords /\ Len(c) = 1 /\ c[1] = w BY <2>1 DEF TwoWords
  <2> QED BY <2>1, <2>2, <2>3, PathOne, WordsOfCategories
<1>2. CASE c \in TwoWords
  <2>1. PICK v \in CategoryWords, w \in CategoryWords : c = <<v, w>>
    BY <1>2 DEF TwoWords, CategoryWords
    <2>3. Len(c) = 2 /\ c[1] = v /\ c[2] = w BY <2>1
  <2> QED BY <1>2, <2>1, <2>3, PathTwo, WordsOfCategories
<1> QED BY <1>1, <1>2 DEF Categories

\* What a name of each kind says.
LEMMA NameForms ==
  ASSUME NEW n \in Names
  PROVE  /\ n = Name(n.kind, n.category, n.account, n.item, n.service)
         /\ n.category \in Categories
         /\ \/ /\ n.kind = "global" /\ n.account = NoAccount /\ n.service = NoWord
               /\ n.item \in KeyWords
               /\ \/ n.category \in GlobalCategories
                  \/ n.category = <<"online">> /\ n.item = "users"
            \/ /\ n.kind = "account" /\ n.account \in Accounts
               /\ n.category \in AccountCategories \cup {<<"online", "index">>}
               /\ n.item = NoWord /\ n.service = NoWord
            \/ /\ n.kind = "loginId" /\ n.account.type = <<>>
               /\ n.account = [type |-> <<>>, id |-> n.account.id]
               /\ n.account.id \in AccountIds
               /\ n.category \in {<<"sso", "session">>, <<"dsession", "index">>}
               /\ n.item = NoWord /\ n.service = NoWord
            \/ /\ n.kind = "disable" /\ n.account \in Accounts
               /\ n.category = <<"disable">> /\ n.item = NoWord /\ n.service \in KeyWords
            \/ /\ n.kind = "safe" /\ n.account = NoAccount
               /\ n.category = <<"safe">> /\ n.item \in KeyWords /\ n.service \in KeyWords
            \/ /\ n.kind = "online" /\ n.account \in Accounts
               /\ n.category = <<"online">> /\ n.item \in KeyWords /\ n.service = NoWord
<1>1. Opaque \subseteq KeyWords /\ {"same-token", "same-token-past", "users"} \subseteq KeyWords
  BY DEF KeyWords
<1>2. GlobalCategories \cup AccountCategories
        \cup {<<"online">>, <<"online", "index">>, <<"sso", "session">>,
              <<"dsession", "index">>, <<"disable">>, <<"safe">>} \subseteq Categories
  BY DEF GlobalCategories, AccountCategories, TokenCategories, OneTimeCategories,
         DistributedCategories, SpecialCategories, Categories, OneWord, TwoWords
<1>3. CASE n \in GlobalNames
  <2>1. PICK c, i : /\ n = Name("global", c, NoAccount, i, NoWord) /\ i \in KeyWords
                    /\ \/ c \in GlobalCategories
                       \/ c = <<"online">> /\ i = "users"
    <3>1. CASE \E c \in TokenCategories \cup OneTimeCategories \cup DistributedCategories
                             \cup SpecialCategories, i \in Opaque :
                 n = Name("global", c, NoAccount, i, NoWord)
      BY <1>1, <3>1 DEF GlobalCategories
    <3>2. CASE \E i \in {"same-token", "same-token-past"} :
                 n = Name("global", <<"var">>, NoAccount, i, NoWord)
      BY <1>1, <3>2 DEF GlobalCategories
    <3>3. CASE n = Name("global", <<"online">>, NoAccount, "users", NoWord)
      BY <1>1, <3>3
    <3> QED BY <1>3, <3>1, <3>2, <3>3 DEF GlobalNames
  <2> QED BY <2>1, <1>2 DEF Name
<1>4. CASE n \in AccountNames
  <2>1. PICK c \in AccountCategories \cup {<<"online", "index">>}, a \in Accounts :
          n = Name("account", c, a, NoWord, NoWord)
    BY <1>4 DEF AccountNames
  <2> QED BY <2>1, <1>2 DEF Name
<1>5. CASE n \in LoginIdNames
  <2>1. PICK c \in {<<"sso", "session">>, <<"dsession", "index">>}, i \in AccountIds :
          n = Name("loginId", c, [type |-> <<>>, id |-> i], NoWord, NoWord)
    BY <1>5 DEF LoginIdNames, Name
  <2> QED BY <2>1, <1>2 DEF Name
<1>6. CASE n \in DisableNames
  <2>1. PICK a \in Accounts, s \in Opaque : n = Name("disable", <<"disable">>, a, NoWord, s)
    BY <1>6 DEF DisableNames
  <2> QED BY <2>1, <1>1, <1>2 DEF Name
<1>7. CASE n \in SafeNames
  <2>1. PICK i \in Opaque, s \in Opaque : n = Name("safe", <<"safe">>, NoAccount, i, s)
    BY <1>7 DEF SafeNames
  <2> QED BY <2>1, <1>1, <1>2 DEF Name
<1>8. CASE n \in OnlineNames
  <2>1. PICK a \in Accounts, i \in Opaque : n = Name("online", <<"online">>, a, i, NoWord)
    BY <1>8 DEF OnlineNames
  <2> QED BY <2>1, <1>1, <1>2 DEF Name
<1> QED BY <1>3, <1>4, <1>5, <1>6, <1>7, <1>8 DEF Names

\* The account part of a ThreeSegment key.
LEMMA NsParts ==
  ASSUME PlainAccounts, NEW type \in AccountTypes, NEW id \in AccountIds
  PROVE  /\ AccountNs(type, id) \in Seq(KeySegments) /\ AccountNs(type, id) # <<>>
         /\ AccountNs(type, id)[1] # <<"index">>
<1>1. /\ id \in Seq(KeySegments) /\ id # <<>> /\ id[1] # <<"index">>
      /\ type \in Seq(KeySegments) /\ (type # <<>> => type[1] # <<"index">>)
      /\ PushEscaped(id) \in Seq(KeySegments)
  BY AccountParts DEF PlainAccounts, PushEscaped
<1>2. CASE IsDefaultLoginType(type)
  BY <1>1, <1>2 DEF AccountNs
<1>3. CASE ~IsDefaultLoginType(type)
  <2>1. type # <<>> /\ AccountNs(type, id) = type \o PushEscaped(id)
    BY <1>3 DEF IsDefaultLoginType, AccountNs
  <2>2. Len(type) > 0 BY <1>1, <2>1
  <2>3. (type \o PushEscaped(id))[1] = type[1] /\ Len(type \o PushEscaped(id)) > 0
    BY <1>1, <2>2, ConcatProperties
  <2>4. type \o PushEscaped(id) \in Seq(KeySegments)
    BY <1>1, ConcatProperties
  <2> QED BY <1>1, <2>1, <2>3, <2>4
<1> QED BY <1>2, <1>3

\* Sequences that end in one element each.
LEMMA LastApart ==
  ASSUME NEW S, NEW s \in Seq(S), NEW t \in Seq(S), NEW x \in S, NEW y \in S,
         s \o <<x>> = t \o <<y>>
  PROVE  s = t /\ x = y
<1>1. Append(s, x) = Append(t, y)
  BY AppendIsConcat
<1> QED BY <1>1, AppendInjective

\* One account part is of one account: the default type's ids are shorter than the others.
LEMMA NsApart ==
  ASSUME PlainAccounts,
         NEW type1 \in AccountTypes, NEW id1 \in AccountIds,
         NEW type2 \in AccountTypes, NEW id2 \in AccountIds,
         IsDefaultLoginType(type1) => Len(id1) <= 1,
         IsDefaultLoginType(type2) => Len(id2) <= 1,
         AccountNs(type1, id1) = AccountNs(type2, id2)
  PROVE  /\ id1 = id2
         /\ IsDefaultLoginType(type1) <=> IsDefaultLoginType(type2)
         /\ IsDefaultLoginType(type1) \/ type1 = type2
<1>1. /\ id1 \in Seq(KeySegments) /\ id1 # <<>> /\ type1 \in Seq(KeySegments)
      /\ id2 \in Seq(KeySegments) /\ id2 # <<>> /\ type2 \in Seq(KeySegments)
      /\ <<FlattenSeq(id1)>> \in Seq(KeySegments) /\ <<FlattenSeq(id2)>> \in Seq(KeySegments)
  BY AccountParts DEF PlainAccounts
<1>2. ASSUME NEW type \in AccountTypes, NEW id \in AccountIds, ~IsDefaultLoginType(type),
             type \in Seq(KeySegments), <<FlattenSeq(id)>> \in Seq(KeySegments)
      PROVE  /\ AccountNs(type, id) = type \o <<FlattenSeq(id)>>
             /\ Len(AccountNs(type, id)) = Len(type) + 1 /\ Len(type) > 0
  <2>1. type # <<>> /\ AccountNs(type, id) = type \o <<FlattenSeq(id)>>
    BY <1>2 DEF IsDefaultLoginType, AccountNs, PushEscaped
  <2>2. Len(<<FlattenSeq(id)>>) = 1
    BY OneElement
  <2> QED BY <1>2, <2>1, <2>2, ConcatProperties
<1>3. CASE IsDefaultLoginType(type1) /\ IsDefaultLoginType(type2)
  BY <1>3 DEF AccountNs
<1>4. CASE IsDefaultLoginType(type1) /\ ~IsDefaultLoginType(type2)
  <2>1. AccountNs(type1, id1) = id1 BY <1>4 DEF AccountNs
  <2>2. Len(id1) = Len(type2) + 1 /\ Len(type2) > 0 BY <1>1, <1>2, <1>4, <2>1
  <2> QED BY <1>1, <1>4, <2>2
<1>6. CASE ~IsDefaultLoginType(type1) /\ IsDefaultLoginType(type2)
  <2>1. AccountNs(type2, id2) = id2 BY <1>6 DEF AccountNs
  <2>2. Len(id2) = Len(type1) + 1 /\ Len(type1) > 0 BY <1>1, <1>2, <1>6, <2>1
  <2> QED BY <1>1, <1>6, <2>2
<1>5. CASE ~IsDefaultLoginType(type1) /\ ~IsDefaultLoginType(type2)
  <2> DEFINE f1 == FlattenSeq(id1)
             f2 == FlattenSeq(id2)
  <2>1. type1 \o <<f1>> = type2 \o <<f2>>
    BY <1>1, <1>2, <1>5
  <2>2. f1 \in KeySegments /\ f2 \in KeySegments
    BY DEF KeySegments
  <2> HIDE DEF f1, f2
  <2>3. type1 \in Seq(KeySegments) /\ type2 \in Seq(KeySegments)
    BY <1>1
  <2>4. type1 = type2 /\ f1 = f2
    BY <2>1, <2>2, <2>3, LastApart
  <2> QED BY <1>5, <2>4 DEF f1, f2, PlainAccounts
<1> QED BY <1>3, <1>4, <1>5, <1>6

\* The account system that a JavaFourSegment key begins with.
System(n) == IF n.kind \in {"global", "loginId", "safe"} THEN Path(<<"login">>)
             ELSE LayoutType(FiledType(n))

Lead(n) == IF layout = "three" THEN Root ELSE Root \o System(n)

\* What follows the category.
Rest(n) ==
  IF layout = "three"
  THEN CASE n.kind = "global"  -> Path(<<n.item>>)
         [] n.kind = "account" -> AccountNs(n.account.type, n.account.id)
         [] n.kind = "loginId" -> n.account.id
         [] n.kind = "disable" -> AccountNs(n.account.type, n.account.id) \o Path(<<n.service>>)
         [] n.kind = "safe"    -> Path(<<n.item, n.service>>)
         [] n.kind = "online"  -> AccountNs(n.account.type, n.account.id) \o Path(<<n.item>>)
  ELSE CASE n.kind = "global"  -> Path(<<n.item>>)
         [] n.kind = "account" -> n.account.id
         [] n.kind = "loginId" -> n.account.id
         [] n.kind = "disable" -> Path(<<n.service>>) \o n.account.id
         [] n.kind = "safe"    -> Path(<<n.service, n.item>>)
         [] n.kind = "online"  -> n.account.id \o Path(<<n.item>>)

\* An account system, and where a category's word can be in it.
LEMMA SystemParts ==
  ASSUME PlainAccounts, NEW n \in Names
  PROVE  /\ System(n) \in Seq(KeySegments) /\ Len(System(n)) > 0
         /\ \A i \in 2..Len(System(n)) : System(n)[i] \notin {<<w>> : w \in CategoryWords}
<1>1. /\ Path(<<"login">>) \in Seq(KeySegments) /\ Len(Path(<<"login">>)) = 1
  BY PathOne, WordsOfCategories, "login" \in CategoryWords DEF CategoryWords
<1>2. ASSUME NEW type \in AccountTypes, type # <<>>
      PROVE  /\ type \in Seq(KeySegments) /\ Len(type) > 0
             /\ \A i \in 2..Len(type) : type[i] \notin {<<w>> : w \in CategoryWords}
  <2>1. type \in Seq(KeySegments) BY AccountParts
  <2>2. \A i \in DOMAIN type : i > 1 => type[i] \notin {<<w>> : w \in CategoryWords}
    BY DEF PlainAccounts
  <2> QED BY <1>2, <2>1, <2>2
<1>3. CASE n.kind \in {"global", "loginId", "safe"}
  BY <1>1, <1>3 DEF System
<1>4. CASE n.kind \notin {"global", "loginId", "safe"}
  <2>1. FiledType(n) \in AccountTypes \cup {<<>>}
    BY <1>4, NameForms DEF Accounts, FiledType
  <2>2. System(n) = LayoutType(FiledType(n))
    BY <1>4 DEF System
  <2>3. CASE FiledType(n) = <<>>
    <3>1. System(n) = Path(<<"login">>)
      BY <2>2, <2>3 DEF LayoutType
    <3>2. ASSUME NEW p, p \in Seq(KeySegments), Len(p) = 1
          PROVE  Len(p) > 0 /\ \A i \in 2..Len(p) : p[i] \notin {<<w>> : w \in CategoryWords}
      BY <3>2
    <3> QED BY <1>1, <3>1, <3>2
  <2>4. CASE FiledType(n) # <<>>
    <3>1. System(n) = FiledType(n)
      BY <2>2, <2>4 DEF LayoutType
    <3> QED BY <1>2, <2>1, <2>4, <3>1
  <2> QED BY <2>3, <2>4
<1> QED BY <1>3, <1>4

\* What follows a category, by kind.
LEMMA RestParts ==
  ASSUME PlainAccounts, NEW n \in Names
  PROVE  /\ Rest(n) \in Seq(KeySegments) /\ Len(Rest(n)) > 0
         /\ n.kind = "global" => Len(Rest(n)) = 1
         /\ n.kind \in {"disable", "safe", "online"} => Len(Rest(n)) > 1
         /\ n.kind = "online" => Rest(n)[1] # <<"index">>
<1> USE NameForms
<1>1. CASE n.kind = "global"
  <2>1. Rest(n) = Path(<<n.item>>) /\ n.item \in KeyWords
    BY <1>1 DEF Rest
  <2> HIDE NameForms
  <2> QED BY <1>1, <2>1, PathOne
<1>2. CASE n.kind = "account"
  <2>1. n.account.type \in AccountTypes /\ n.account.id \in AccountIds
    BY <1>2 DEF Accounts
  <2>2. Rest(n) \in {AccountNs(n.account.type, n.account.id), n.account.id}
    BY <1>2 DEF Rest
  <2> QED BY <1>2, <2>1, <2>2, NsParts, AccountParts DEF PlainAccounts
<1>3. CASE n.kind = "loginId"
  <2>1. Rest(n) = n.account.id /\ n.account.id \in AccountIds
    BY <1>3 DEF Rest
  <2> QED BY <1>3, <2>1, AccountParts DEF PlainAccounts
<1>4. ASSUME n.kind \in {"disable", "online"}
      PROVE  LET a == IF layout = "three" THEN AccountNs(n.account.type, n.account.id)
                      ELSE n.account.id
             IN a \in Seq(KeySegments) /\ Len(a) > 0 /\ a[1] # <<"index">>
  <2>1. n.account.type \in AccountTypes /\ n.account.id \in AccountIds
    BY <1>4 DEF Accounts
  <2> DEFINE type == n.account.type
             id == n.account.id
             ns == AccountNs(type, id)
  <2>2. id \in Seq(KeySegments) /\ id # <<>> /\ id[1] # <<"index">>
    BY <2>1, AccountParts DEF PlainAccounts
  <2>3. ns \in Seq(KeySegments) /\ ns # <<>> /\ ns[1] # <<"index">>
    BY <2>1, NsParts
  <2> HIDE DEF id, ns
  <2>4. Len(id) > 0 /\ Len(ns) > 0
    BY <2>2, <2>3
  <2> QED BY <2>2, <2>3, <2>4 DEF id, ns
<1>5. CASE n.kind = "disable"
  <2> DEFINE a == IF layout = "three" THEN AccountNs(n.account.type, n.account.id)
                  ELSE n.account.id
             s == Path(<<n.service>>)
  <2>1. a \in Seq(KeySegments) /\ Len(a) > 0 BY <1>4, <1>5
  <2>2. s \in Seq(KeySegments) /\ Len(s) = 1 BY <1>5, PathOne
  <2>3. Rest(n) = a \o s \/ Rest(n) = s \o a BY <1>5 DEF Rest
  <2> HIDE DEF a, s
  <2> HIDE NameForms
  <2>4. /\ a \o s \in Seq(KeySegments) /\ Len(a \o s) > 1
        /\ s \o a \in Seq(KeySegments) /\ Len(s \o a) > 1
    BY <2>1, <2>2, ConcatProperties
  <2>5. n.kind # "online" /\ n.kind # "global"
    BY <1>5
  <2>6. CASE Rest(n) = a \o s
    BY <2>4, <2>5, <2>6
  <2>7. CASE Rest(n) = s \o a
    BY <2>4, <2>5, <2>7
  <2> QED BY <2>3, <2>6, <2>7
<1>6. CASE n.kind = "safe"
  <2>1. /\ Rest(n) \in {Path(<<n.item, n.service>>), Path(<<n.service, n.item>>)}
        /\ n.item \in KeyWords /\ n.service \in KeyWords
    BY <1>6 DEF Rest
  <2> HIDE NameForms
  <2> QED BY <1>6, <2>1, PathTwo
<1>7. CASE n.kind = "online"
  <2> DEFINE a == IF layout = "three" THEN AccountNs(n.account.type, n.account.id)
                  ELSE n.account.id
             s == Path(<<n.item>>)
  <2>1. a \in Seq(KeySegments) /\ Len(a) > 0 /\ a[1] # <<"index">> BY <1>4, <1>7
  <2>2. s \in Seq(KeySegments) /\ Len(s) = 1 BY <1>7, PathOne
  <2>3. Rest(n) = a \o s BY <1>7 DEF Rest
  <2> HIDE DEF a, s
  <2>4. (a \o s)[1] = a[1] /\ Len(a \o s) > 1 /\ a \o s \in Seq(KeySegments)
    BY <2>1, <2>2, ConcatProperties
  <2> QED BY <1>7, <2>1, <2>3, <2>4
<1> QED BY <1>1, <1>2, <1>3, <1>5, <1>6, <1>7

\* The first segment of every key.
LEMMA RootSegments == Root \in Seq(KeySegments) /\ Len(Root) = 1
<1>1. "sa" \in KeyWords BY DEF KeyWords
<1> QED BY <1>1, PathOne DEF Root

\* What precedes a category.
LEMMA LeadParts ==
  ASSUME PlainAccounts, NEW n \in Names
  PROVE  Lead(n) \in Seq(KeySegments)
BY RootSegments, SystemParts, ConcatProperties DEF Lead

\* A path of two words is two paths.
LEMMA PathSplit ==
  ASSUME NEW v \in KeyWords, NEW w \in KeyWords
  PROVE  Path(<<v, w>>) = Path(<<v>>) \o Path(<<w>>)
<1> DEFINE a == Path(<<v, w>>)
           b == Path(<<v>>)
           c == Path(<<w>>)
<1>1. /\ a \in Seq(KeySegments) /\ Len(a) = 2 /\ a[1] = <<v>> /\ a[2] = <<w>>
      /\ b \in Seq(KeySegments) /\ Len(b) = 1 /\ b[1] = <<v>>
      /\ c \in Seq(KeySegments) /\ Len(c) = 1 /\ c[1] = <<w>>
  BY PathOne, PathTwo
<1> HIDE DEF a, b, c
<1>2. /\ b \o c \in Seq(KeySegments) /\ Len(b \o c) = 2
      /\ (b \o c)[1] = b[1] /\ (b \o c)[2] = c[1]
  BY <1>1, ConcatProperties
<1>3. a = b \o c
  BY <1>1, <1>2, SeqEqual
<1> QED BY <1>3 DEF a, b, c

\* In ThreeSegment it makes no difference where the default types are filed.
LEMMA FiledNs ==
  ASSUME NEW n
  PROVE  AccountNs(FiledType(n), n.account.id) = AccountNs(n.account.type, n.account.id)
BY DEF FiledType, AccountNs, IsDefaultLoginType

\* The parts of a key.
LEMMA KeyParts ==
  ASSUME PlainAccounts, NEW n \in Names
  PROVE  KeyOf(n) = Lead(n) \o (Path(n.category) \o Rest(n))
<1> DEFINE l == Lead(n)
           c == Path(n.category)
           r == Rest(n)
<1> SUFFICES KeyOf(n) = l \o (c \o r)
  OBVIOUS
<1>1. l \in Seq(KeySegments) /\ c \in Seq(KeySegments) /\ r \in Seq(KeySegments)
  BY LeadParts, RestParts, NameForms, CategoryPath
<1>2. (l \o c) \o r = l \o (c \o r)
  <2> HIDE DEF l, c, r
  <2> QED BY <1>1, Grouping
<1>3. CASE n.kind \in {"global", "loginId", "account", "safe"}
  <2>1. KeyOf(n) = (l \o c) \o r
    BY <1>3, NameForms, FiledNs
       DEF KeyOf, SafeKey, BuildGlobal, BuildAccount, Lead, System, Rest
  <2> HIDE DEF l, c, r
  <2> QED BY <1>2, <2>1
<1>4. CASE n.kind \in {"disable", "online"}
  <2> DEFINE a == AccountNs(n.account.type, n.account.id)
             i == n.account.id
             s == IF n.kind = "disable" THEN Path(<<n.service>>) ELSE Path(<<n.item>>)
  <2>1. a \in Seq(KeySegments) /\ i \in Seq(KeySegments)
    BY <1>4, NameForms, NsParts, AccountParts DEF Accounts
  <2>2. s \in Seq(KeySegments)
    BY <1>4, NameForms, PathOne
  <2>3. /\ ((l \o c) \o a) \o s = (l \o c) \o (a \o s)
        /\ ((l \o c) \o i) \o s = (l \o c) \o (i \o s)
        /\ (l \o (c \o s)) \o i = (l \o c) \o (s \o i)
    <3> DEFINE lc == l \o c
    <3> HIDE DEF l, c, a, i, s
    <3>1. lc \in Seq(KeySegments) BY <1>1, ConcatProperties
    <3>2. l \o (c \o s) = (l \o c) \o s
      BY <1>1, <2>2, Grouping
    <3> HIDE DEF lc
    <3>3. (lc \o a) \o s = lc \o (a \o s)
      BY <2>1, <2>2, <3>1, Grouping
    <3>4. (lc \o i) \o s = lc \o (i \o s)
      BY <2>1, <2>2, <3>1, Grouping
    <3>5. (lc \o s) \o i = lc \o (s \o i)
      BY <2>1, <2>2, <3>1, Grouping
    <3> QED BY <3>2, <3>3, <3>4, <3>5 DEF lc
  <2>4. CASE layout = "three"
    <3>1. KeyOf(n) = ((l \o c) \o a) \o s /\ r = a \o s
      BY <1>4, <2>4, NameForms, FiledNs
         DEF KeyOf, DisableKey, OnlineKey, BuildAccount, Lead, Rest
    <3> HIDE DEF l, c, r, a, i, s
    <3> QED BY <1>2, <2>3, <3>1
  <2>5. CASE layout # "three" /\ n.kind = "online"
    <3>1. KeyOf(n) = ((l \o c) \o i) \o s /\ r = i \o s
      BY <2>5, NameForms DEF KeyOf, OnlineKey, BuildAccount, Lead, System, Rest
    <3> HIDE DEF l, c, r, a, i, s
    <3> QED BY <1>2, <2>3, <3>1
  <2>6. CASE layout # "three" /\ n.kind = "disable"
    <3>1. Path(<<"disable", n.service>>) = c \o s
      BY <2>6, NameForms, PathSplit, WordsOfCategories, "disable" \in CategoryWords
         DEF CategoryWords
    <3>2. KeyOf(n) = (l \o (c \o s)) \o i /\ r = s \o i
      <4>1. FiledType(n) = n.account.type
        <5>1. n.category = <<"disable">>
          BY <2>6, NameForms
        <5>2. <<"disable">> # <<"online">> /\ <<"disable">> # <<"online", "index">>
          OBVIOUS
        <5> QED BY <5>1, <5>2 DEF FiledType, OnlineCategories
      <4> QED BY <2>6, <3>1, <4>1, NameForms DEF KeyOf, DisableKey, Lead, System, Rest
    <3> HIDE DEF l, c, r, a, i, s
    <3> QED BY <1>2, <2>3, <3>2
  <2> QED BY <1>4, <2>4, <2>5, <2>6
<1> QED BY <1>3, <1>4, NameForms

\* The first two elements of a concatenation.
LEMMA ConcatTwo ==
  ASSUME NEW S, NEW s \in Seq(S), NEW t \in Seq(S), Len(s) \in {1, 2}, Len(t) > 0
  PROVE  /\ s \o t \in Seq(S) /\ Len(s \o t) = Len(s) + Len(t) /\ (s \o t)[1] = s[1]
         /\ (s \o t)[2] = IF Len(s) = 2 THEN s[2] ELSE t[1]
BY ConcatProperties

\* No other kind of name has one of these.
LEMMA SharedCategories ==
  ASSUME NEW x \in {<<"refresh">>, <<"dsession">>, <<"online">>}
  PROVE  /\ x \notin AccountCategories \cup {<<"online", "index">>}
         /\ x \notin {<<"sso", "session">>, <<"dsession", "index">>}
         /\ x # <<"disable">> /\ x # <<"safe">>
BY DEF AccountCategories

\* Category c and what follows it read as the longer category d and what follows that.
Continues(c, r, d, q) ==
  /\ c \in {<<"refresh">>, <<"dsession">>, <<"online">>} /\ d \in TwoWords
  /\ c[1] = d[1] /\ Len(r) = Len(q) + 1 /\ r[1] = <<d[2]>>

\* What follows the account system of a key: either the categories are equal and so is the
\* rest, or one category continues the other.
LEMMA TailsApart ==
  ASSUME NEW c \in Categories, NEW d \in Categories,
         NEW r \in Seq(KeySegments), NEW q \in Seq(KeySegments), Len(r) > 0, Len(q) > 0,
         Path(c) \o r = Path(d) \o q
  PROVE  (c = d /\ r = q) \/ Continues(c, r, d, q) \/ Continues(d, q, c, r)
<1>1. ASSUME NEW C, C = Path(c), NEW D, D = Path(d)
      PROVE  (c = d /\ r = q) \/ Continues(c, r, d, q) \/ Continues(d, q, c, r)
  <2>1. /\ C \in Seq(KeySegments) /\ Len(C) = Len(c) /\ Len(c) \in {1, 2}
        /\ C[1] = <<c[1]>> /\ (Len(c) = 2 => C[2] = <<c[2]>>) /\ (Len(c) = 2 <=> c \in TwoWords)
    BY <1>1, CategoryPath
  <2>2. /\ D \in Seq(KeySegments) /\ Len(D) = Len(d) /\ Len(d) \in {1, 2}
        /\ D[1] = <<d[1]>> /\ (Len(d) = 2 => D[2] = <<d[2]>>) /\ (Len(d) = 2 <=> d \in TwoWords)
    BY <1>1, CategoryPath
  <2>3. C \o r = D \o q /\ (c = d => C = D)
    BY <1>1
  <2>4. c = d => r = q
    BY <2>1, <2>2, <2>3, ConcatSimplifications
  <2>5. Len(C) \in {1, 2} /\ Len(D) \in {1, 2}
    BY <2>1, <2>2
  <2>6. /\ Len(C) + Len(r) = Len(D) + Len(q) /\ C[1] = D[1]
        /\ (Len(C) = 2 /\ Len(D) = 2 => C[2] = D[2])
        /\ (Len(C) = 1 /\ Len(D) = 2 => r[1] = D[2])
        /\ (Len(C) = 2 /\ Len(D) = 1 => C[2] = q[1])
    <3>1. C \in Seq(KeySegments)
      BY <2>1
    <3>4. D \in Seq(KeySegments)
      BY <2>2
    <3>2. /\ Len(C \o r) = Len(C) + Len(r) /\ (C \o r)[1] = C[1]
          /\ (C \o r)[2] = IF Len(C) = 2 THEN C[2] ELSE r[1]
      BY <2>5, <3>1, ConcatTwo
    <3>3. /\ Len(D \o q) = Len(D) + Len(q) /\ (D \o q)[1] = D[1]
          /\ (D \o q)[2] = IF Len(D) = 2 THEN D[2] ELSE q[1]
      BY <2>5, <3>4, ConcatTwo
    <3> QED BY <2>3, <2>5, <3>2, <3>3
  <2>7. c[1] = d[1]
    BY <2>1, <2>2, <2>6
  <2>8. Len(c) = 2 /\ Len(d) = 2 => c[2] = d[2]
    BY <2>1, <2>2, <2>6
  <2>9. \/ c = d
        \/ c \in {<<"refresh">>, <<"dsession">>, <<"online">>} /\ d \in TwoWords
        \/ d \in {<<"refresh">>, <<"dsession">>, <<"online">>} /\ c \in TwoWords
    BY <2>1, <2>2, <2>7, <2>8, CategoryBegins
  <2>10. \A x \in {<<"refresh">>, <<"dsession">>, <<"online">>} : Len(x) = 1
    OBVIOUS
  <2>11. CASE c \in {<<"refresh">>, <<"dsession">>, <<"online">>} /\ d \in TwoWords
    <3>1. Len(c) = 1 /\ Len(d) = 2 BY <2>2, <2>10, <2>11
    <3> QED BY <2>1, <2>2, <2>6, <2>7, <2>11, <3>1 DEF Continues
  <2>12. CASE d \in {<<"refresh">>, <<"dsession">>, <<"online">>} /\ c \in TwoWords
    <3>1. Len(d) = 1 /\ Len(c) = 2 BY <2>1, <2>10, <2>12
    <3> QED BY <2>1, <2>2, <2>6, <2>7, <2>12, <3>1 DEF Continues
  <2> QED BY <2>4, <2>9, <2>11, <2>12
<1> QED BY <1>1

\* The account system ends where the first category word stands.
LEMMA SystemsApart ==
  ASSUME NEW t \in Seq(KeySegments), NEW u \in Seq(KeySegments), Len(t) > 0, Len(u) > 0,
         \A i \in 2..Len(t) : t[i] \notin {<<w>> : w \in CategoryWords},
         \A i \in 2..Len(u) : u[i] \notin {<<w>> : w \in CategoryWords},
         NEW r \in Seq(KeySegments), NEW q \in Seq(KeySegments), Len(r) > 0, Len(q) > 0,
         r[1] \in {<<w>> : w \in CategoryWords}, q[1] \in {<<w>> : w \in CategoryWords},
         t \o r = u \o q
  PROVE  t = u /\ r = q
<1> DEFINE W == {<<w>> : w \in CategoryWords}
<1>1. /\ \A i \in 2..Len(t) : t[i] \notin W
      /\ \A i \in 2..Len(u) : u[i] \notin W
      /\ r[1] \in W /\ q[1] \in W
  OBVIOUS
<1> HIDE DEF W
<1>2. /\ Len(t) \in Nat /\ Len(u) \in Nat /\ Len(r) \in Nat /\ Len(q) \in Nat
      /\ Len(t) + Len(r) = Len(u) + Len(q)
      /\ \A i \in 1..(Len(t) + Len(r)) : (t \o r)[i] =
             IF i <= Len(t) THEN t[i] ELSE r[i - Len(t)]
      /\ \A i \in 1..(Len(u) + Len(q)) : (t \o r)[i] =
             IF i <= Len(u) THEN u[i] ELSE q[i - Len(u)]
  BY ConcatProperties
<1>3. ~(Len(t) < Len(u))
  <2>1. SUFFICES ASSUME Len(t) < Len(u) PROVE FALSE
    OBVIOUS
  <2>2. Len(t) + 1 \in 2..Len(u) /\ Len(t) + 1 \in 1..(Len(t) + Len(r))
    BY <1>2, <2>1
  <2>3. (t \o r)[Len(t) + 1] = r[1] /\ (t \o r)[Len(t) + 1] = u[Len(t) + 1]
    BY <1>2, <2>1, <2>2
  <2> QED BY <1>1, <2>2, <2>3
<1>4. ~(Len(u) < Len(t))
  <2>1. SUFFICES ASSUME Len(u) < Len(t) PROVE FALSE
    OBVIOUS
  <2>2. Len(u) + 1 \in 2..Len(t) /\ Len(u) + 1 \in 1..(Len(u) + Len(q))
    BY <1>2, <2>1
  <2>3. (t \o r)[Len(u) + 1] = q[1] /\ (t \o r)[Len(u) + 1] = t[Len(u) + 1]
    BY <1>2, <2>1, <2>2
  <2> QED BY <1>1, <2>2, <2>3
<1>5. Len(t) = Len(u)
  BY <1>2, <1>3, <1>4
<1>6. \A i \in 1..Len(t) : t[i] = u[i]
  BY <1>2, <1>5
<1>7. t = u
  BY <1>5, <1>6, SeqEqual
<1> QED BY <1>7, ConcatSimplifications

\* Equal keys are equal part by part.
LEMMA PartsApart ==
  ASSUME PlainAccounts, NEW n \in Names, NEW m \in Names, KeyOf(n) = KeyOf(m)
  PROVE  /\ n.category = m.category /\ Rest(n) = Rest(m)
         /\ layout # "three" => System(n) = System(m)
<1> DEFINE c == Path(n.category)
           d == Path(m.category)
           r == Rest(n)
           q == Rest(m)
           t == System(n)
           u == System(m)
<1>1. /\ r \in Seq(KeySegments) /\ Len(r) > 0 /\ q \in Seq(KeySegments) /\ Len(q) > 0
  BY RestParts
<1>2. /\ n.category \in Categories /\ m.category \in Categories
  BY NameForms
<1>3. /\ c \in Seq(KeySegments) /\ Len(c) > 0 /\ c[1] \in {<<w>> : w \in CategoryWords}
      /\ d \in Seq(KeySegments) /\ Len(d) > 0 /\ d[1] \in {<<w>> : w \in CategoryWords}
  <2>1. ASSUME NEW x \in Categories
        PROVE  /\ Path(x) \in Seq(KeySegments) /\ Len(Path(x)) > 0
               /\ Path(x)[1] \in {<<w>> : w \in CategoryWords}
    <3>1. /\ Path(x) \in Seq(KeySegments) /\ Len(Path(x)) = Len(x) /\ Len(x) \in {1, 2}
          /\ Path(x)[1] = <<x[1]>> /\ x[1] \in CategoryWords
      BY CategoryPath
    <3> QED BY <3>1
  <2> QED BY <1>2, <2>1
<1>4. /\ t \in Seq(KeySegments) /\ Len(t) > 0 /\ u \in Seq(KeySegments) /\ Len(u) > 0
      /\ \A i \in 2..Len(t) : t[i] \notin {<<w>> : w \in CategoryWords}
      /\ \A i \in 2..Len(u) : u[i] \notin {<<w>> : w \in CategoryWords}
  BY SystemParts
<1>5. /\ c \o r \in Seq(KeySegments) /\ Len(c \o r) > 0 /\ (c \o r)[1] = c[1]
      /\ d \o q \in Seq(KeySegments) /\ Len(d \o q) > 0 /\ (d \o q)[1] = d[1]
  <2> HIDE DEF c, d, r, q
  <2> QED BY <1>1, <1>3, ConcatProperties
<1>6. c \o r = d \o q /\ (layout # "three" => t = u)
  <2>1. Lead(n) \o (c \o r) = Lead(m) \o (d \o q)
    BY KeyParts
  <2>2. CASE layout = "three"
    <3>1. Root \o (c \o r) = Root \o (d \o q) BY <2>1, <2>2 DEF Lead
    <3> HIDE DEF c, d, r, q
    <3> QED BY <2>2, <3>1, <1>5, RootSegments, ConcatSimplifications
  <2>3. CASE layout # "three"
    <3>1. (Root \o t) \o (c \o r) = (Root \o u) \o (d \o q) BY <2>1, <2>3 DEF Lead
    <3> HIDE DEF c, d, r, q, t, u
    <3> DEFINE x == c \o r
               y == d \o q
    <3>2. x \in Seq(KeySegments) /\ y \in Seq(KeySegments) BY <1>5
    <3>3. (Root \o t) \o x = (Root \o u) \o y BY <3>1
    <3>4. Len(x) > 0 /\ Len(y) > 0 /\ x[1] = c[1] /\ y[1] = d[1] BY <1>5
    <3> HIDE DEF x, y
    <3>11. t \in Seq(KeySegments) /\ u \in Seq(KeySegments) BY <1>4
    <3>12. Root \in Seq(KeySegments) BY RootSegments
    <3>5. (Root \o t) \o x = Root \o (t \o x)
      BY <3>2, <3>11, <3>12, Grouping
    <3>6. (Root \o u) \o y = Root \o (u \o y)
      BY <3>2, <3>11, <3>12, Grouping
    <3>7. t \o x \in Seq(KeySegments) /\ u \o y \in Seq(KeySegments)
      BY <1>4, <3>2, ConcatProperties
    <3>8. Root \o (t \o x) = Root \o (u \o y)
      BY <3>3, <3>5, <3>6
    <3>9. t \o x = u \o y
      BY <3>7, <3>8, RootSegments, ConcatSimplifications
    <3>10. t = u /\ x = y
      BY <1>3, <1>4, <3>2, <3>4, <3>9, SystemsApart
    <3> QED BY <3>10 DEF x, y
  <2> QED BY <2>2, <2>3
<1>7. ASSUME NEW a \in Names, NEW b \in Names,
             Continues(a.category, Rest(a), b.category, Rest(b))
      PROVE  FALSE
  <2> USE <1>7 DEF Continues
  <2>1. a.kind # "global"
    BY <1>7, RestParts
  <2>2. a.kind = "online"
    <3>2. a.category \in {<<"refresh">>, <<"dsession">>, <<"online">>}
      BY <1>7
    <3> QED BY <2>1, <3>2, SharedCategories, NameForms
  <2>3. a.category = <<"online">>
    BY <2>2, NameForms
  <2>4. b.category = <<"online", "index">>
    BY <1>7, <2>3 DEF TwoWords
  <2> QED BY <1>7, <2>2, <2>4, RestParts
<1>8. n.category = m.category /\ r = q
  <2> DEFINE x == n.category
             y == m.category
  <2>1. /\ x \in Categories /\ y \in Categories /\ Path(x) \o r = Path(y) \o q
        /\ r \in Seq(KeySegments) /\ Len(r) > 0 /\ q \in Seq(KeySegments) /\ Len(q) > 0
    BY <1>1, <1>2, <1>6
  <2> HIDE DEF r, q, x, y
  <2>2. (x = y /\ r = q) \/ Continues(x, r, y, q) \/ Continues(y, q, x, r)
    BY <2>1, TailsApart
  <2> QED BY <1>7, <2>2 DEF r, q, x, y
<1> QED BY <1>6, <1>8

\* Equal concatenations of parts of equal length.
LEMMA ConcatApart ==
  ASSUME NEW S, NEW s \in Seq(S), NEW t \in Seq(S), NEW x \in Seq(S), NEW y \in Seq(S),
         Len(s) = Len(t) \/ Len(x) = Len(y), s \o x = t \o y
  PROVE  s = t /\ x = y
<1>1. /\ Len(s) \in Nat /\ Len(t) \in Nat /\ Len(x) \in Nat /\ Len(y) \in Nat
      /\ Len(s \o x) = Len(s) + Len(x) /\ Len(t \o y) = Len(t) + Len(y)
  BY ConcatProperties
<1>2. Len(s) = Len(t)
  BY <1>1
<1>3. \A i \in 1..Len(s) : (s \o x)[i] = s[i] /\ (t \o y)[i] = t[i]
  BY <1>1, <1>2, ConcatProperties
<1>4. s = t
  BY <1>2, <1>3, SeqEqual
<1> QED BY <1>4, ConcatSimplifications

\* A word behind a path.
LEMMA WordLast ==
  ASSUME NEW s \in Seq(KeySegments), NEW x \in Seq(KeySegments), Len(x) = 1
  PROVE  /\ Len(s \o x) = Len(s) + 1 /\ (s \o x)[Len(s) + 1] = x[1]
         /\ \A i \in 1..Len(s) : (s \o x)[i] = s[i]
<1>1. /\ Len(s \o x) = Len(s) + Len(x)
      /\ \A i \in 1..(Len(s) + Len(x)) :
           (s \o x)[i] = IF i <= Len(s) THEN s[i] ELSE x[i - Len(s)]
  BY ConcatProperties
<1>2. /\ Len(s) \in Nat /\ (Len(s) + 1) - Len(s) = 1 /\ ~(Len(s) + 1 <= Len(s))
      /\ Len(s) + 1 \in 1..(Len(s) + 1)
      /\ \A i \in 1..Len(s) : i \in 1..(Len(s) + 1) /\ i <= Len(s)
  OBVIOUS
<1> QED BY <1>1, <1>2

\* Equal paths that begin with one word each.
LEMMA WordFirst ==
  ASSUME NEW s \in Seq(KeySegments), NEW t \in Seq(KeySegments),
         NEW x \in Seq(KeySegments), NEW y \in Seq(KeySegments),
         Len(x) = 1, Len(y) = 1, x \o s = y \o t
  PROVE  s = t /\ x = y
<1>1. Len(x) = Len(y) OBVIOUS
<1> QED BY <1>1, ConcatApart

\* Equal paths are of equal words.
LEMMA PathApart ==
  ASSUME NEW v \in KeyWords, NEW w \in KeyWords, Path(<<v>>) = Path(<<w>>)
  PROVE  v = w
<1>1. Path(<<v>>)[1] = <<v>> /\ Path(<<w>>)[1] = <<w>>
  BY PathOne
<1>2. <<v>> = <<w>>
  BY <1>1
<1> QED BY <1>2

\* The same of two words.
LEMMA PathsApart ==
  ASSUME NEW v1 \in KeyWords, NEW w1 \in KeyWords, NEW v2 \in KeyWords, NEW w2 \in KeyWords,
         Path(<<v1, w1>>) = Path(<<v2, w2>>)
  PROVE  v1 = v2 /\ w1 = w2
<1>1. Path(<<v1, w1>>)[1] = <<v1>> /\ Path(<<v1, w1>>)[2] = <<w1>>
  BY PathTwo
<1>2. Path(<<v2, w2>>)[1] = <<v2>> /\ Path(<<v2, w2>>)[2] = <<w2>>
  BY PathTwo
<1>3. <<v1>> = <<v2>> /\ <<w1>> = <<w2>>
  BY <1>1, <1>2
<1> QED BY <1>3

\* Equal categories and rests are of one kind of name.
LEMMA KindsApart ==
  ASSUME PlainAccounts, NEW n \in Names, NEW m \in Names,
         n.category = m.category, Rest(n) = Rest(m)
  PROVE  n.kind = m.kind
<1>1. ~(n.kind = "global" /\ m.kind = "online") /\ ~(n.kind = "online" /\ m.kind = "global")
  <2>1. ASSUME NEW x \in Names
        PROVE  /\ x.kind = "global" => Len(Rest(x)) = 1
               /\ x.kind \in {"disable", "safe", "online"} => Len(Rest(x)) > 1
    BY RestParts
  <2>2. Len(Rest(n)) = Len(Rest(m))
    OBVIOUS
  <2>3. /\ n.kind = "global" => Len(Rest(n)) = 1
        /\ n.kind = "online" => Len(Rest(n)) > 1
    BY <2>1
  <2>4. /\ m.kind = "global" => Len(Rest(m)) = 1
        /\ m.kind = "online" => Len(Rest(m)) > 1
    BY <2>1
  <2>5. /\ ~(Len(Rest(n)) = 1 /\ Len(Rest(m)) > 1)
        /\ ~(Len(Rest(m)) = 1 /\ Len(Rest(n)) > 1)
    BY <2>2
  <2> QED BY <2>3, <2>4, <2>5
<1>2. \A x \in Names : x.kind = "global" =>
        x.category \in GlobalCategories \cup {<<"online">>}
  BY NameForms
<1>3. \A x \in Names : x.kind = "account" =>
        x.category \in AccountCategories \cup {<<"online", "index">>}
  BY NameForms
<1>4. \A x \in Names : x.kind = "loginId" =>
        x.category \in {<<"sso", "session">>, <<"dsession", "index">>}
  BY NameForms
<1>5. \A x \in Names : /\ x.kind = "disable" => x.category = <<"disable">>
                       /\ x.kind = "safe" => x.category = <<"safe">>
                       /\ x.kind = "online" => x.category = <<"online">>
  BY NameForms
<1>6. n.kind \in {"global", "account", "loginId", "disable", "safe", "online"}
  BY NameForms
<1>7. m.kind \in {"global", "account", "loginId", "disable", "safe", "online"}
  BY NameForms
<1> DEFINE A == GlobalCategories
           B == AccountCategories \cup {<<"online", "index">>}
           C == {<<"sso", "session">>, <<"dsession", "index">>}
<1>8. /\ A \cap B = {} /\ A \cap C = {} /\ B \cap C = {}
      /\ \A x \in {<<"disable">>, <<"safe">>, <<"online">>} :
           x \notin A /\ x \notin B /\ x \notin C
      /\ <<"disable">> # <<"safe">> /\ <<"safe">> # <<"online">> /\ <<"disable">> # <<"online">>
  BY DEF GlobalCategories, AccountCategories, TokenCategories, OneTimeCategories,
         DistributedCategories, SpecialCategories
<1> HIDE DEF A, B, C
<1>9. /\ n.kind = "global" => n.category \in A \cup {<<"online">>}
      /\ n.kind = "account" => n.category \in B
      /\ n.kind = "loginId" => n.category \in C
      /\ m.kind = "global" => m.category \in A \cup {<<"online">>}
      /\ m.kind = "account" => m.category \in B
      /\ m.kind = "loginId" => m.category \in C
  BY <1>2, <1>3, <1>4 DEF A, B, C
<1> QED BY <1>1, <1>5, <1>6, <1>7, <1>8, <1>9

\* The login type that stands for its account system.
NormalType(n) ==
  IF layout = "three" /\ IsDefaultLoginType(n.account.type) THEN <<>>
  ELSE IF n.account = NoAccount THEN <<>> ELSE LayoutType(FiledType(n))

\* Normal changes the login type alone.
LEMMA NormalForm ==
  ASSUME NEW n \in Names
  PROVE  Normal(n) = Name(n.kind, n.category,
                          [type |-> NormalType(n), id |-> n.account.id], n.item, n.service)
<1>1. n.account = [type |-> n.account.type, id |-> n.account.id]
  BY NameForms DEF Accounts, NoAccount
<1>2. n = [kind |-> n.kind, category |-> n.category, account |-> n.account,
           item |-> n.item, service |-> n.service]
  BY NameForms DEF Name
<1> QED BY <1>1, <1>2 DEF Normal, NormalType, Name

\* The names of an account, found under one key, are of one account system and id.
LEMMA AccountsApart ==
  ASSUME PlainAccounts, NEW n \in Names, NEW m \in Names,
         n.account \in Accounts, m.account \in Accounts, Supported(n), Supported(m),
         n.kind \in {"account", "disable", "online"}, m.kind = n.kind,
         n.category = m.category,
         layout # "three" => System(n) = System(m),
         IF layout = "three"
         THEN AccountNs(n.account.type, n.account.id) = AccountNs(m.account.type, m.account.id)
         ELSE n.account.id = m.account.id
  PROVE  NormalType(n) = NormalType(m) /\ n.account.id = m.account.id
<1>1. /\ n.account.type \in AccountTypes /\ n.account.id \in AccountIds
      /\ m.account.type \in AccountTypes /\ m.account.id \in AccountIds
  BY DEF Accounts
<1>2. n.account # NoAccount /\ m.account # NoAccount
  BY <1>1 DEF PlainAccounts, NoAccount
<1>3. CASE layout = "three"
  <2>1. /\ n.account.id = m.account.id
        /\ IsDefaultLoginType(n.account.type) <=> IsDefaultLoginType(m.account.type)
        /\ IsDefaultLoginType(n.account.type) \/ n.account.type = m.account.type
    BY <1>1, <1>3, NsApart DEF Supported
  <2> QED BY <1>2, <1>3, <2>1 DEF NormalType, FiledType
<1>4. CASE layout # "three"
  BY <1>2, <1>4 DEF NormalType, System
<1> QED BY <1>3, <1>4

\* Different things have different keys.
LEMMA NamesApart ==
  ASSUME PlainAccounts, NEW n \in Names, NEW m \in Names, KeyOf(n) = KeyOf(m),
         Supported(n), Supported(m)
  PROVE  Normal(n) = Normal(m)
<1>1. /\ n.category = m.category /\ Rest(n) = Rest(m)
      /\ layout # "three" => System(n) = System(m)
  BY PartsApart
<1>2. n.kind = m.kind
  BY <1>1, KindsApart
<1> SUFFICES /\ NormalType(n) = NormalType(m) /\ n.account.id = m.account.id
             /\ n.item = m.item /\ n.service = m.service
  BY <1>1, <1>2, NormalForm
<1>3. CASE n.kind = "global"
  <2>1. /\ n.account = NoAccount /\ m.account = NoAccount
        /\ n.service = m.service /\ n.item \in KeyWords /\ m.item \in KeyWords
    BY <1>2, <1>3, NameForms
  <2>2. Path(<<n.item>>) = Path(<<m.item>>)
    BY <1>1, <1>2, <1>3 DEF Rest
  <2> QED BY <2>1, <2>2, PathApart DEF NormalType
<1>4. CASE n.kind = "account"
  <2>1. /\ n.account \in Accounts /\ m.account \in Accounts
        /\ n.service = m.service /\ n.item = m.item
    BY <1>2, <1>4, NameForms
  <2>2. IF layout = "three"
        THEN AccountNs(n.account.type, n.account.id) = AccountNs(m.account.type, m.account.id)
        ELSE n.account.id = m.account.id
    BY <1>1, <1>2, <1>4 DEF Rest
  <2> QED BY <1>1, <1>2, <1>4, <2>1, <2>2, AccountsApart
<1>5. CASE n.kind = "loginId"
  <2>1. /\ n.account = [type |-> <<>>, id |-> n.account.id]
        /\ m.account = [type |-> <<>>, id |-> m.account.id]
        /\ n.service = m.service /\ n.item = m.item
    BY <1>2, <1>5, NameForms
  <2>2. n.account.id = m.account.id
    BY <1>1, <1>2, <1>5 DEF Rest
  <2>3. n.account = m.account
    BY <2>1, <2>2
  <2> QED BY <1>1, <2>1, <2>3 DEF NormalType, FiledType
<1>6. CASE n.kind \in {"disable", "online"}
  <2> DEFINE A(x) == IF layout = "three" THEN AccountNs(x.account.type, x.account.id)
                     ELSE x.account.id
             W(x) == IF x.kind = "disable" THEN x.service ELSE x.item
             T(x) == Path(<<W(x)>>)
  <2>1. /\ n.account \in Accounts /\ m.account \in Accounts
        /\ n.kind = "disable" => n.item = m.item
        /\ n.kind = "online" => n.service = m.service
        /\ W(n) \in KeyWords /\ W(m) \in KeyWords
    BY <1>2, <1>6, NameForms
  <2>2. A(n) \in Seq(KeySegments) /\ A(m) \in Seq(KeySegments)
    BY <2>1, NsParts, AccountParts DEF Accounts
  <2>3. T(n) \in Seq(KeySegments) /\ Len(T(n)) = 1 /\ T(m) \in Seq(KeySegments) /\ Len(T(m)) = 1
    BY <2>1, PathOne
  <2>4. A(n) \o T(n) = A(m) \o T(m) \/ T(n) \o A(n) = T(m) \o A(m)
    BY <1>1, <1>2, <1>6 DEF Rest
  <2>5. A(n) = A(m) /\ T(n) = T(m)
    <3>1. ASSUME NEW an \in Seq(KeySegments), NEW am \in Seq(KeySegments),
                 NEW tn \in Seq(KeySegments), NEW tm \in Seq(KeySegments),
                 Len(tn) = 1, Len(tm) = 1, an \o tn = am \o tm \/ tn \o an = tm \o am
          PROVE  an = am /\ tn = tm
      <4>1. /\ an \in Seq(KeySegments) /\ am \in Seq(KeySegments)
            /\ tn \in Seq(KeySegments) /\ tm \in Seq(KeySegments)
            /\ Len(tn) = 1 /\ Len(tm) = 1
        BY <3>1
      <4>2. CASE an \o tn = am \o tm
        <5>1. /\ Len(an \o tn) = Len(an) + 1 /\ (an \o tn)[Len(an) + 1] = tn[1]
              /\ \A i \in 1..Len(an) : (an \o tn)[i] = an[i]
          BY <4>1, WordLast
        <5>2. /\ Len(am \o tm) = Len(am) + 1 /\ (am \o tm)[Len(am) + 1] = tm[1]
              /\ \A i \in 1..Len(am) : (am \o tm)[i] = am[i]
          BY <4>1, WordLast
        <5>3. Len(an) \in Nat /\ Len(am) \in Nat
          BY <4>1
        <5>4. Len(an) = Len(am)
          BY <4>2, <5>1, <5>2, <5>3
        <5>5. \A i \in 1..Len(an) : an[i] = am[i]
          BY <4>2, <5>1, <5>2, <5>4
        <5>6. tn[1] = tm[1]
          BY <4>2, <5>1, <5>2, <5>4
        <5>7. an = am
          BY <5>4, <5>5, SeqEqual
        <5> QED BY <3>1, <5>6, <5>7, SeqEqual
      <4>3. CASE tn \o an = tm \o am
        BY <3>1, <4>3, WordFirst
      <4> QED BY <3>1, <4>2, <4>3
    <3> HIDE DEF A, T
    <3> QED BY <2>2, <2>3, <2>4, <3>1
  <2>6. W(n) = W(m)
    <3>1. Path(<<W(n)>>) = Path(<<W(m)>>) BY <2>5
    <3> HIDE DEF W
    <3> QED BY <2>1, <3>1, PathApart
  <2>7. n.item = m.item /\ n.service = m.service
    BY <1>2, <1>6, <2>1, <2>6
  <2>8. NormalType(n) = NormalType(m) /\ n.account.id = m.account.id
    BY <1>1, <1>2, <1>6, <2>1, <2>5, AccountsApart
  <2> QED BY <2>7, <2>8
<1>7. CASE n.kind = "safe"
  <2>1. /\ n.account = NoAccount /\ m.account = NoAccount
        /\ n.service \in KeyWords /\ m.service \in KeyWords
        /\ n.item \in KeyWords /\ m.item \in KeyWords
    BY <1>2, <1>7, NameForms
  <2>2. \/ Path(<<n.item, n.service>>) = Path(<<m.item, m.service>>)
        \/ Path(<<n.service, n.item>>) = Path(<<m.service, m.item>>)
    BY <1>1, <1>2, <1>7 DEF Rest
  <2> QED BY <2>1, <2>2, PathsApart DEF NormalType
<1> QED BY <1>3, <1>4, <1>5, <1>6, <1>7, NameForms

\* The prefix of a scan for tokens or nonces.
LEMMA PrefixParts ==
  ASSUME NEW c \in {<<"token">>, <<"nonce">>}
  PROVE  /\ CategoryPrefix(c) = (IF layout = "three" THEN Root ELSE Root \o Path(<<"login">>))
                                  \o Path(c)
         /\ Path(c) \in Seq(KeySegments) /\ Len(Path(c)) = 1 /\ Path(c)[1] = <<c[1]>>
         /\ Path(<<"login">>) \in Seq(KeySegments) /\ Len(Path(<<"login">>)) = 1
         /\ Path(<<"login">>)[1] = <<"login">>
<1>1. \E w \in KeyWords : c = <<w>>
  BY DEF KeyWords, CategoryWords
<1>2. Path(c) \in Seq(KeySegments) /\ Len(Path(c)) = 1 /\ Path(c)[1] = <<c[1]>>
  BY <1>1, PathOne
<1>3. /\ Path(<<"login">>) \in Seq(KeySegments) /\ Len(Path(<<"login">>)) = 1
      /\ Path(<<"login">>)[1] = <<"login">>
  BY PathOne, WordsOfCategories, "login" \in CategoryWords DEF CategoryWords
<1>4. ASSUME NEW x, x = Path(c), NEW g, g = Path(<<"login">>)
      PROVE  (Root \o x) \o <<>> = Root \o x /\ ((Root \o g) \o x) \o <<>> = (Root \o g) \o x
  <2>1. x \in Seq(KeySegments) /\ g \in Seq(KeySegments)
    BY <1>2, <1>3, <1>4
  <2>2. Root \o x \in Seq(KeySegments) /\ Root \o g \in Seq(KeySegments)
    BY <2>1, RootSegments, ConcatProperties
  <2>3. (Root \o g) \o x \in Seq(KeySegments)
    BY <2>1, <2>2, ConcatProperties
  <2> QED BY <2>2, <2>3, ConcatEmptySeq
<1> QED BY <1>2, <1>3, <1>4 DEF CategoryPrefix, BuildGlobal

\* A token or nonce category, read where a category is, is the category.
LEMMA CategoryRead ==
  ASSUME NEW n \in Names, NEW c \in {<<"token">>, <<"nonce">>}, n.category[1] = c[1]
  PROVE  n.category = c /\ Rest(n) = Path(<<n.item>>)
<1>1. n.category \in Categories
  BY NameForms
<1>2. n.category = c
  BY <1>1 DEF Categories, OneWord, TwoWords
<1>3. c \notin AccountCategories \cup {<<"online", "index">>, <<"sso", "session">>,
                                     <<"dsession", "index">>, <<"disable">>, <<"safe">>,
                                     <<"online">>}
  BY DEF AccountCategories
<1>4. n.kind = "global"
  BY <1>2, <1>3, NameForms
<1> QED BY <1>2, <1>4 DEF Rest

\* A scan for tokens or nonces finds their keys alone, and reads their ids.
LEMMA ScanApart ==
  ASSUME PlainAccounts, NEW n \in Names, NEW c \in {<<"token">>, <<"nonce">>},
         IsPrefix(CategoryPrefix(c), KeyOf(n))
  PROVE  n.category = c /\ ParseId(c, KeyOf(n)) = Path(<<n.item>>)
<1>1. ASSUME NEW x, x = Path(c), NEW y, y = Path(n.category), NEW r, r = Rest(n),
             NEW L, L = Lead(n), NEW k, k = KeyOf(n),
             NEW l, l = IF layout = "three" THEN Root ELSE Root \o Path(<<"login">>)
      PROVE  n.category = c /\ SubSeq(k, Len(l \o x) + 1, Len(k)) = Path(<<n.item>>)
  <2>1. x \in Seq(KeySegments) /\ Len(x) = 1 /\ x[1] = <<c[1]>> /\ c[1] \in CategoryWords
    <3>1. c[1] \in CategoryWords BY DEF CategoryWords
    <3> QED BY <1>1, <3>1, PrefixParts
  <2>2. /\ y \in Seq(KeySegments) /\ Len(y) \in {1, 2} /\ y[1] = <<n.category[1]>>
    <3>1. n.category \in Categories BY NameForms
    <3>2. /\ y \in Seq(KeySegments) /\ Len(y) = Len(n.category) /\ Len(n.category) \in {1, 2}
          /\ y[1] = <<n.category[1]>>
      BY <1>1, <3>1, CategoryPath
    <3> QED BY <3>2
  <2>3. r \in Seq(KeySegments) /\ Len(r) > 0
    BY <1>1, RestParts
  <2>4. L \in Seq(KeySegments) /\ k = L \o (y \o r)
    BY <1>1, LeadParts, KeyParts
  <2>5. l \in Seq(KeySegments) /\ IsPrefix(l \o x, k)
    BY <1>1, PrefixParts, RootSegments, ConcatProperties
  <2> HIDE DEF IsPrefix
  <2>6. y \o r \in Seq(KeySegments) /\ Len(y \o r) = Len(y) + Len(r) /\ (y \o r)[1] = y[1]
    BY <2>2, <2>3, ConcatTwo
  <2>7. /\ k \in Seq(KeySegments) /\ Len(k) = Len(L) + Len(y \o r)
        /\ \A i \in 1..Len(k) : k[i] = IF i <= Len(L) THEN L[i] ELSE (y \o r)[i - Len(L)]
    BY <2>4, <2>6, ConcatProperties
  <2>8. /\ l \o x \in Seq(KeySegments) /\ Len(l \o x) = Len(l) + 1
        /\ \A i \in 1..Len(l \o x) : (l \o x)[i] = IF i <= Len(l) THEN l[i] ELSE x[i - Len(l)]
    BY <2>1, <2>5, ConcatProperties
  <2>9. Len(l \o x) <= Len(k) /\ \A i \in 1..Len(l \o x) : (l \o x)[i] = k[i]
    <3> DEFINE lx == l \o x
    <3>1. lx \in Seq(KeySegments) /\ k \in Seq(KeySegments) /\ IsPrefix(lx, k)
      BY <2>5, <2>7, <2>8
    <3> HIDE DEF lx
    <3>2. Len(lx) <= Len(k) /\ \A i \in 1..Len(lx) : lx[i] = k[i]
      BY <3>1, PrefixElements
    <3> QED BY <3>2 DEF lx
  <2>10. Len(l) \in Nat /\ k[Len(l) + 1] = <<c[1]>> /\ \A i \in 1..Len(l) : k[i] = l[i]
    <3> DEFINE lx == l \o x
    <3>1. /\ Len(lx) = Len(l) + 1
          /\ \A i \in 1..Len(lx) : lx[i] = IF i <= Len(l) THEN l[i] ELSE x[i - Len(l)]
          /\ \A i \in 1..Len(lx) : lx[i] = k[i]
      BY <2>8, <2>9
    <3>2. Len(l) \in Nat BY <2>5
    <3> HIDE DEF lx
    <3>3. /\ Len(l) + 1 \in 1..Len(lx) /\ ~(Len(l) + 1 <= Len(l)) /\ (Len(l) + 1) - Len(l) = 1
          /\ \A i \in 1..Len(l) : i \in 1..Len(lx) /\ i <= Len(l)
      BY <3>1, <3>2
    <3>4. k[Len(l) + 1] = x[1]
      BY <3>1, <3>3
    <3>5. \A i \in 1..Len(l) : k[i] = l[i]
      BY <3>1, <3>3
    <3> QED BY <2>1, <3>2, <3>4, <3>5
  <2>11. L = l
    <3>1. CASE layout = "three"
      BY <1>1, <3>1 DEF Lead
    <3>2. CASE layout # "three"
      <4>1. ASSUME NEW t, t = System(n), NEW g, g = Path(<<"login">>)
            PROVE  t = g
        <5>1. /\ t \in Seq(KeySegments) /\ Len(t) > 0
              /\ \A i \in 2..Len(t) : t[i] \notin {<<w>> : w \in CategoryWords}
          BY <4>1, SystemParts
        <5>2. g \in Seq(KeySegments) /\ Len(g) = 1
          BY <4>1, PrefixParts
        <5>3. L = Root \o t /\ l = Root \o g
          BY <1>1, <3>2, <4>1 DEF Lead
        <5>4. Len(L) = 1 + Len(t) /\ \A i \in 1..Len(L) : i > 1 => L[i] = t[i - 1]
          <6>1. /\ Len(Root \o t) = Len(Root) + Len(t)
                /\ \A i \in 1..(Len(Root) + Len(t)) :
                     (Root \o t)[i] = IF i <= Len(Root) THEN Root[i] ELSE t[i - Len(Root)]
            BY <5>1, RootSegments, ConcatProperties
          <6> QED BY <5>1, <5>3, <6>1, RootSegments
        <5>5. Len(l) = 2 /\ l[2] = g[1]
          BY <5>2, <5>3, RootSegments, ConcatProperties
        <5>6. Len(k) >= 3 /\ k[2] = g[1] /\ k[3] = <<c[1]>>
          BY <2>8, <2>9, <2>10, <5>5
        <5>7. k[2] = t[1]
          BY <2>7, <5>1, <5>4, <5>6
        <5>8. ~(Len(t) > 1)
          <6>1. SUFFICES ASSUME Len(t) > 1 PROVE FALSE
            OBVIOUS
          <6>2. k[3] = t[2] /\ 2 \in 2..Len(t)
            BY <2>7, <5>1, <5>4, <5>6, <6>1
          <6> QED BY <2>1, <5>1, <5>6, <6>2
        <5>9. Len(t) = 1 /\ t[1] = g[1]
          BY <5>1, <5>6, <5>7, <5>8
        <5> QED BY <5>1, <5>2, <5>9, SeqEqual
      <4> QED BY <1>1, <3>2, <4>1 DEF Lead
    <3> QED BY <3>1, <3>2
  <2>12. k[Len(l) + 1] = y[1]
    BY <2>2, <2>3, <2>6, <2>7, <2>10, <2>11
  <2>13. n.category[1] = c[1]
    <3>1. <<n.category[1]>> = <<c[1]>> BY <2>2, <2>10, <2>12
    <3> QED BY <3>1
  <2>14. n.category = c /\ r = Path(<<n.item>>) /\ y = x
    BY <1>1, <2>13, CategoryRead
  <2>15. k = l \o (x \o r)
    BY <2>4, <2>11, <2>14
  <2>16. k = (l \o x) \o r
    BY <2>1, <2>3, <2>5, <2>15, Grouping
  <2>17. SubSeq(k, Len(l \o x) + 1, Len(k)) = r
    <3> DEFINE lx == l \o x
               q == SubSeq(k, Len(lx) + 1, Len(k))
    <3>1. lx \in Seq(KeySegments) /\ k = lx \o r /\ r \in Seq(KeySegments)
      BY <2>3, <2>8, <2>16
    <3> HIDE DEF lx
    <3>2. /\ k \in Seq(KeySegments) /\ Len(lx) \in Nat /\ Len(r) \in Nat
          /\ Len(k) = Len(lx) + Len(r)
          /\ \A i \in 1..Len(k) : k[i] = IF i <= Len(lx) THEN lx[i] ELSE r[i - Len(lx)]
      BY <3>1, ConcatProperties
    <3>3. \A i \in (Len(lx) + 1)..Len(k) : k[i] \in KeySegments
      BY <3>2
    <3>4. /\ q \in Seq(KeySegments) /\ Len(q) = Len(r)
          /\ \A i \in 1..Len(r) : q[i] = k[Len(lx) + i]
      <4>1. Len(lx) + 1 \in Int /\ Len(k) \in Int BY <3>2
      <4>2. /\ q \in Seq(KeySegments)
            /\ Len(q) = IF Len(lx) + 1 <= Len(k) THEN Len(k) - (Len(lx) + 1) + 1 ELSE 0
            /\ \A i \in 1..(Len(k) - (Len(lx) + 1) + 1) : q[i] = k[(Len(lx) + 1) + i - 1]
        BY <3>3, <4>1, SubSeqProperties
      <4> HIDE DEF q
      <4>3. /\ Len(k) - (Len(lx) + 1) + 1 = Len(r)
            /\ Len(lx) + 1 <= Len(k) \/ Len(r) = 0
            /\ \A i \in 1..Len(r) : (Len(lx) + 1) + i - 1 = Len(lx) + i
        BY <3>2
      <4>4. Len(q) = Len(r)
        BY <4>2, <4>3
      <4>5. \A i \in 1..Len(r) : q[i] = k[Len(lx) + i]
        BY <4>2, <4>3
      <4> QED BY <4>2, <4>4, <4>5
    <3> HIDE DEF q
    <3>5. ASSUME NEW i \in 1..Len(r) PROVE q[i] = r[i]
      <4>1. /\ Len(lx) + i \in 1..Len(k) /\ ~(Len(lx) + i <= Len(lx))
            /\ (Len(lx) + i) - Len(lx) = i
        BY <3>2
      <4>2. k[Len(lx) + i] = r[(Len(lx) + i) - Len(lx)]
        BY <3>2, <4>1
      <4> QED BY <3>4, <4>1, <4>2
    <3>6. q = r
      BY <3>1, <3>4, <3>5, SeqEqual
    <3> QED BY <3>6 DEF q, lx
  <2> QED BY <2>14, <2>17
<1> QED BY <1>1, PrefixParts DEF ParseId

\* For any login types and ids that PlainAccounts describes, in both layouts: two things
\* under one key are one thing, and a scan for tokens or nonces finds their keys alone and
\* reads their ids back.
THEOREM KeysCorrect ==
  ASSUME PlainAccounts
  PROVE  KeysSpec => []KeysApart
<1> DEFINE Inv == looked \in Names \cup {Nothing}
<1>1. KeysInit => Inv
  BY DEF KeysInit
<1>2. Inv /\ [KeysNext]_keyState => Inv'
  BY DEF KeysNext, Look, keyState
<1>3. Inv => KeysApart
  <2>1. SUFFICES ASSUME looked \in Names
                 PROVE  KeysApart
    BY DEF KeysApart
  <2>2. ASSUME Supported(looked), NEW m \in Names, Supported(m), KeyOf(m) = KeyOf(looked)
        PROVE  Normal(m) = Normal(looked)
    BY <2>1, <2>2, NamesApart
  <2>3. ASSUME NEW c \in {<<"token">>, <<"nonce">>},
               IsPrefix(CategoryPrefix(c), KeyOf(looked))
        PROVE  looked.category = c /\ ParseId(c, KeyOf(looked)) = Path(<<looked.item>>)
    BY <2>1, <2>3, ScanApart
  <2> QED BY <2>2, <2>3 DEF KeysApart
<1> QED BY <1>1, <1>2, <1>3, PTL DEF KeysSpec

=============================================================================
