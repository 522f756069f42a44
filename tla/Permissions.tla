----------------------------- MODULE Permissions -----------------------------
(***************************************************************************)
(* The Ant-style permission matcher: whether the patterns an account holds  *)
(* cover the permissions a check requires.  A permission is its sequence of *)
(* segments ("user:add" is <<user, add>>, "" is <<>>).                      *)
(***************************************************************************)
EXTENDS Naturals, Sequences

CONSTANTS
  Words,          \* segments without a wildcard
  Starred,        \* segments that contain a * beside other characters
  MaxSegments     \* bound: segments of a permission (and two patterns are held)

ASSUME PermissionsAssumption ==
  /\ {"*", "**"} \cap (Words \cup Starred) = {} /\ Words \cap Starred = {}
  /\ MaxSegments \in Nat

VARIABLES
  owned, required,   \* the arguments of a check
  verdicts           \* what matches_all and matches_any answer, once asked

pmState == <<owned, required, verdicts>>

Segments == Words \cup Starred \cup {"*", "**"}
UpTo(S, n) == UNION {[1..m -> S] : m \in 1..n}

PmInit ==
  /\ LET Patterns == UpTo(Segments, MaxSegments)
     IN owned \in {{p, q} : p, q \in Patterns} \cup {{}}
  /\ required \in UNION {[1..m -> UpTo(Words, MaxSegments) \cup {<<>>}] : m \in 0..2}
  /\ verdicts = {}

\* Mutant: a target that has run out of segments is rejected before ** is seen.
SegmentMatchEarly(pattern, target) ==
  LET from[i \in 1..(Len(pattern) + 1)] ==
        IF i > Len(pattern) THEN Len(target) = Len(pattern)
        ELSE /\ i <= Len(target)
             /\ \/ pattern[i] = "**"
                \/ pattern[i] \in {"*", target[i]} /\ from[i + 1]
  IN from[1]

\* Both are walked segment by segment; ** ends the walk, whatever follows it.
SegmentMatch(pattern, target) ==
  LET from[i \in 1..(Len(pattern) + 1)] ==
        IF i > Len(pattern) THEN Len(target) = Len(pattern)
        ELSE \/ pattern[i] = "**"
             \/ i <= Len(target) /\ pattern[i] \in {"*", target[i]} /\ from[i + 1]
  IN from[1]

HasStar(p) == \E i \in DOMAIN p : p[i] \notin Words

MatchesOne(pattern, target) ==
  \/ pattern = target
  \/ pattern \in {<<"*">>, <<"**">>}
  \/ HasStar(pattern) /\ SegmentMatch(pattern, target)

Matches(patterns, target) ==
  target # <<>> /\ \E p \in patterns : MatchesOne(p, target)

\* Lists of two and more split what is held into exact items and wildcards.
BulkMatches(patterns, target) ==
  LET exact == {p \in patterns : ~HasStar(p)}
  IN target # <<>> /\ (target \in exact \/
                         \E w \in patterns \ exact : MatchesOne(w, target))

Covered(i) == IF Len(required) = 1 THEN Matches(owned, required[i])
              ELSE BulkMatches(owned, required[i])

MatchesAll == \A i \in DOMAIN required : Covered(i)
MatchesAny == \E i \in DOMAIN required : Covered(i)

Check == verdicts = {} /\ verdicts' = {[all |-> MatchesAll, any |-> MatchesAny]}
         /\ UNCHANGED <<owned, required>>

PmNext == Check

PmSpec == PmInit /\ [][PmNext]_pmState

-----------------------------------------------------------------------------
\* What the table of matcher.rs says a pattern matches: * stands for exactly one
\* segment, ** for the rest of them, none included; * alone matches everything.
Meaning(pattern, target) ==
  LET Fits(n) == n <= Len(target) /\ \A i \in 1..n : pattern[i] \in {"*", target[i]}
  IN /\ target # <<>>
     /\ \/ pattern = <<"*">>
        \/ Len(pattern) = Len(target) /\ Fits(Len(pattern))
        \/ \E n \in DOMAIN pattern : pattern[n] = "**" /\ Fits(n - 1)

\* A check grants exactly what the patterns held mean, however many permissions
\* it asks for at a time: splitting the list by wildcard changes no answer.
GrantsWhatIsOwned ==
  \A v \in verdicts :
    LET Owns(i) == \E p \in owned : Meaning(p, required[i])
    IN /\ v.all <=> \A i \in DOMAIN required : Owns(i)
       /\ v.any <=> \E i \in DOMAIN required : Owns(i)

=============================================================================
