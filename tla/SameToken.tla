----------------------------- MODULE SameToken -----------------------------
(***************************************************************************)
(* Same-Token: the secret a cluster's services share.  The current value    *)
(* and the previous one are two keys, each with its own TTL; refresh_token  *)
(* moves the first to the second and installs a new one by CAS.             *)
(***************************************************************************)
EXTENDS Requests

CONSTANTS
  Secrets,         \* what generate_token may produce, each value once
  SecretsExpire    \* same_token_timeout > 0

ASSUME SameTokenAssumption == Nil \notin Secrets /\ SecretsExpire \in BOOLEAN

VARIABLES
  current, past,   \* the two keys
  seen,            \* current as the call read it
  asked,           \* the token is_valid was asked about
  \* ---- history
  minted,          \* generated so far
  installed,       \* secrets that have been the current value
  replaced,        \* what the last rotation replaced, while its TTL runs
  held,            \* whether the asked token was stored ever since the call
  answers,         \* what refresh_token and get_token returned
  refused          \* is_valid said no to a token that was stored throughout

stStore == <<current, past>>
stHistory == <<minted, installed, replaced, held, answers, refused>>
stState == <<stStore, seen, asked, stHistory>>
stVars == <<control, stState>>

Secret == Secrets \cup {Nil}
StLabels == {"stRead", "stPast", "stCas", "stReread", "stCheck", "stCheckPast"}

StTypeOK ==
  /\ pc \in [Tasks -> StLabels \cup {"idle"}] /\ calls \in Nat
  /\ current \in Secret /\ past \in Secret /\ replaced \in Secret
  /\ seen \in [Tasks -> Secret] /\ asked \in [Tasks -> Secret]
  /\ minted \subseteq Secrets /\ installed \subseteq Secrets
  /\ held \in [Tasks -> BOOLEAN]
  /\ answers \subseteq Secrets /\ refused \in BOOLEAN

StInit ==
  /\ current = Nil /\ past = Nil /\ replaced = Nil
  /\ seen = [t \in Tasks |-> Nil] /\ asked = [t \in Tasks |-> Nil]
  /\ minted = {} /\ installed = {} /\ answers = {} /\ refused = FALSE
  /\ held = [t \in Tasks |-> FALSE]

\* The keys become c and p: a token that is neither has not been held throughout.
Store(c, p) ==
  /\ current' = c /\ past' = p
  /\ held' = [t \in Tasks |-> held[t] /\ asked[t] \in {c, p}]

Answer(t, s) == Finish(t) /\ answers' = answers \cup ({s} \ {Nil})

-----------------------------------------------------------------------------
\* get_token answers with the current value, or refreshes when there is none.
GetToken(t) ==
  /\ \/ /\ current # Nil /\ Call /\ pc[t] = "idle" /\ UNCHANGED pc
        /\ answers' = answers \cup {current}
     \/ current = Nil /\ Begin(t, "stRead") /\ UNCHANGED answers
  /\ UNCHANGED <<stStore, seen, asked, minted, installed, replaced, held, refused>>

RefreshToken(t) == Begin(t, "stRead") /\ UNCHANGED stState

ReadCurrent(t) ==
  /\ pc[t] = "stRead"
  /\ seen' = [seen EXCEPT ![t] = current]
  /\ Goto(t, IF current = Nil THEN "stCas" ELSE "stPast")
  /\ UNCHANGED <<stStore, asked, stHistory>>

SavePast(t) ==
  /\ pc[t] = "stPast"
  /\ Store(current, seen[t])
  /\ Goto(t, "stCas")
  /\ UNCHANGED <<seen, asked, minted, installed, replaced, answers, refused>>

\* Mutant: the loser of the CAS answers with its own value.
CasCurrentOwn(t) ==
  /\ pc[t] = "stCas"
  /\ \E s \in Secrets \ minted :
       /\ minted' = minted \cup {s}
       /\ IF current = seen[t]
          THEN Store(s, past) /\ installed' = installed \cup {s}
               /\ replaced' = seen[t]
          ELSE UNCHANGED <<stStore, held, installed, replaced>>
       /\ Answer(t, s)
  /\ seen' = [seen EXCEPT ![t] = Nil]
  /\ UNCHANGED <<asked, refused>>

\* The new value is installed unless the current one is no longer as it was read.
CasCurrent(t) ==
  /\ pc[t] = "stCas"
  /\ \E s \in Secrets \ minted :
       /\ minted' = minted \cup {s}
       /\ IF current = seen[t]
          THEN /\ Store(s, past)
               /\ installed' = installed \cup {s} /\ replaced' = seen[t]
               /\ Answer(t, s)
          ELSE /\ Goto(t, "stReread")
               /\ UNCHANGED <<stStore, held, installed, replaced, answers>>
  /\ seen' = [seen EXCEPT ![t] = Nil]
  /\ UNCHANGED <<asked, refused>>

\* The loser returns what is stored, or SameTokenInvalid.
Reread(t) ==
  /\ pc[t] = "stReread"
  /\ Answer(t, current)
  /\ UNCHANGED <<stStore, seen, asked, minted, installed, replaced, held, refused>>

-----------------------------------------------------------------------------
IsValid(t, s) ==
  /\ Begin(t, "stCheck")
  /\ asked' = [asked EXCEPT ![t] = s]
  /\ held' = [held EXCEPT ![t] = s \in {current, past}]
  /\ UNCHANGED <<stStore, seen, minted, installed, replaced, answers, refused>>

\* Mutant: the previous value is read first.
CheckCurrentLast(t) ==
  /\ pc[t] \in {"stCheck", "stCheckPast"}
  /\ LET key == IF pc[t] = "stCheck" THEN past ELSE current
     IN IF key = asked[t] THEN Finish(t) /\ UNCHANGED refused
        ELSE IF pc[t] = "stCheck" THEN Goto(t, "stCheckPast") /\ UNCHANGED refused
        ELSE Finish(t) /\ refused' = (refused \/ held[t])
  /\ UNCHANGED <<stStore, seen, asked, minted, installed, replaced, held, answers>>

\* The current value is compared first, then the previous one.
CheckSecret(t) ==
  /\ pc[t] \in {"stCheck", "stCheckPast"}
  /\ LET key == IF pc[t] = "stCheck" THEN current ELSE past
     IN IF key = asked[t] THEN Finish(t) /\ UNCHANGED refused
        ELSE IF pc[t] = "stCheck" THEN Goto(t, "stCheckPast") /\ UNCHANGED refused
        ELSE Finish(t) /\ refused' = (refused \/ held[t])
  /\ UNCHANGED <<stStore, seen, asked, minted, installed, replaced, held, answers>>

\* same_token_timeout ends for one of the keys.
ExpireSecret ==
  /\ SecretsExpire
  /\ \/ current # Nil /\ Store(Nil, past)
     \/ past # Nil /\ Store(current, Nil)
  /\ replaced' = Nil
  /\ UNCHANGED <<control, seen, asked, minted, installed, answers, refused>>

StDropped(t) == Dropped(t) /\ UNCHANGED stState

StTask(t) ==
  \/ GetToken(t) \/ RefreshToken(t) \/ ReadCurrent(t) \/ SavePast(t)
  \/ CasCurrent(t) \/ Reread(t) \/ CheckSecret(t) \/ StDropped(t)
  \/ \E s \in minted : IsValid(t, s)

StNext == (\E t \in Tasks : StTask(t)) \/ ExpireSecret

StSpec == ControlInit /\ StInit /\ [][StNext]_stVars

-----------------------------------------------------------------------------
\* No caller is handed a secret the cluster never used: a refresh that loses the
\* CAS returns the winner's ("so callers do not split the cluster secret").
SecretNotSplit == answers \subseteq installed

\* is_valid reads two keys at two times, and a rotation may run in between: it
\* never refuses a token that was one of the two all along.
HeldIsAccepted == ~refused

\* "Current value plus one previous value (grace window) are both accepted":
\* between refreshes, what the last rotation replaced is the previous value.
GraceAccepted ==
  replaced # Nil /\ (\A t \in Tasks : pc[t] \notin {"stPast", "stCas"})
    => past = replaced

=============================================================================
