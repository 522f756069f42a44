--------------------------- MODULE AuthServiceInv ---------------------------
(***************************************************************************)
(* The inductive invariants behind the theorems about AuthService, in a    *)
(* module of their own so that TLC can check them as invariants.           *)
(***************************************************************************)
EXTENDS AuthService

(***************************************************************************)
(* Type correctness, for every configuration.                              *)
(***************************************************************************)

\* What a task holds at each label, as far as the types depend on it.
Holding ==
  \A p \in Procs :
    /\ pc[p] \in LoginLabels => tok[p] \in Tokens
    /\ pc[p] \in LogoutLabels /\ ret[p] = "replaceNext" => tok[p] \in Tokens
    /\ pc[p] \in {"rangeBody", "rangeId"} => ret[p] # "replaceNext"
    /\ pc[p] \in {"listIndex", "probe", "prune"} => ret[p] \in {"enforce", "collect"}
    /\ pc[p] = "enforce" \/ ret[p] = "enforce" => MaxLoginCount > 0
    /\ pc[p] = "prune" => probe[p] # <<>>
    /\ pc[p] \in RenewLabels => cur[p] \in Tokens

TypeInv == TypeOK /\ Holding

(***************************************************************************)
(* One live token, for an exclusive account                                *)
(***************************************************************************)

\* The configuration the argument needs: an exclusive account with the whole
\* account in range, no renewal racing a logout, storage that does delete the body
\* of a token that is being replaced and answers the probes of prune_index.
ExclusiveConfig ==
  /\ \A c \in Configs : ~c.isConcurrent /\ c.replacedRange = "AllDeviceType"
  /\ "renew" \notin Calls
  /\ MayFail \cap {"resolveBody", "resolveId", "deleteBody", "probe"} = {}

\* p is inside logout_internal on behalf of the login's replacement loop.
Replacing(p) == pc[p] \in LogoutLabels /\ ret[p] = "replaceNext"

BeforeBodyLabels == {"share", "shareMark", "shareBody", "before", "listTargets",
                     "mappingTarget", "replaceNext", "appendIndex", "snapshot",
                     "readSession", "saveSession", "saveTokenId", "saveBody"}

\* The tokens whose body has not been written yet: only the login that owns such
\* a token, when it gets there, will ever write it.
Unborn ==
  {t \in Tokens :
     \/ t \notin used
     \/ \E p \in Procs : tok[p] = t /\ (pc[p] \in BeforeBodyLabels \/ Replacing(p))}

PreDelete == {"resolveBody", "resolveId", "deleteBody"}
PostDelete == LogoutLabels \ PreDelete

\* Tokens of logins in flight are fresh and belong to one task; a task that is
\* not logging in holds none, and never evicts or renews here.
TokensInv ==
  /\ committed \subseteq used
  /\ \A p \in Procs : tok[p] # NoToken => tok[p] \in used \ committed
  /\ \A p, q \in Procs : tok[p] = tok[q] /\ tok[p] # NoToken => p = q

ControlInv ==
  \A p \in Procs :
    /\ pc[p] \notin RenewLabels \cup {"enforce", "evictNext"}
    /\ pc[p] \notin LoginLabels /\ ~Replacing(p) => tok[p] = NoToken
    /\ pc[p] \in LogoutLabels =>
         ret[p] \in {"replaceNext", "return", "accountNext"}
    /\ pc[p] \in {"listIndex", "probe", "prune"} => ret[p] = "collect"
    /\ pc[p] \in {"rangeBody", "rangeId"} => ret[p] = "return"
    /\ Replacing(p) => mode[p] = "Replaced"
    /\ pc[p] = "casDelete" => mode[p] = "Logout"

\* Every token a logout or kick-out works on, or is about to, has been written;
\* once its body is deleted it stays deleted.
BornInv ==
  /\ body \cap Unborn = {} /\ committed \cap Unborn = {}
  /\ \A p \in Procs :
       /\ \A i \in DOMAIN alive[p] : alive[p][i] \notin Unborn
       /\ pc[p] \in LogoutLabels \cup {"rangeBody", "rangeId"} /\ ~Replacing(p)
            => cur[p] \notin Unborn
       /\ pc[p] \in PostDelete /\ ~Replacing(p) => cur[p] \notin body
       /\ pc[p] \notin LoginLabels /\ ~Replacing(p) => targets[p] \cap Unborn = {}

\* A login that may still commit over the token it found mapped has that token
\* gone, or is about to log it out.
ReplacedInv ==
  \A p \in Procs :
    /\ before[p] \in committed \cup {NoToken}
    /\ before[p] = mapping /\ mapping # NoToken =>
         /\ pc[p] = "replaceNext" => mapping \in targets[p] \/ mapping \notin body
         /\ Replacing(p) => \/ mapping \in targets[p] \/ mapping \notin body
                            \/ cur[p] = mapping /\ pc[p] \in PreDelete
         /\ pc[p] \in {"appendIndex", "snapshot", "readSession", "saveSession",
                       "saveTokenId", "saveBody", "cas"} => mapping \notin body

\* Whatever is committed and still has a body is the mapped token.
MappedInv ==
  /\ mapping \in committed \cup {NoToken}
  /\ \A t \in committed \cap body : mapping = t

ExclusiveInv ==
  /\ TypeInv /\ TokensInv /\ ControlInv /\ BornInv /\ ReplacedInv /\ MappedInv

(***************************************************************************)
(* What a failed login leaves behind, for every configuration               *)
(***************************************************************************)

\* The task is between the start of its login and the commit point.
LoggingIn(p) == pc[p] \in LoginLabels \/ Replacing(p)

ShareLabels == {"share", "shareMark", "shareBody"}

\* Tokens are drawn once and belong to one task; a login in flight has not
\* committed its own, and a commit is never undone.
OwnedInv ==
  /\ committed \subseteq used /\ rolledBack \subseteq used \ committed
  /\ mapping \in committed \cup {NoToken}
  /\ \A p \in Procs : tok[p] # NoToken => tok[p] \in used \ rolledBack
  /\ \A p, q \in Procs : tok[p] = tok[q] /\ tok[p] # NoToken => p = q
  /\ \A p \in Procs : LoggingIn(p) => tok[p] \notin committed
  /\ \A p \in Procs : pc[p] \in RenewLabels => cur[p] \in committed

\* No write of a login is left for t.
Clean(t) == t \notin body /\ t \notin Range(index) /\ tokenId[t] # "identity"

\* What the login of p has written, its compensator knows of.
Compensated(p) ==
  /\ tok[p] \in body => "body" \in Range(comp[p])
  /\ tok[p] \in Range(index) => "index" \in Range(comp[p])
  /\ tokenId[tok[p]] = "identity" => "tokenId" \in Range(comp[p])

NoRepeats(s) == \A i, j \in DOMAIN s : s[i] = s[j] => i = j

\* The index names a token once (one list_remove takes it out), the tokens that
\* were given back are clean, and every write of a login in flight is registered.
RollbackInv ==
  /\ NoRepeats(index)
  /\ \A t \in (Tokens \ used) \cup rolledBack : Clean(t)
  /\ \A p \in Procs : pc[p] \in ShareLabels => Clean(tok[p])
  /\ \A p \in Procs : LoggingIn(p) => Compensated(p)

(***************************************************************************)
(* Markers that stay, where nothing is logged out                           *)
(***************************************************************************)

\* The application kicks out and replaces, and an overflow does too: no call
\* deletes the marker of a token (logout does, and a renewal may race it).
MarkingConfig ==
  /\ Calls \cap {"logout", "logoutByLoginId"} = {}
  /\ \A c \in Configs : c.isConcurrent /\ c.maxLoginCount > 0 => c.overflowMode # "Logout"

\* Logins that go on to evict after their commit.
HasLimit == IsConcurrent /\ MaxLoginCount > 0

EvictLabels == {"enforce", "evictNext"}
CollectLabels == {"collect", "scan", "mappingFallback", "accountNext"}

\* Whoever is about to mark a token leaves a marker there.
MarkingInv ==
  \A p \in Procs :
    /\ pc[p] \notin {"rangeBody", "rangeId"}
    /\ pc[p] \in EvictLabels \/ ret[p] \in EvictLabels => HasLimit
    /\ tok[p] # NoToken => LoggingIn(p) \/ HasLimit
    /\ pc[p] \in LogoutLabels \cup CollectLabels => mode[p] # "Logout"
    /\ pc[p] \in {"listIndex", "probe", "prune"} /\ ret[p] = "collect"
         => mode[p] # "Logout"

(***************************************************************************)
(* One call at a time                                                       *)
(***************************************************************************)

\* The tokens a login must have replaced before it writes its own.
ToReplace(p) == {t \in Live : PerDevice(tok[p]) => device[t] = device[tok[p]]}

\* One task; no renewals, which need a second one to matter; no storage error but in
\* probing the index; and an overflow does not log the whole account out, the new
\* token included.
SequentialConfig ==
  /\ Procs # {} /\ \A p, q \in Procs : p = q
  /\ "renew" \notin Calls /\ MayFail \subseteq {"probe"} /\ ~MayCrash
  /\ \A c \in Configs : ~(/\ c.isConcurrent /\ c.maxLoginCount > 0
                          /\ c.overflowMode = "Logout" /\ c.logoutRange = "Account")

StageLabels == {"appendIndex", "snapshot", "readSession", "saveSession", "saveTokenId",
                "saveBody", "cas"}

ReturnsTo == {"replaceNext", "evictNext", "accountNext", "return"}

\* The storage says everywhere that t is logged in; that it is not.
In(t) == /\ t \in body /\ tokenId[t] = "identity" /\ t \in Range(index)
         /\ t \in session.terminals /\ t \in committed
Out(t) == /\ t \notin body /\ tokenId[t] # "identity" /\ t \notin Range(index)
          /\ t \notin session.terminals

\* p has committed its login and evicts the tokens above the limit.
EvictStage(p) ==
  \/ pc[p] \in {"enforce", "evictNext"}
  \/ pc[p] \in {"listIndex", "probe"} /\ ret[p] = "enforce"
  \/ pc[p] \in LogoutLabels /\ ret[p] = "evictNext"

Control(p) ==
  /\ pc[p] \notin RenewLabels \cup {"casAbsent", "prune"}
  /\ pc[p] \in LogoutLabels => ret[p] \in ReturnsTo
  /\ pc[p] \in {"rangeBody", "rangeId"} => ret[p] = "return"
  /\ pc[p] = "casDelete" => mode[p] = "Logout"
  /\ Replacing(p) => mode[p] = "Replaced"
  /\ EvictStage(p) => tok[p] \in committed /\ HasLimit
  /\ tok[p] # NoToken => LoggingIn(p) \/ EvictStage(p)
  /\ comp[p] # <<>> => pc[p] \in StageLabels \/ EvictStage(p)

\* Every token is in or out, but the one a task is changing.
Subject(p) == IF pc[p] \in LogoutLabels THEN {cur[p]}
              ELSE IF pc[p] \in StageLabels THEN {tok[p]} ELSE {}

Agreed(p) == \A t \in Tokens \ Subject(p) : In(t) \/ Out(t)

\* A login's token before and at each stage of write_login_stages.
Staged(p) ==
  /\ LoggingIn(p) /\ pc[p] \notin StageLabels => Out(tok[p])
  /\ pc[p] = "saveSession" => local[p] = session.terminals
  /\ pc[p] \in StageLabels =>
       /\ tok[p] \in Range(index) <=> pc[p] # "appendIndex"
       /\ pc[p] # "appendIndex" => index # <<>> /\ Last(index) = tok[p]
       /\ tok[p] \in session.terminals <=> pc[p] \in {"saveTokenId", "saveBody", "cas"}
       /\ tokenId[tok[p]] = "identity" <=> pc[p] \in {"saveBody", "cas"}
       /\ tok[p] \in body <=> pc[p] = "cas"

\* The token that logout_internal takes out, step by step.
LoggedOut(p) ==
  /\ pc[p] \in LogoutLabels \cup {"rangeBody", "rangeId"} => cur[p] \in Tokens
  /\ pc[p] = "resolveBody" => cur[p] \in body \/ Out(cur[p])
  /\ pc[p] \in {"resolveId", "countTerminals", "deleteSession", "casDelete"} => Out(cur[p])
  /\ pc[p] \in {"deleteBody", "mark"} => ident[p] \/ Out(cur[p])
  /\ pc[p] \in PostDelete => cur[p] \notin body
  /\ pc[p] \in PostDelete \ {"mark"} => tokenId[cur[p]] # "identity"
  /\ pc[p] \in {"readTerminals", "saveTerminals"} => cur[p] \notin Range(index)
  /\ pc[p] = "saveTerminals" => local[p] = session.terminals \ {cur[p]}
  /\ pc[p] = "deleteSession" => session.terminals = {}

\* prune_index finds every entry alive, and the newest is the login's own.
Listed(p) ==
  /\ pc[p] = "probe" => alive[p] \o probe[p] = index
  /\ pc[p] \in {"collect", "enforce"} => alive[p] = index
  /\ pc[p] \in {"scan", "mappingFallback"} => body = {}
  /\ EvictStage(p) =>
       /\ In(tok[p])
       /\ pc[p] \in {"listIndex", "probe", "enforce"} => index # <<>> /\ Last(index) = tok[p]
       /\ pc[p] \notin {"listIndex", "probe", "enforce"} => tok[p] \notin evict[p]
       /\ pc[p] \in LogoutLabels => tok[p] # cur[p]

\* An account-wide call still has every stored body before it.
Swept(p) ==
  /\ pc[p] = "accountNext" => body \subseteq targets[p]
  /\ pc[p] \in LogoutLabels /\ ret[p] = "accountNext" => body \subseteq targets[p] \cup {cur[p]}
  /\ pc[p] = "dropSession" => body = {}
  /\ must[p] # {} =>
       \/ /\ tok[p] = NoToken
          /\ pc[p] \in {"listIndex", "probe", "collect", "scan", "mappingFallback",
                        "accountNext", "dropSession"}
       \/ pc[p] \in LogoutLabels /\ ret[p] = "accountNext"
       \/ pc[p] = "return" /\ body = {}

\* What a login found mapped is mapped still.
Found(p) ==
  LoggingIn(p) /\ pc[p] \notin ShareLabels \cup {"before"} => before[p] = mapping

Replaced(p) ==
  ~IsConcurrent =>
    /\ pc[p] \in StageLabels => ToReplace(p) = {}
    /\ pc[p] \in {"mappingTarget", "replaceNext"} => ToReplace(p) \subseteq targets[p]
    /\ Replacing(p) => ToReplace(p) \subseteq targets[p] \cup {cur[p]}

\* The live tokens that an eviction under way leaves, once it knows which.
Kept(p) ==
  {t \in Live : EvictStage(p) =>
                  /\ pc[p] \notin {"listIndex", "probe", "enforce"}
                  /\ t \notin evict[p]
                  /\ pc[p] # "evictNext" => t # cur[p]}

Within(p) == HasLimit => Cardinality(Kept(p)) <= MaxLoginCount

Shared(p) ==
  IsShare =>
    /\ Live \subseteq {mapping}
    /\ pc[p] \in {"shareMark", "shareBody"} => cur[p] = mapping
    /\ pc[p] = "shareBody" => ~Marked(cur[p])
    /\ LoggingIn(p) /\ pc[p] \notin ShareLabels => Live = {}

SequentialInv ==
  /\ OneTokenPerDevice
  /\ \A p \in Procs :
       /\ Control(p) /\ Agreed(p) /\ Staged(p) /\ LoggedOut(p) /\ Listed(p)
       /\ Swept(p) /\ Found(p) /\ Replaced(p) /\ Within(p) /\ Shared(p)

=============================================================================
