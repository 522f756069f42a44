---------------------------- MODULE RequestContext ----------------------------
(***************************************************************************)
(* The way of a request through a framework binding: its token is read and  *)
(* looked up, the path rules admit or reject it, a context is installed for *)
(* its handler, and the handler asks the context who is calling, while      *)
(* other requests run on the same workers.  A context is installed for the  *)
(* task (AuthFlowResult::run) or for the worker thread (the Rocket layer).  *)
(***************************************************************************)
EXTENDS Requests, Sequences, SequencesExt

CONSTANTS
  Visitors,   \* accounts; each has one token, named like it
  Places,     \* where a token is looked for, in the configured order
  Paths,      \* paths, sequences of "/" and words
  Rules,      \* path rules: patterns that include and exclude, accounts accepted
  Workers,    \* threads of the runtime
  Layers      \* layers of frameworks, one of which is the application's

\* What a path is made of: slashes and words.
Pieces == {"/"} \cup STRING

ASSUME ContextAssumption ==
  /\ Layers \subseteq [ruled : BOOLEAN, binds : {"task", "thread"}]
  /\ Nil \notin Visitors \cup Tasks \cup {"admitted", "rejected"}
  /\ Paths \subseteq Seq(Pieces)
  /\ \A r \in Rules :
       /\ r.accept \subseteq Visitors
       /\ \A p \in r.include \cup r.exclude :
            /\ p.kind \in {"all", "under", "one", "ending", "exact"}
            /\ p.path \in Seq(Pieces) /\ (p.kind = "ending" => p.path # <<>>)

VARIABLES
  layer, rules,   \* of the application
  loggedIn,    \* the tokens that are valid; one that has ended does not come back
  visit,       \* what a request brings: its token, whether its path needs login
  context,     \* a request's context: the token's account, and the one switched to
  onWorker,    \* the request whose context a worker thread has
  sought,      \* the token whose account a handler is looking up
  \* ---- history
  failed,      \* requests that met a storage error
  verdict,     \* "admitted" or "rejected"
  wish,        \* the account a request has last switched to
  told         \* what its handler was last told, and what it wished then

rcConfig == <<layer, rules>>
rcHistory == <<failed, verdict, wish, told>>
rcState == <<rcConfig, loggedIn, visit, context, onWorker, sought, rcHistory>>
rcVars == <<control, rcState>>

\* A layer that takes no path rules passes none on.
RulesOf(l) == IF l.ruled THEN Rules ELSE {[include |-> {}, exclude |-> {}, accept |-> {}]}

RcInit ==
  /\ layer \in Layers /\ rules \in RulesOf(layer) /\ loggedIn = Visitors
  /\ visit = [t \in Tasks |-> Nil] /\ failed = {}
  /\ context = [t \in Tasks |-> Nil] /\ onWorker = [w \in Workers |-> Nil]
  /\ sought = [t \in Tasks |-> Nil] /\ verdict = [t \in Tasks |-> Nil]
  /\ wish = [t \in Tasks |-> Nil] /\ told = [t \in Tasks |-> {}]

-----------------------------------------------------------------------------
(***************************************************************************)
(* The layers of the frameworks: which of them take path rules (the others  *)
(* run the flow without any), and whether a context is installed for the    *)
(* task that runs the handler or for the worker thread.                     *)
(***************************************************************************)
Axum   == [ruled |-> TRUE, binds |-> "task"]
Poem   == [ruled |-> TRUE, binds |-> "task"]
Salvo  == [ruled |-> TRUE, binds |-> "task"]
Tide   == [ruled |-> TRUE, binds |-> "task"]
Ntex   == [ruled |-> TRUE, binds |-> "task"]
Tonic  == [ruled |-> TRUE, binds |-> "task"]
Actix  == [ruled |-> TRUE, binds |-> "task"]
Gotham == [ruled |-> FALSE, binds |-> "task"]
Rocket == [ruled |-> FALSE, binds |-> "thread"]

-----------------------------------------------------------------------------
(***************************************************************************)
(* Path rules and token                                                    *)
(***************************************************************************)
\* The part of a path behind a prefix has at most one segment: no slash is left
\* once those it starts with are trimmed.
OneSegment(rest) ==
  \A i, j \in DOMAIN rest : i < j /\ rest[j] = "/" => rest[i] = "/"

MatchPath(path, p) ==
  CASE p.kind = "all"    -> TRUE
    [] p.kind = "under"  -> IsPrefix(p.path, path)
    [] p.kind = "ending" -> IsSuffix(p.path, path)
    [] p.kind = "one"    -> /\ IsPrefix(p.path, path)
                            /\ OneSegment(SubSeq(path, Len(p.path) + 1, Len(path)))
    [] OTHER             -> path = p.path

MatchAny(path, patterns) == \E p \in patterns : MatchPath(path, p)

NeedAuth(path) == MatchAny(path, rules.include) /\ ~MatchAny(path, rules.exclude)

\* The first place that has anything decides, even if it lacks the prefix that
\* is configured ("bare").
ReadToken(carried) ==
  LET given == {i \in DOMAIN Places : carried[i] # Nil}
      first == CHOOSE i \in given : \A j \in given : i <= j
  IN IF given = {} \/ carried[first] = "bare" THEN Nil ELSE carried[first]

-----------------------------------------------------------------------------
(***************************************************************************)
(* run_auth_flow, with the handler inside it                               *)
(***************************************************************************)
\* What the comment of match_path and path-auth.md say a pattern means: "/api/**" the
\* paths starting with /api/, "/api/*" those with one segment there, or none.
Meant(path, p) ==
  CASE p.kind = "all"    -> TRUE
    [] p.kind = "under"  -> \E n \in 1..Len(path) : SubSeq(path, 1, n) = Append(p.path, "/")
    [] p.kind = "ending" -> \E n \in 1..Len(path) : SubSeq(path, n, Len(path)) = p.path
    [] p.kind = "one"    -> \E n \in 1..Len(path) :
                              /\ SubSeq(path, 1, n) = Append(p.path, "/")
                              /\ Len(path) <= n + 1
    [] OTHER             -> path = p.path

\* The path ends where the pattern's prefix does or goes on in the middle of a segment:
\* the matcher, which compares no more than the prefix, may take it all the same.
Stretched(path, p) ==
  /\ p.kind \in {"under", "one"} /\ IsPrefix(p.path, path)
  /\ path # p.path => path[Len(p.path) + 1] # "/"

Protected(path) ==
  /\ \E p \in rules.include : Meant(path, p)
  /\ ~\E p \in rules.exclude : Meant(path, p)

\* What a request brings: its token, whether the code and whether the documentation want
\* a login for its path, and whether no rule is stretched on it.
Brought(path, carried) ==
  [token |-> ReadToken(carried), need |-> NeedAuth(path), meant |-> Protected(path),
   plain |-> ~\E p \in rules.include \cup rules.exclude : Stretched(path, p)]

Arrive(t, path, carried) ==
  /\ Begin(t, "isValid")
  /\ visit' = [visit EXCEPT ![t] = Brought(path, carried)]
  /\ UNCHANGED <<rcConfig, loggedIn, context, onWorker, sought, rcHistory>>

\* A token's account, as the storage has it now; on an error there is none.
Lookup(t, token, account) ==
  \/ account = (IF token \in loggedIn THEN token ELSE Nil) /\ UNCHANGED failed
  \/ MayFail /\ account = Nil /\ failed' = failed \cup {t}

\* Mutant: a token that was valid a moment ago is enough.
AcceptedEarly(t, valid, account) == valid

\* process_auth: the account must be known and accepted where login is needed.
Accepted(t, valid, account) ==
  valid /\ (visit[t].need => account \in rules.accept)

Decide(t, w, valid, account) ==
  IF visit[t].need /\ ~Accepted(t, valid, account)
  THEN /\ Goto(t, "gone") /\ verdict' = [verdict EXCEPT ![t] = "rejected"]
       /\ UNCHANGED <<context, onWorker>>
  ELSE /\ Goto(t, "handling") /\ verdict' = [verdict EXCEPT ![t] = "admitted"]
       /\ context' = [context EXCEPT ![t] = [account |-> account, switch |-> Nil]]
       /\ onWorker' = IF layer.binds = "task" THEN onWorker
                      ELSE [onWorker EXCEPT ![w] = t]

CheckToken(t, w) ==
  /\ pc[t] = "isValid"
  /\ \E account \in Visitors \cup {Nil} :
       /\ Lookup(t, visit[t].token, account)
       /\ \/ account = Nil /\ Decide(t, w, FALSE, Nil)
          \/ /\ account # Nil /\ Goto(t, "getInfo")
             /\ UNCHANGED <<context, onWorker, verdict>>
  /\ UNCHANGED <<rcConfig, loggedIn, visit, sought, wish, told>>

GetInfo(t, w) ==
  /\ pc[t] = "getInfo"
  /\ \E account \in Visitors \cup {Nil} :
       Lookup(t, visit[t].token, account) /\ Decide(t, w, TRUE, account)
  /\ UNCHANGED <<rcConfig, loggedIn, visit, sought, wish, told>>

\* The answer goes out.  The Rocket layer clears the thread it is on; a task's
\* context is dropped with the task.
Respond(t, w) ==
  /\ pc[t] = "handling" /\ Goto(t, "gone")
  /\ IF layer.binds = "thread"
     THEN onWorker' = [onWorker EXCEPT ![w] = Nil] /\ UNCHANGED context
     ELSE context' = [context EXCEPT ![t] = Nil] /\ UNCHANGED onWorker
  /\ UNCHANGED <<rcConfig, loggedIn, visit, sought, rcHistory>>

Disconnect(t) ==
  /\ MayFail /\ pc[t] \notin {"idle", "gone"} /\ Goto(t, "gone")
  /\ UNCHANGED rcState

EndToken(k) ==
  /\ k \in loggedIn /\ loggedIn' = loggedIn \ {k}
  /\ UNCHANGED <<control, rcConfig, visit, context, onWorker, sought, rcHistory>>

-----------------------------------------------------------------------------
(***************************************************************************)
(* What a handler asks of its context                                      *)
(***************************************************************************)
\* try_current: the task's context, or the one of the thread it runs on.
TryCurrent(t, w) == IF layer.binds = "task" THEN t ELSE onWorker[w]

\* with_current_mut, which does nothing without a context.
Switch(t, w, u) ==
  /\ pc[t] = "handling" /\ Call /\ UNCHANGED pc
  /\ wish' = [wish EXCEPT ![t] = u]
  /\ LET h == TryCurrent(t, w)
     IN context' = IF h = Nil THEN context ELSE [context EXCEPT ![h].switch = u]
  /\ UNCHANGED <<rcConfig, loggedIn, visit, onWorker, sought, failed, verdict, told>>

\* Mutant: the switch is made in a copy of the context.
SwitchToCopy(t, w, u) ==
  /\ pc[t] = "handling" /\ Call /\ UNCHANGED pc
  /\ wish' = [wish EXCEPT ![t] = u]
  /\ UNCHANGED <<rcConfig, loggedIn, visit, context, onWorker, sought, failed,
                 verdict, told>>

SwitchTo(t, w, u) == Switch(t, w, u)

EndSwitch(t, w) == Switch(t, w, Nil)

Tell(t, who) == told' = [told EXCEPT ![t] = {<<who, wish[t]>>}]

\* get_login_id_as_string: the account switched to, or that of the token.
GetLoginId(t, w) ==
  /\ pc[t] = "handling" /\ Call
  /\ LET h == TryCurrent(t, w)
         switched == h # Nil /\ context[h].switch # Nil
         known == h # Nil /\ context[h].account # Nil
     IN \/ switched /\ Tell(t, context[h].switch) /\ UNCHANGED <<pc, sought>>
        \/ ~switched /\ ~known /\ Tell(t, Nil) /\ UNCHANGED <<pc, sought>>
        \/ /\ ~switched /\ known /\ pc' = [pc EXCEPT ![t] = "lookUp"]
           /\ sought' = [sought EXCEPT ![t] = context[h].account] /\ UNCHANGED told
  /\ UNCHANGED <<rcConfig, loggedIn, visit, context, onWorker, failed, verdict, wish>>

GetLoginIdDone(t) ==
  /\ pc[t] = "lookUp" /\ Goto(t, "handling")
  /\ \E account \in Visitors \cup {Nil} :
       Lookup(t, sought[t], account) /\ Tell(t, account)
  /\ sought' = [sought EXCEPT ![t] = Nil]
  /\ UNCHANGED <<rcConfig, loggedIn, visit, context, onWorker, verdict, wish>>

RcNext ==
  \/ \E k \in Visitors : EndToken(k)
  \/ \E t \in Tasks :
       \/ \E path \in Paths :
            \E carried \in [DOMAIN Places -> Visitors \cup {Nil, "bare"}] :
              Arrive(t, path, carried)
       \/ Disconnect(t) \/ GetLoginIdDone(t)
       \/ \E w \in Workers :
            \/ CheckToken(t, w) \/ GetInfo(t, w) \/ Respond(t, w)
            \/ GetLoginId(t, w) \/ EndSwitch(t, w)
            \/ \E u \in Visitors : SwitchTo(t, w, u)

RcSpec == ControlInit /\ RcInit /\ [][RcNext]_rcVars

-----------------------------------------------------------------------------
(***************************************************************************)
(* The gate is neither too wide nor too narrow: a handler behind a path     *)
(* that is said to be protected runs for the account of the token that its  *)
(* request brought, one the application accepts, even if the token ends     *)
(* between the two lookups; and a request is turned away only from such a   *)
(* path, and not if its token stays valid and is accepted.                  *)
(***************************************************************************)
Exact(t) ==
  /\ verdict[t] = "admitted" /\ visit[t].meant /\ pc[t] = "handling" =>
       context[t].account = visit[t].token /\ visit[t].token \in rules.accept
  /\ verdict[t] = "rejected" =>
       /\ visit[t].meant
       /\ visit[t].token \in loggedIn \cap rules.accept => t \in failed

\* The gate is exact on the paths on which no rule is stretched.
GateIsExact == \A t \in Tasks : verdict[t] # Nil /\ visit[t].plain => Exact(t)

(***************************************************************************)
(* A handler that asks who is calling is told the account its own request   *)
(* has switched to, or else that of its own token, whatever other requests  *)
(* the workers run in between and switch to; and it is told nobody only     *)
(* when its token is gone.                                                  *)
(***************************************************************************)
ActsAsItself ==
  \A t \in Tasks : \A answer \in told[t] :
    LET who == answer[1]
        wished == answer[2]
    IN IF wished # Nil THEN who = wished
       ELSE \/ who # Nil /\ who = visit[t].token
            \/ who = Nil /\ (visit[t].token \in loggedIn => t \in failed)

=============================================================================
