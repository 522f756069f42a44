------------------------------ MODULE MCContext ------------------------------
(***************************************************************************)
(* A small application for RequestContext: paths, path rules and places to  *)
(* look for a token, behind the layer of one of the frameworks.             *)
(***************************************************************************)
EXTENDS RequestContext, TLC

Pattern(kind, path) == [kind |-> kind, path |-> path]
Rule(include, exclude, accept) ==
  [include |-> include, exclude |-> exclude, accept |-> accept]

Api == <<"/", "api">>

\* /api, /api/, /api/user, /api/user/role, /apix and /login.html
SitePaths ==
  {Api, Api \o <<"/">>, Api \o <<"/", "user">>, Api \o <<"/", "user", "/", "role">>,
   Api \o <<"x">>, <<"/", "login", ".html">>}

\* "/api/**" and "/login.html" but "/api/*"; "/**" but "*.html" and "/api/user",
\* for one account only.
SiteRules ==
  {Rule({Pattern("under", Api), Pattern("exact", <<"/", "login", ".html">>)},
        {Pattern("one", Api)}, Visitors),
   Rule({Pattern("all", <<>>)},
        {Pattern("ending", <<".html">>), Pattern("exact", Api \o <<"/", "user">>)},
        {CHOOSE v \in Visitors : TRUE})}

ScopedLayers == {Axum, Poem, Salvo, Tide, Ntex, Tonic, Actix, Gotham}

RocketLayer == {Rocket}

SitePlaces == <<"header", "cookie">>

=============================================================================
