------------------------------ MODULE WebRoutes ------------------------------
(***************************************************************************)
(* Who answers a request: in production the service worker of the page,    *)
(* nginx (web/nginx.conf) or the API (pkg/http/mux.go); in development     *)
(* webpack-dev-server (web/config/webpackDevServer.config.js) or the API.  *)
(*                                                                         *)
(* Each is a list of stages, and the first stage that knows the path       *)
(* answers.  The same request is sent to both.                             *)
(***************************************************************************)
EXTENDS Naturals, Sequences

CONSTANTS
  Requests           \* the requests that are sent

Sides == {"development", "production"}

ASSUME WebRoutesAssumption ==
  \A r \in Requests : /\ r.method \in {"GET", "POST"}
                      /\ r.accept \in {"text/html", "*/*", "application/json"}
                      /\ r.mode \in {"navigate", "fetch"}

VARIABLES
  request,
  controlled,        \* a service worker controls the page that sends it
  apiFails,          \* the API panics on /index.json: a statement has failed
  stage,             \* stage[s]: the stage the request has come to on side s
  path,              \* path[s]: its path there, which a stage may have rewritten
  answer             \* answer[s]: what answers it, or "none"

vars == <<request, controlled, apiFails, stage, path, answer>>

Init ==
  /\ request \in Requests
  /\ controlled \in BOOLEAN
  /\ apiFails \in BOOLEAN
  /\ stage = [s \in Sides |-> 1]
  /\ path = [s \in Sides |-> request.path]
  /\ answer = [s \in Sides |-> "none"]

-----------------------------------------------------------------------------
(* mux.go. *)

Api(method, p) ==
  CASE method = "GET" /\ p = "/index.json" -> IF apiFails THEN "500" ELSE "events"
    [] method = "GET" /\ p = "/status" -> "status"
    [] method = "GET" /\ p = "/panic" -> "500"
    [] method = "POST" /\ p = "/rails/copy" -> "copy"
    [] OTHER -> "404"

-----------------------------------------------------------------------------
(* Stages: what each answers, "none" if it passes the request on. *)

Bundled == {"/static/js/main.js"}
Public == {"/favicon.ico"}

\* webpack-dev-middleware: the files of the compiler, index.html for the root.
Compiled(method, p) ==
  CASE method = "GET" /\ p \in {"/", "/index.html"} -> "page"
    [] method = "GET" /\ p \in Bundled -> "file"
    [] OTHER -> "none"

Proxied == {"/index.json", "/panic", "/status"}

ContentBase(method, p) == IF method = "GET" /\ p \in Public THEN "file" ELSE "none"

\* historyApiFallback: paths with dots as well, for who accepts HTML or anything.
FallsBack == request.method = "GET" /\ request.accept \in {"text/html", "*/*"}

\* redirectServedPath has nothing to do for an app at the root.
After(method, p) == IF method = "GET" /\ p = "/service-worker.js" THEN "no-op worker" ELSE "none"

\* Mutant: the fallback comes before the proxy.
FallbackFirst == <<"webpack", "fallback", "webpack", "proxy", "public", "after">>

devStages == <<"webpack", "proxy", "public", "fallback", "webpack", "after">>

DevAnswers(name, p) ==
  CASE name = "webpack" -> Compiled(request.method, p)
    [] name = "proxy" -> IF p \in Proxied THEN Api(request.method, p) ELSE "none"
    [] name = "public" -> ContentBase(request.method, p)
    [] name = "after" -> After(request.method, p)
    [] OTHER -> "none"

\* The precached files of GenerateSW, under the names that the worker knows.
Precached == {"/", "/index.html"} \cup Bundled

\* Mutant: the blacklist lacks the rule for file extensions.
BlacklistedApi(p) == FALSE

\* navigateFallbackBlacklist: what starts with /_, or ends in what looks like an extension.
Blacklisted(p) == p \in {"/index.json", "/favicon.ico", "/service-worker.js"} \cup Bundled

Worker(p) ==
  IF ~controlled \/ request.method # "GET" \/ p = "/service-worker.js" THEN "none"
  ELSE IF p \in Bundled THEN "file"
  ELSE IF p \in Precached \/ (request.mode = "navigate" /\ ~Blacklisted(p)) THEN "page"
  ELSE "none"

\* try_files: the file, the index.html of the folder, and then the API.
TryFiles(method, p) ==
  LET file == IF p \in {"/", "/index.html"} THEN "page"
              ELSE IF p = "/service-worker.js" THEN "worker"
              ELSE IF p \in Bundled \cup Public THEN "file"
              ELSE "none"
  IN  IF file # "none" /\ method # "GET" THEN "405" ELSE file

\* proxy_intercept_errors: nginx answers with its own page when the API fails.
Intercepted(a) == IF a = "500" THEN "50x.html" ELSE a

nginxStages == <<"worker", "try_files", "@api">>

NginxAnswers(name, p) ==
  CASE name = "worker" -> Worker(p)
    [] name = "try_files" -> TryFiles(request.method, p)
    [] name = "@api" -> Intercepted(Api(request.method, p))

Stages(s) == IF s = "development" THEN devStages ELSE nginxStages
Answers(s, name) == IF s = "development" THEN DevAnswers(name, path[s]) ELSE NginxAnswers(name, path[s])

-----------------------------------------------------------------------------

Answer(s) ==
  /\ answer[s] = "none"
  /\ stage[s] <= Len(Stages(s))
  /\ Answers(s, Stages(s)[stage[s]]) # "none"
  /\ answer' = [answer EXCEPT ![s] = Answers(s, Stages(s)[stage[s]])]
  /\ UNCHANGED <<request, controlled, apiFails, stage, path>>

\* The fallback rewrites the path and passes the request on.
Pass(s) ==
  /\ answer[s] = "none"
  /\ stage[s] <= Len(Stages(s))
  /\ Answers(s, Stages(s)[stage[s]]) = "none"
  /\ stage' = [stage EXCEPT ![s] = @ + 1]
  /\ path' = [path EXCEPT ![s] = IF Stages(s)[stage[s]] = "fallback" /\ FallsBack THEN "/" ELSE @]
  /\ UNCHANGED <<request, controlled, apiFails, answer>>

NotFound(s) ==
  /\ answer[s] = "none"
  /\ stage[s] > Len(Stages(s))
  /\ answer' = [answer EXCEPT ![s] = "404"]
  /\ UNCHANGED <<request, controlled, apiFails, stage, path>>

Answered ==
  /\ \A s \in Sides : answer[s] # "none"
  /\ UNCHANGED vars

Next ==
  \/ \E s \in Sides : Answer(s) \/ Pass(s) \/ NotFound(s)
  \/ Answered

Spec == Init /\ [][Next]_vars

-----------------------------------------------------------------------------
(* Properties. *)

BothAnswered == \A s \in Sides : answer[s] # "none"

\* What the browser sends for the app: the visit, its files, and the events, which App
\* fetches and a reader may also open.
OfTheClient(r) == r.method = "GET" /\ r.path \in {"/", "/index.json"} \cup Bundled \cup Public

\* The client gets in development what it will get in production, with or without a service
\* worker, from stages in another order.
ClientRequestsAgree ==
  BothAnswered /\ OfTheClient(request) /\ ~apiFails => answer["development"] = answer["production"]

\* The events come from the API, or they do not come: no fallback and no worker answers
\* /index.json with a page, which App would take for a list and fail to parse.
EventsFromApi ==
  \A s \in Sides : request.path = "/index.json" /\ request.method = "GET" =>
    answer[s] \in {"none", "events", "500", "50x.html"}

\* How far a request of the client gets on side s, and what answers it there: it keeps its
\* path, since the fallback of development comes after each stage that answers one.
LastStage(s) ==
  IF request.path = "/index.json" THEN (IF s = "development" THEN 2 ELSE 3)
  ELSE IF s = "production" THEN 2
  ELSE IF request.path \in Public THEN 3
  ELSE 1

Served ==
  IF request.path = "/" THEN {"page"}
  ELSE IF request.path # "/index.json" THEN {"file"}
  ELSE IF apiFails THEN {"500", "50x.html"}
  ELSE {"events"}

RouteTypeOK ==
  /\ request \in Requests
  /\ controlled \in BOOLEAN /\ apiFails \in BOOLEAN
  /\ stage \in [Sides -> Nat]
  /\ path = [s \in Sides |-> path[s]]
  /\ answer = [s \in Sides |-> answer[s]]

RouteInv ==
  /\ RouteTypeOK
  /\ OfTheClient(request) =>
       \A s \in Sides : /\ path[s] = request.path
                        /\ stage[s] \in 1..LastStage(s)
                        /\ answer[s] \in {"none"} \cup Served

=============================================================================
