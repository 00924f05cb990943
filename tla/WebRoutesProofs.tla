--------------------------- MODULE WebRoutesProofs ---------------------------
(***************************************************************************)
(* What the client asks for gets the same answer in development as in      *)
(* production, and its events only from the API, whatever else is sent.    *)
(*                                                                         *)
(* RouteInv says how far such a request gets: no stage before the one that *)
(* answers it answers it, and the fallback of development is never        *)
(* reached.                                                                *)
(***************************************************************************)
EXTENDS WebRoutes, TLAPS

\* The stage that a request of the client has come to answers it or is not its last one, and
\* is not the fallback.
LEMMA ClientStage ==
  ASSUME RouteInv, OfTheClient(request), NEW s \in Sides
  PROVE  /\ stage[s] <= Len(Stages(s))
         /\ Stages(s)[stage[s]] # "fallback"
         /\ Answers(s, Stages(s)[stage[s]]) \in {"none"} \cup Served
         /\ stage[s] = LastStage(s) => Answers(s, Stages(s)[stage[s]]) # "none"
<1> DEFINE p == request.path
<1>1. /\ request.method = "GET"
      /\ p \in {"/", "/index.json", "/static/js/main.js", "/favicon.ico"}
  BY DEF OfTheClient, Bundled, Public
<1>2. path[s] = p /\ stage[s] \in 1..LastStage(s) /\ stage[s] \in Nat
  BY DEF RouteInv, RouteTypeOK
<1>3. CASE s = "development"
  <2>1. stage[s] \in 1..3
    BY <1>2, <1>3 DEF LastStage
  <2>2. Stages(s) = devStages /\ Len(devStages) = 6
    BY <1>3 DEF Stages, devStages
  <2>3. devStages[1] = "webpack" /\ devStages[2] = "proxy" /\ devStages[3] = "public"
    BY DEF devStages
  <2>4. Answers(s, "webpack") = IF p = "/" THEN "page" ELSE IF p \in Bundled THEN "file" ELSE "none"
    BY <1>1, <1>2, <1>3 DEF Answers, DevAnswers, Compiled, Bundled
  <2>5. Answers(s, "proxy") = IF p # "/index.json" THEN "none" ELSE IF apiFails THEN "500" ELSE "events"
    BY <1>1, <1>2, <1>3 DEF Answers, DevAnswers, Proxied, Api
  <2>6. Answers(s, "public") = IF p \in Public THEN "file" ELSE "none"
    BY <1>1, <1>2, <1>3 DEF Answers, DevAnswers, ContentBase, Public
  <2>7. stage[s] <= Len(Stages(s)) /\ Stages(s)[stage[s]] # "fallback"
    BY <2>1, <2>2, <2>3
  <2>8. CASE stage[s] = 1
    BY <1>1, <1>3, <2>2, <2>3, <2>4, <2>7, <2>8 DEF LastStage, Served, Bundled, Public
  <2>9. CASE stage[s] = 2
    BY <1>1, <1>2, <1>3, <2>2, <2>3, <2>5, <2>7, <2>9 DEF LastStage, Served, Bundled, Public
  <2>10. CASE stage[s] = 3
    BY <1>1, <1>2, <1>3, <2>2, <2>3, <2>6, <2>7, <2>10 DEF LastStage, Served, Bundled, Public
  <2> QED
    BY <2>1, <2>8, <2>9, <2>10
<1>4. CASE s = "production"
  <2>1. stage[s] \in 1..3
    BY <1>2, <1>4 DEF LastStage
  <2>2. Stages(s) = nginxStages /\ Len(nginxStages) = 3
    BY <1>4 DEF Stages, nginxStages
  <2>3. nginxStages[1] = "worker" /\ nginxStages[2] = "try_files" /\ nginxStages[3] = "@api"
    BY DEF nginxStages
  <2>4. /\ Answers(s, "worker") \in {"none"} \cup (IF p = "/" THEN {"page"} ELSE IF p \in Bundled THEN {"file"} ELSE {})
    BY <1>1, <1>2, <1>4 DEF Answers, NginxAnswers, Worker, Precached, Blacklisted, Bundled
  <2>5. Answers(s, "try_files")
          = IF p = "/" THEN "page" ELSE IF p = "/index.json" THEN "none" ELSE "file"
    BY <1>1, <1>2, <1>4 DEF Answers, NginxAnswers, TryFiles, Bundled, Public
  <2>6. Answers(s, "@api") = IF p # "/index.json" THEN Answers(s, "@api")
                             ELSE IF apiFails THEN "50x.html" ELSE "events"
    BY <1>1, <1>2, <1>4 DEF Answers, NginxAnswers, Intercepted, Api
  <2> QED
    BY <1>1, <1>2, <1>4, <2>1, <2>2, <2>3, <2>4, <2>5, <2>6 DEF LastStage, Served, Bundled, Public
<1> QED
  BY <1>3, <1>4 DEF Sides

LEMMA RouteInvInit == Init => RouteInv
BY DEF Init, RouteInv, RouteTypeOK, LastStage, Served, Sides

LEMMA RouteTypeNext ==
  ASSUME RouteTypeOK, [Next]_vars
  PROVE  RouteTypeOK'
<1> USE DEF RouteTypeOK
<1>1. ASSUME NEW s \in Sides, Answer(s) \/ NotFound(s)
      PROVE  RouteTypeOK'
  BY <1>1 DEF Answer, NotFound
<1>2. ASSUME NEW s \in Sides, Pass(s)
      PROVE  RouteTypeOK'
  <2>1. UNCHANGED <<request, controlled, apiFails, answer>> /\ stage' \in [Sides -> Nat]
    BY <1>2 DEF Pass
  <2>2. path' = [path EXCEPT ![s] = path'[s]]
    BY <1>2 DEF Pass
  <2>3. path' = [r \in Sides |-> path'[r]]
    BY <2>2
  <2> QED
    BY <2>1, <2>3
<1>3. CASE UNCHANGED vars
  BY <1>3 DEF vars
<1> QED
  BY <1>1, <1>2, <1>3 DEF Next, Answered

LEMMA RouteInvNext ==
  ASSUME RouteInv, [Next]_vars
  PROVE  RouteInv'
<1>1. RouteTypeOK'
  BY RouteTypeNext DEF RouteInv
<1>2. CASE UNCHANGED vars
  BY <1>2 DEF vars, RouteInv, RouteTypeOK, LastStage, Served
<1>3. ASSUME NEW t \in Sides, Answer(t) \/ Pass(t) \/ NotFound(t),
             OfTheClient(request)',
             NEW s \in Sides
      PROVE  /\ path'[s] = request'.path
             /\ stage'[s] \in 1..LastStage(s)'
             /\ answer'[s] \in {"none"} \cup Served'
  <2>1. UNCHANGED <<request, controlled, apiFails>>
    BY <1>3 DEF Answer, Pass, NotFound
  <2>2. OfTheClient(request) /\ LastStage(s)' = LastStage(s) /\ Served' = Served
    BY <1>3, <2>1 DEF LastStage, Served
  <2>3. /\ path[s] = request.path /\ stage[s] \in 1..LastStage(s)
        /\ answer[s] \in {"none"} \cup Served
    BY <2>2 DEF RouteInv
  <2>4. RouteTypeOK /\ LastStage(s) \in Nat
    BY DEF RouteInv, LastStage
  <2>5. ASSUME Answer(t)
        PROVE  /\ path'[s] = path[s] /\ stage'[s] = stage[s]
               /\ answer'[s] \in {"none"} \cup Served
    BY <2>2, <2>3, <2>4, <2>5, ClientStage DEF Answer, RouteTypeOK
  <2>6. ASSUME Pass(t)
        PROVE  /\ path'[s] = path[s] /\ answer'[s] = answer[s]
               /\ stage'[s] \in 1..LastStage(s)
    <3>1. CASE s = t
      <4>1. stage[s] # LastStage(s) /\ Stages(s)[stage[s]] # "fallback"
        BY <2>2, <2>6, <3>1, ClientStage DEF Pass
      <4>2. stage'[s] = stage[s] + 1 /\ path'[s] = path[s] /\ answer'[s] = answer[s]
        BY <2>4, <2>6, <3>1, <4>1 DEF Pass, RouteTypeOK
      <4> QED
        BY <2>3, <2>4, <4>1, <4>2
    <3>2. CASE s # t
      BY <2>3, <2>4, <2>6, <3>2 DEF Pass, RouteTypeOK
    <3> QED
      BY <3>1, <3>2
  <2>7. ~NotFound(t)
    BY <2>2, ClientStage DEF NotFound, RouteInv, RouteTypeOK, Stages, devStages, nginxStages
  <2> QED
    BY <1>3, <2>1, <2>2, <2>3, <2>5, <2>6, <2>7
<1> QED
  BY <1>1, <1>2, <1>3 DEF RouteInv, Next, Answered

\* The inductive invariant of a request of the client, for every set of requests.
THEOREM RouteInvariant == Spec => []RouteInv
<1>1. Init => RouteInv
  BY RouteInvInit
<1>2. RouteInv /\ [Next]_vars => RouteInv'
  BY RouteInvNext
<1> QED
  BY <1>1, <1>2, PTL DEF Spec

\* The client gets in development what it will get in production, with or without a service
\* worker.
THEOREM RoutesClientRequestsAgree == Spec => []ClientRequestsAgree
<1>1. RouteInv => ClientRequestsAgree
  BY DEF RouteInv, ClientRequestsAgree, BothAnswered, OfTheClient, Served, Sides
<1> QED
  BY <1>1, RouteInvariant, PTL

\* No fallback, no worker and no file answers /index.json: its list comes from the API.
THEOREM RoutesEventsFromApi == Spec => []EventsFromApi
<1>1. RouteInv => EventsFromApi
  BY DEF RouteInv, EventsFromApi, OfTheClient, Served
<1> QED
  BY <1>1, RouteInvariant, PTL

=============================================================================
