---------------------------- MODULE ServiceWorker ----------------------------
(***************************************************************************)
(* The web client's service worker: what index.js does to it through       *)
(* web/src/serviceWorker.js, in several tabs, while new versions of the    *)
(* client are deployed.                                                    *)
(*                                                                         *)
(* Every version of the client is a build of its own: its index.js calls   *)
(* register() or unregister(), and its build may or may not have a         *)
(* service-worker.js.  The code that runs in a tab is that of the page it  *)
(* was given, by the server or by a worker from its cache.  The life of a  *)
(* worker (install, wait, activate) is the browser's.                      *)
(***************************************************************************)
EXTENDS Integers

CONSTANTS
  Tabs,
  LastVersion,       \* versions 1..LastVersion are deployed one after the other
  Sites,             \* the sites and the versions they deploy
  MaxFaults          \* how many requests and installations fail

Versions == 1..LastVersion

None == 0

ASSUME VersionAssumption ==
  /\ LastVersion \in Nat \ {0}
  /\ \A s \in Sites : /\ s.calls \in [Versions -> {"register", "unregister"}]
                     /\ s.hasWorker \in [Versions -> BOOLEAN]
                     /\ s.isLocalhost \in BOOLEAN
  /\ MaxFaults \in Nat

VARIABLES
  site,              \* what index.js of a version calls, if it has a service-worker.js, the host
  deployed,          \* the version the server has
  registered,        \* the scope has a registration
  installing, waiting, active,   \* its workers, by the version of their script
  updateDue,         \* the browser is about to check for a newer script
  pc,                \* pc[t]: what tab t is doing
  page,              \* page[t]: the version of the page in tab t
  servedBy,          \* servedBy[t]: the worker that answered the navigation of t
  controller,        \* controller[t]: navigator.serviceWorker.controller
  handler,           \* handler[t]: t has set onupdatefound
  watched,           \* watched[t]: the worker whose onstatechange t has set
  told,              \* told[t]: the callback t has run, and for which version
  faults

workerVars == <<registered, installing, waiting, active, updateDue>>
tabVars == <<page, servedBy, controller, handler, watched, told>>
vars == <<site, deployed, workerVars, pc, tabVars, faults>>

Untold == [callback |-> "none", version |-> None]

Calls(v) == site.calls[v]
HasWorker(v) == site.hasWorker[v]
isLocalhost == site.isLocalhost

Init ==
  /\ site \in Sites
  /\ deployed = 1
  /\ registered = FALSE
  /\ installing = None /\ waiting = None /\ active = None
  /\ updateDue = FALSE
  /\ pc = [t \in Tabs |-> "closed"]
  /\ page = [t \in Tabs |-> None]
  /\ servedBy = [t \in Tabs |-> None]
  /\ controller = [t \in Tabs |-> None]
  /\ handler = [t \in Tabs |-> FALSE]
  /\ watched = [t \in Tabs |-> None]
  /\ told = [t \in Tabs |-> Untold]
  /\ faults = 0

Goto(t, p) == pc' = [pc EXCEPT ![t] = p]

Fault ==
  /\ faults < MaxFaults
  /\ faults' = faults + 1

Deploy ==
  /\ deployed < LastVersion
  /\ deployed' = deployed + 1
  /\ UNCHANGED <<site, workerVars, pc, tabVars, faults>>

-----------------------------------------------------------------------------
(* The browser: navigation and the end of a page. *)

LeavePage(t, v, w) ==
  /\ page' = [page EXCEPT ![t] = v]
  /\ servedBy' = [servedBy EXCEPT ![t] = w]
  /\ controller' = [controller EXCEPT ![t] = w]
  /\ handler' = [handler EXCEPT ![t] = FALSE]
  /\ watched' = [watched EXCEPT ![t] = None]
  /\ told' = [told EXCEPT ![t] = Untold]

\* An active worker answers a navigation with the page it has precached, and the browser
\* checks for a newer script behind it.  Without one the page comes from the server.
Navigate(t) ==
  /\ pc[t] \in {"closed", "reload"}
  /\ Goto(t, "html")
  /\ IF active # None
     THEN /\ LeavePage(t, active, active)
          /\ updateDue' = TRUE
     ELSE /\ LeavePage(t, deployed, None)
          /\ UNCHANGED updateDue
  /\ UNCHANGED <<site, deployed, registered, installing, waiting, active, faults>>

\* The scripts of the page have its content's hash in their names: a worker of the same
\* version has them, the server has them until the next version replaces them.
HasScripts(t) == page[t] \in {controller[t], deployed}

RunScripts(t) ==
  /\ pc[t] = "html"
  /\ Goto(t, IF HasScripts(t) THEN "index" ELSE "blank")
  /\ UNCHANGED <<site, deployed, workerVars, tabVars, faults>>

Close(t) ==
  /\ pc[t] # "closed"
  /\ Goto(t, "closed")
  /\ LeavePage(t, None, None)
  /\ UNCHANGED <<site, deployed, workerVars, faults>>

-----------------------------------------------------------------------------
(* The browser: workers.  One job at a time changes a registration. *)

ScriptFound == HasWorker(deployed)

Newest == IF waiting # None THEN waiting ELSE active

\* The tabs that listen hear updatefound before they hear anything else of the worker.
StartInstall(S) ==
  /\ installing' = deployed
  /\ watched' = [t \in Tabs |-> IF t \in S THEN deployed ELSE watched[t]]

Listeners == {t \in Tabs : handler[t]}

CheckForUpdate ==
  /\ registered /\ updateDue
  /\ installing = None
  /\ updateDue' = FALSE
  /\ IF ScriptFound /\ Newest # deployed
     THEN StartInstall(Listeners)
     ELSE UNCHANGED <<installing, watched>>
  /\ UNCHANGED <<site, deployed, registered, waiting, active, pc,
                 page, servedBy, controller, handler, told, faults>>

CheckForUpdateFails ==
  /\ registered /\ updateDue
  /\ Fault
  /\ updateDue' = FALSE
  /\ UNCHANGED <<site, deployed, registered, installing, waiting, active, pc, tabVars>>

\* Mutant: onSuccess and onUpdate exchanged.
CallbackSwapped(t) == IF controller[t] # None THEN "success" ELSE "update"

\* The onstatechange handler, in the state "installed".
Callback(t) == IF controller[t] # None THEN "update" ELSE "success"

Installed ==
  /\ installing # None
  /\ waiting' = installing
  /\ installing' = None
  /\ told' = [t \in Tabs |-> IF watched[t] = installing
                             THEN [callback |-> Callback(t), version |-> installing]
                             ELSE told[t]]
  /\ UNCHANGED <<site, deployed, registered, active, updateDue, pc,
                 page, servedBy, controller, handler, watched, faults>>

\* Mutant: onstatechange without a look at the state.
InstallFailsTold ==
  /\ installing # None
  /\ Fault
  /\ installing' = None
  /\ registered' = (Newest # None)
  /\ told' = [t \in Tabs |-> IF watched[t] = installing
                             THEN [callback |-> Callback(t), version |-> installing]
                             ELSE told[t]]
  /\ UNCHANGED <<site, deployed, waiting, active, updateDue, pc,
                 page, servedBy, controller, handler, watched>>

\* A file of the precache list cannot be fetched: the worker is redundant, and so is a
\* registration without another one.
InstallFails ==
  /\ installing # None
  /\ Fault
  /\ installing' = None
  /\ registered' = (Newest # None)
  /\ UNCHANGED <<site, deployed, waiting, active, updateDue, pc, tabVars>>

InUse == active # None /\ \E t \in Tabs : controller[t] = active

\* Mutant: GenerateSW with skipWaiting.
MayActivateAtOnce == waiting # None

MayActivate == waiting # None /\ ~InUse

\* GenerateSW does not ask for skipWaiting, so a worker waits until no page uses the one
\* before it; then clientsClaim makes it the controller of every open page.
Activate ==
  /\ MayActivate
  /\ active' = waiting
  /\ waiting' = None
  /\ controller' = [t \in Tabs |-> IF page[t] # None THEN waiting ELSE None]
  /\ UNCHANGED <<site, deployed, registered, installing, updateDue, pc,
                 page, servedBy, handler, watched, told, faults>>

\* Mutant: a worker survives its registration.
UnregisterKeepsWaiting ==
  /\ installing = None
  /\ registered' = FALSE
  /\ active' = None
  /\ updateDue' = FALSE
  /\ UNCHANGED <<installing, waiting>>

\* Pages keep the controller they have until they are left.
Unregister ==
  /\ installing = None
  /\ registered' = FALSE
  /\ waiting' = None
  /\ active' = None
  /\ updateDue' = FALSE
  /\ UNCHANGED installing

-----------------------------------------------------------------------------
(* index.js and serviceWorker.js. *)

\* Mutant: the worker of a client that unregisters is left to itself.
CallOnLoadOnlyRegisters(t) ==
  /\ pc[t] = "index"
  /\ Goto(t, IF Calls(page[t]) = "register" THEN "load" ELSE "idle")
  /\ UNCHANGED <<site, deployed, workerVars, tabVars, faults>>

\* register() waits for the page's load event; unregister() acts at once.
CallOnLoad(t) ==
  /\ pc[t] = "index"
  /\ Goto(t, IF Calls(page[t]) = "register" THEN "load" ELSE "ready")
  /\ UNCHANGED <<site, deployed, workerVars, tabVars, faults>>

Load(t) ==
  /\ pc[t] = "load"
  /\ Goto(t, IF isLocalhost THEN "checkValid" ELSE "register")
  /\ UNCHANGED <<site, deployed, workerVars, tabVars, faults>>

checkValidServiceWorker(t) ==
  /\ pc[t] = "checkValid"
  /\ Goto(t, IF ScriptFound THEN "register" ELSE "readyReload")
  /\ UNCHANGED <<site, deployed, workerVars, tabVars, faults>>

\* No connection: the app runs in offline mode.
checkValidFails(t) ==
  /\ pc[t] = "checkValid"
  /\ Fault
  /\ Goto(t, "idle")
  /\ UNCHANGED <<site, deployed, workerVars, tabVars>>

\* The promise of register() resolves, onupdatefound is set, and then updatefound fires
\* if the script is new.  A script that is not there rejects the promise, which is logged.
registerValidSW(t) ==
  /\ pc[t] = "register"
  /\ installing = None
  /\ Goto(t, "idle")
  /\ IF ScriptFound
     THEN /\ registered' = TRUE
          /\ handler' = [handler EXCEPT ![t] = TRUE]
          /\ IF Newest # deployed
             THEN StartInstall(Listeners \cup {t})
             ELSE UNCHANGED <<installing, watched>>
     ELSE UNCHANGED <<registered, installing, handler, watched>>
  /\ UNCHANGED <<site, deployed, waiting, active, updateDue, page, servedBy, controller, told, faults>>

registerFails(t) ==
  /\ pc[t] = "register"
  /\ Fault
  /\ Goto(t, "idle")
  /\ UNCHANGED <<site, deployed, workerVars, tabVars>>

\* navigator.serviceWorker.ready resolves once there is an active worker, or never.
Ready == registered /\ active # None

\* Mutant: the page is reloaded without waiting for unregister().
ReadyThenReload(t) ==
  /\ pc[t] \in {"ready", "readyReload"}
  /\ Ready
  /\ Goto(t, IF pc[t] = "ready" THEN "unregister" ELSE "reload")
  /\ UNCHANGED <<site, deployed, workerVars, tabVars, faults>>

ReadyThen(t) ==
  /\ pc[t] \in {"ready", "readyReload"}
  /\ Ready
  /\ Goto(t, IF pc[t] = "ready" THEN "unregister" ELSE "unregisterReload")
  /\ UNCHANGED <<site, deployed, workerVars, tabVars, faults>>

\* Another tab may have been faster: unregister() then finds nothing, or a registration
\* that is newer than the one that was ready.
UnregisterThen(t) ==
  /\ pc[t] \in {"unregister", "unregisterReload"}
  /\ Unregister
  /\ Goto(t, IF pc[t] = "unregister" THEN "idle" ELSE "reload")
  /\ UNCHANGED <<site, deployed, tabVars, faults>>

TabStep(t) ==
  \/ pc[t] = "reload" /\ Navigate(t)
  \/ RunScripts(t)
  \/ CallOnLoad(t) \/ Load(t)
  \/ checkValidServiceWorker(t) \/ checkValidFails(t)
  \/ registerValidSW(t) \/ registerFails(t)
  \/ ReadyThen(t) \/ UnregisterThen(t)

BrowserStep ==
  \/ CheckForUpdate \/ CheckForUpdateFails
  \/ Installed \/ InstallFails
  \/ Activate

Next ==
  \/ Deploy
  \/ BrowserStep
  \/ \E t \in Tabs : (pc[t] = "closed" /\ Navigate(t)) \/ TabStep(t) \/ Close(t)

\* Pages run and the browser works on its jobs; it tries to activate a worker whenever a
\* page is left.  Nobody has to deploy, visit or leave.
Spec ==
  /\ Init
  /\ [][Next]_vars
  /\ WF_vars(BrowserStep)
  /\ SF_vars(Activate)
  /\ \A t \in Tabs : WF_vars(TabStep(t))

-----------------------------------------------------------------------------
(* Properties. *)

Workers == Versions \cup {None}

PCs == {"closed", "html", "blank", "index", "load", "checkValid", "register", "ready",
        "readyReload", "unregister", "unregisterReload", "reload", "idle"}

\* Every variable holds a value of its kind, and only a registration has workers.
TypeOK ==
  /\ site \in Sites
  /\ deployed \in Versions
  /\ registered \in BOOLEAN
  /\ installing \in Workers /\ waiting \in Workers /\ active \in Workers
  /\ updateDue \in BOOLEAN
  /\ pc \in [Tabs -> PCs]
  /\ page \in [Tabs -> Workers] /\ servedBy \in [Tabs -> Workers]
  /\ controller \in [Tabs -> Workers] /\ watched \in [Tabs -> Workers]
  /\ handler \in [Tabs -> BOOLEAN]
  /\ told \in [Tabs -> [callback : {"none", "update", "success"}, version : Workers]]
  /\ faults \in 0..MaxFaults
  /\ ~registered => installing = None /\ waiting = None /\ active = None

NobodyUnregisters == ~isLocalhost /\ \A v \in Versions : Calls(v) = "register"

\* What a page was told when it ran onUpdate: the new version waits until all tabs of the
\* page are closed, so the worker of that version is not the active one while this page
\* is still open, whatever other tabs load, close and register meanwhile.
UpdateWaits ==
  NobodyUnregisters =>
    \A t \in Tabs : told[t].callback = "update" => active # told[t].version

\* What a page was told when it ran onSuccess: its content is cached, so that a worker
\* has it, waiting or active, as long as this page is open, if no version unregisters.
SuccessIsCached ==
  NobodyUnregisters =>
    \A t \in Tabs : told[t].callback = "success" => Newest # None

\* A page that a worker has served finds its scripts, though the server may have replaced
\* them: no newer worker takes the page over before it has loaded, as it could if another
\* tab unregistered the page's own worker.
CachedPageWhole ==
  NobodyUnregisters => \A t \in Tabs : pc[t] = "blank" => servedBy[t] = None

Settled(t) ==
  \/ pc[t] \in {"closed", "blank", "idle"}
  \/ pc[t] \in {"ready", "readyReload"} /\ ~Ready

\* A visit comes to rest.  On localhost a page that finds no worker script unregisters
\* and reloads: it does not reload for ever, even if several tabs do so at once.
EveryPageSettles ==
  \A t \in Tabs : pc[t] = "html" ~> Settled(t)

AllClosed == \A t \in Tabs : pc[t] = "closed"

\* Once the deployed client calls unregister(), the worker of an older version that called
\* register() goes away for good, although its cached pages still register it: provided
\* that people go on visiting, let a page settle, and sometimes close all of its tabs.
WorkerGoesAway ==
  Calls(LastVersion) = "unregister" =>
    ([]<>AllClosed /\ []<>(deployed = LastVersion /\ \E t \in Tabs : pc[t] # "closed" /\ Settled(t))
       => <>[]~registered)

\* Newer workers stand behind older ones, and none is newer than what is deployed.
WorkersInOrder ==
  /\ waiting # None => active < waiting
  /\ installing # None => active < installing /\ waiting < installing
  /\ active <= deployed /\ waiting <= deployed /\ installing <= deployed

\* A page that cannot unregister its worker has the active one or none, and one that a worker
\* has served keeps that worker: the page itself is what makes the next worker wait.
PageInv(t) ==
  /\ pc[t] \in {"closed", "html", "blank", "index", "load", "register", "idle"}
  /\ pc[t] # "closed" => page[t] # None
  /\ controller[t] \in {None, active}
  /\ servedBy[t] # None => page[t] = servedBy[t] /\ controller[t] = servedBy[t]
  /\ pc[t] = "blank" => servedBy[t] = None
  /\ told[t].callback = "update" => controller[t] # None /\ active < told[t].version
  /\ told[t].callback = "success" => Newest # None

WorkerInv ==
  /\ TypeOK
  /\ WorkersInOrder
  /\ NobodyUnregisters => \A t \in Tabs : PageInv(t)

=============================================================================
