-------------------------- MODULE ServiceWorkerProofs --------------------------
(***************************************************************************)
(* What a page is told about its service worker stays true, for any number *)
(* of tabs, versions and faults, and for every site.                       *)
(*                                                                         *)
(* The invariant is WorkerInv.  Its PageInv holds on sites whose versions  *)
(* all call register(): there a page that a worker controls keeps that     *)
(* worker active, since no page takes it away and Activate waits for it.   *)
(***************************************************************************)
EXTENDS ServiceWorker, TLAPS

LEMMA VersionFacts ==
  /\ LastVersion \in Nat \ {0} /\ MaxFaults \in Nat
  /\ None \in Workers /\ None \notin Versions /\ Versions \subseteq Workers
  /\ 1 \in Versions
  /\ \A v \in Versions : v < LastVersion => v + 1 \in Versions
BY VersionAssumption DEF Versions, Workers, None

LEMMA TypeInit == Init => TypeOK
<1> SUFFICES ASSUME Init
             PROVE  TypeOK
  OBVIOUS
<1>1. /\ pc \in [Tabs -> PCs] /\ handler \in [Tabs -> BOOLEAN]
      /\ told \in [Tabs -> [callback : {"none", "update", "success"}, version : Workers]]
  BY VersionFacts DEF Init, Untold, PCs
<1>2. faults \in 0..MaxFaults
  BY VersionFacts DEF Init
<1> QED
  BY <1>1, <1>2, VersionFacts DEF Init, TypeOK

LEMMA TypeNext ==
  ASSUME TypeOK, [Next]_vars
  PROVE  TypeOK'
<1> USE VersionFacts DEF TypeOK, PCs
<1>1. CASE Deploy
  BY <1>1 DEF Deploy, workerVars, tabVars
<1>2. CASE CheckForUpdate
  <2>1. installing' \in Workers /\ watched' \in [Tabs -> Workers]
    BY <1>2 DEF CheckForUpdate, StartInstall
  <2>2. /\ UNCHANGED <<site, deployed, registered, waiting, active, pc, page, servedBy,
                       controller, handler, told, faults>>
        /\ updateDue' = FALSE /\ registered
    BY <1>2 DEF CheckForUpdate
  <2> QED
    BY <2>1, <2>2
<1>3. CASE Installed
  <2>1. \A t \in Tabs : Callback(t) \in {"none", "update", "success"}
    BY DEF Callback
  <2>2. told' \in [Tabs -> [callback : {"none", "update", "success"}, version : Workers]]
    BY <1>3, <2>1 DEF Installed
  <2>3. /\ UNCHANGED <<site, deployed, registered, active, updateDue, pc, page, servedBy,
                       controller, handler, watched, faults>>
        /\ installing # None /\ waiting' = installing /\ installing' = None
    BY <1>3 DEF Installed
  <2> QED
    BY <2>2, <2>3
<1>4. CASE CheckForUpdateFails
  <2>1. faults' \in 0..MaxFaults
    BY <1>4 DEF CheckForUpdateFails, Fault
  <2> QED
    BY <1>4, <2>1 DEF CheckForUpdateFails, tabVars
<1>5. CASE InstallFails
  <2>1. faults' \in 0..MaxFaults
    BY <1>5 DEF InstallFails, Fault
  <2>2. ~registered' => waiting = None /\ active = None
    BY <1>5 DEF InstallFails, Newest
  <2>3. /\ UNCHANGED <<site, deployed, waiting, active, updateDue, pc, tabVars>>
        /\ installing' = None /\ registered' \in BOOLEAN
    BY <1>5 DEF InstallFails
  <2> QED
    BY <2>1, <2>2, <2>3 DEF tabVars
<1>6. CASE Activate
  BY <1>6 DEF Activate, MayActivate
<1>7. ASSUME NEW t \in Tabs, Navigate(t) \/ Close(t)
      PROVE  TypeOK'
  <2>1. PICK v \in Workers, w \in Workers : LeavePage(t, v, w)
    BY <1>7 DEF Navigate, Close
  <2>2. Untold \in [callback : {"none", "update", "success"}, version : Workers]
    BY DEF Untold
  <2>3. /\ page' \in [Tabs -> Workers] /\ servedBy' \in [Tabs -> Workers]
        /\ controller' \in [Tabs -> Workers] /\ watched' \in [Tabs -> Workers]
        /\ handler' \in [Tabs -> BOOLEAN]
        /\ told' \in [Tabs -> [callback : {"none", "update", "success"}, version : Workers]]
    BY <2>1, <2>2 DEF LeavePage
  <2>4. pc' \in [Tabs -> PCs]
    BY <1>7 DEF Navigate, Close, Goto
  <2>5. /\ UNCHANGED <<site, deployed, registered, installing, waiting, active, faults>>
        /\ updateDue' \in BOOLEAN
    BY <1>7 DEF Navigate, Close, workerVars
  <2> QED
    BY <2>3, <2>4, <2>5
<1>8. ASSUME NEW t \in Tabs, RunScripts(t) \/ CallOnLoad(t) \/ Load(t)
      PROVE  TypeOK'
  BY <1>8 DEF RunScripts, CallOnLoad, Load, Goto, workerVars, tabVars
<1>9. ASSUME NEW t \in Tabs, checkValidServiceWorker(t) \/ checkValidFails(t) \/ registerFails(t)
      PROVE  TypeOK'
  BY <1>9 DEF checkValidServiceWorker, checkValidFails, registerFails, Goto, Fault,
              workerVars, tabVars
<1>10. ASSUME NEW t \in Tabs, registerValidSW(t)
      PROVE  TypeOK'
  BY <1>10 DEF registerValidSW, StartInstall, Goto
<1>11. ASSUME NEW t \in Tabs, ReadyThen(t) \/ UnregisterThen(t)
      PROVE  TypeOK'
  BY <1>11 DEF ReadyThen, UnregisterThen, Unregister, Goto, workerVars, tabVars
<1>12. CASE UNCHANGED vars
  BY <1>12 DEF vars, workerVars, tabVars
<1> QED
  BY <1>1, <1>2, <1>3, <1>4, <1>5, <1>6, <1>7, <1>8, <1>9, <1>10, <1>11, <1>12
  DEF Next, BrowserStep, TabStep

LEMMA OrderNext ==
  ASSUME TypeOK, WorkersInOrder, [Next]_vars
  PROVE  WorkersInOrder'
<1> USE VersionAssumption DEF WorkersInOrder, Versions, None
<1>0. /\ deployed \in 1..LastVersion
      /\ installing \in Nat /\ waiting \in Nat /\ active \in Nat
  BY DEF TypeOK, Workers
<1>1. CASE UNCHANGED <<installing, waiting, active>> /\ deployed' \in {deployed, deployed + 1}
  BY <1>0, <1>1
<1>2. CASE CheckForUpdate
  BY <1>0, <1>2 DEF CheckForUpdate, StartInstall, Newest
<1>3. CASE Installed \/ InstallFails
  BY <1>0, <1>3 DEF Installed, InstallFails
<1>4. CASE Activate
  BY <1>0, <1>4 DEF Activate, MayActivate
<1>5. ASSUME NEW t \in Tabs, registerValidSW(t)
      PROVE  WorkersInOrder'
  BY <1>0, <1>5 DEF registerValidSW, StartInstall, Newest
<1>6. ASSUME NEW t \in Tabs, UnregisterThen(t)
      PROVE  WorkersInOrder'
  BY <1>0, <1>6 DEF UnregisterThen, Unregister
<1>7. ASSUME NEW t \in Tabs,
             \/ Navigate(t) \/ Close(t) \/ RunScripts(t) \/ CallOnLoad(t) \/ Load(t)
             \/ checkValidServiceWorker(t) \/ checkValidFails(t) \/ registerFails(t)
             \/ ReadyThen(t)
      PROVE  UNCHANGED <<installing, waiting, active, deployed>>
  BY <1>7 DEF Navigate, Close, RunScripts, CallOnLoad, Load, checkValidServiceWorker,
              checkValidFails, registerFails, ReadyThen, workerVars
<1>8. CASE Deploy \/ CheckForUpdateFails
  BY <1>0, <1>1, <1>8 DEF Deploy, CheckForUpdateFails, workerVars
<1>9. CASE UNCHANGED vars
  BY <1>1, <1>9 DEF vars, workerVars
<1> QED
  BY <1>1, <1>2, <1>3, <1>4, <1>5, <1>6, <1>7, <1>8, <1>9 DEF Next, BrowserStep, TabStep

-----------------------------------------------------------------------------
(* Sites whose versions all call register(). *)

SameTab(t) ==
  /\ pc'[t] = pc[t] /\ page'[t] = page[t] /\ servedBy'[t] = servedBy[t]
  /\ controller'[t] = controller[t] /\ told'[t] = told[t]

\* A tab that does nothing keeps what it knows while the workers stay.
LEMMA SameTabInv ==
  ASSUME NEW t \in Tabs, PageInv(t), SameTab(t), UNCHANGED <<waiting, active>>
  PROVE  PageInv(t)'
BY DEF PageInv, SameTab, Newest

\* A tab whose code runs is at another line, and the rest stays.
LEMMA CodeInv ==
  ASSUME NEW t \in Tabs, PageInv(t),
         UNCHANGED <<waiting, active>>,
         page'[t] = page[t], servedBy'[t] = servedBy[t], controller'[t] = controller[t],
         told'[t] = told[t],
         pc[t] # "closed", pc'[t] \in {"index", "load", "register", "idle"}
  PROVE  PageInv(t)'
BY DEF PageInv, Newest

LEMMA OtherTabs ==
  ASSUME TypeOK, NEW t \in Tabs, TabStep(t) \/ Navigate(t) \/ Close(t),
         NEW s \in Tabs \ {t}
  PROVE  SameTab(s)
<1> USE DEF TypeOK, SameTab, Goto
<1>1. ASSUME Navigate(t) \/ Close(t)
      PROVE  SameTab(s)
  BY <1>1 DEF Navigate, Close, LeavePage
<1>2. ASSUME \/ RunScripts(t) \/ CallOnLoad(t) \/ Load(t)
             \/ checkValidServiceWorker(t) \/ checkValidFails(t) \/ registerFails(t)
             \/ registerValidSW(t) \/ ReadyThen(t) \/ UnregisterThen(t)
      PROVE  SameTab(s)
  BY <1>2 DEF RunScripts, CallOnLoad, Load, checkValidServiceWorker, checkValidFails,
              registerFails, registerValidSW, ReadyThen, UnregisterThen, tabVars
<1> QED
  BY <1>1, <1>2 DEF TabStep

LEMMA PageNext ==
  ASSUME WorkerInv, NobodyUnregisters, [Next]_vars, NEW s \in Tabs
  PROVE  PageInv(s)'
<1>1. TypeOK /\ WorkersInOrder /\ PageInv(s) /\ \A t \in Tabs : PageInv(t)
  BY DEF WorkerInv
<1>2. /\ deployed \in 1..LastVersion /\ LastVersion \in Nat
      /\ installing \in Nat /\ waiting \in Nat /\ active \in Nat
  BY <1>1, VersionAssumption DEF TypeOK, Versions, Workers, None
<1>3. ASSUME NEW t \in Tabs, Navigate(t) \/ Close(t)
      PROVE  PageInv(s)'
  <2>1. UNCHANGED <<waiting, active>>
    BY <1>3 DEF Navigate, Close, workerVars
  <2>2. CASE s # t
    BY <1>1, <1>3, <2>1, <2>2, OtherTabs, SameTabInv
  <2>3. CASE s = t
    BY <1>1, <1>2, <1>3, <2>1, <2>3
    DEF Navigate, Close, LeavePage, Goto, Untold, PageInv, TypeOK, None
  <2> QED
    BY <2>2, <2>3
<1>4. ASSUME NEW t \in Tabs, TabStep(t), ~Navigate(t)
      PROVE  PageInv(s)'
  <2>1. PageInv(t) /\ pc \in [Tabs -> PCs] /\ page \in [Tabs -> Workers]
    BY <1>1 DEF TypeOK
  <2>2. ~ReadyThen(t) /\ ~UnregisterThen(t) /\ ~checkValidServiceWorker(t) /\ ~checkValidFails(t)
    BY <2>1 DEF PageInv, ReadyThen, UnregisterThen, checkValidServiceWorker, checkValidFails
  <2>3. \/ RunScripts(t) \/ CallOnLoad(t) \/ Load(t) \/ registerFails(t) \/ registerValidSW(t)
    BY <1>4, <2>2 DEF TabStep
  <2>4. UNCHANGED <<waiting, active, page, servedBy, controller, told>>
    BY <2>3 DEF RunScripts, CallOnLoad, Load, registerFails, registerValidSW, workerVars, tabVars
  <2>5. CASE s # t
    BY <1>1, <1>4, <2>4, <2>5, OtherTabs, SameTabInv
  <2>6. CASE s = t
    <3>1. ASSUME RunScripts(t), ~HasScripts(t)
          PROVE  PageInv(t)'
      <4>1. servedBy[t] = None
        BY <2>1, <3>1 DEF PageInv, HasScripts
      <4> QED
        BY <2>1, <2>4, <3>1, <4>1 DEF PageInv, RunScripts, Goto, Newest
    <3>2. ASSUME ~(RunScripts(t) /\ ~HasScripts(t))
          PROVE  pc[t] # "closed" /\ pc'[t] \in {"index", "load", "register", "idle"}
      <4>1. pc[t] = "index" => Calls(page[t]) = "register"
        BY <2>1 DEF PageInv, NobodyUnregisters, Workers
      <4> QED
        BY <2>1, <2>3, <3>2, <4>1
        DEF RunScripts, CallOnLoad, Load, registerFails, registerValidSW, Goto, NobodyUnregisters
    <3> QED
      BY <2>1, <2>4, <2>6, <3>1, <3>2, CodeInv
  <2> QED
    BY <2>5, <2>6
<1>5. CASE Deploy \/ CheckForUpdate \/ CheckForUpdateFails \/ InstallFails \/ UNCHANGED vars
  <2>1. UNCHANGED <<waiting, active>> /\ SameTab(s)
    BY <1>5 DEF Deploy, CheckForUpdate, CheckForUpdateFails, InstallFails, vars, workerVars,
                tabVars, SameTab
  <2> QED
    BY <1>1, <2>1, SameTabInv
<1>6. CASE Installed
  <2>1. /\ UNCHANGED <<active, pc, page, servedBy, controller>>
        /\ installing # None /\ waiting' = installing /\ active < installing
    BY <1>1, <1>6 DEF Installed, WorkersInOrder
  <2>2. Newest' # None
    BY <2>1 DEF Newest
  <2>3. CASE watched[s] = installing
    <3>1. told'[s] = [callback |-> Callback(s), version |-> installing]
      BY <1>6, <2>3 DEF Installed
    <3> QED
      BY <1>1, <2>1, <2>2, <3>1 DEF PageInv, Callback
  <2>4. CASE watched[s] # installing
    <3>1. told'[s] = told[s]
      BY <1>6, <2>4 DEF Installed
    <3> QED
      BY <1>1, <2>1, <2>2, <3>1 DEF PageInv
  <2> QED
    BY <2>3, <2>4
<1>7. CASE Activate
  <2>1. /\ waiting # None /\ ~InUse
        /\ active' = waiting /\ UNCHANGED <<pc, page, servedBy, told>>
        /\ controller'[s] \in {waiting, None}
    BY <1>7 DEF Activate, MayActivate
  <2>2. controller[s] = None
    BY <1>1, <2>1 DEF InUse, PageInv
  <2>3. servedBy[s] = None /\ told[s].callback # "update"
    BY <1>1, <2>2 DEF PageInv
  <2>4. Newest' # None
    BY <2>1 DEF Newest
  <2> QED
    BY <1>1, <2>1, <2>3, <2>4 DEF PageInv
<1> QED
  BY <1>3, <1>4, <1>5, <1>6, <1>7 DEF Next, BrowserStep

\* The inductive invariant, for any number of tabs, versions and faults.
THEOREM WorkerInvariant == Spec => []WorkerInv
<1>1. Init => WorkerInv
  <2>1. Init => WorkersInOrder
    BY DEF Init, WorkersInOrder, None
  <2>2. Init => \A t \in Tabs : PageInv(t)
    <3> SUFFICES ASSUME Init, NEW t \in Tabs
                 PROVE  PageInv(t)
      OBVIOUS
    <3>1. /\ pc[t] = "closed" /\ controller[t] = None /\ servedBy[t] = None
          /\ told[t] = Untold
      BY DEF Init
    <3> QED
      BY <3>1 DEF PageInv, Untold
  <2> QED
    BY <2>1, <2>2, TypeInit DEF WorkerInv
<1>2. WorkerInv /\ [Next]_vars => WorkerInv'
  <2> SUFFICES ASSUME WorkerInv, [Next]_vars
               PROVE  WorkerInv'
    OBVIOUS
  <2>1. TypeOK' /\ WorkersInOrder'
    BY TypeNext, OrderNext DEF WorkerInv
  <2>2. site' = site
    BY DEF Next, vars, Deploy, BrowserStep, CheckForUpdate, CheckForUpdateFails, Installed,
           InstallFails, Activate, Navigate, Close, TabStep, RunScripts, CallOnLoad, Load,
           checkValidServiceWorker, checkValidFails, registerFails, registerValidSW,
           ReadyThen, UnregisterThen
  <2>3. NobodyUnregisters' <=> NobodyUnregisters
    BY <2>2 DEF NobodyUnregisters, Calls, isLocalhost
  <2> QED
    BY <2>1, <2>3, PageNext DEF WorkerInv
<1> QED
  BY <1>1, <1>2, PTL DEF Spec

\* Type correctness, and that only a registration has workers.
THEOREM WorkerTypes == Spec => []TypeOK
<1>1. WorkerInv => TypeOK
  BY DEF WorkerInv
<1> QED
  BY <1>1, WorkerInvariant, PTL

\* The version of which a page has been told that it waits is not the active one as long as
\* that page is open.
THEOREM WorkerUpdateWaits == Spec => []UpdateWaits
<1>1. WorkerInv => UpdateWaits
  <2> SUFFICES ASSUME WorkerInv, NobodyUnregisters, NEW t \in Tabs, told[t].callback = "update"
               PROVE  active # told[t].version
    BY DEF UpdateWaits
  <2>1. active < told[t].version /\ active \in Int
    BY VersionAssumption DEF WorkerInv, PageInv, TypeOK, Versions, Workers, None
  <2> QED
    BY <2>1
<1> QED
  BY <1>1, WorkerInvariant, PTL

\* A page that has been told that its content is cached has a worker that keeps it.
THEOREM WorkerSuccessIsCached == Spec => []SuccessIsCached
<1>1. WorkerInv => SuccessIsCached
  BY DEF WorkerInv, PageInv, SuccessIsCached
<1> QED
  BY <1>1, WorkerInvariant, PTL

\* A page that came from a worker finds its scripts.
THEOREM WorkerCachedPageWhole == Spec => []CachedPageWhole
<1>1. WorkerInv => CachedPageWhole
  BY DEF WorkerInv, PageInv, CachedPageWhole
<1> QED
  BY <1>1, WorkerInvariant, PTL

=============================================================================
