-------------------------- MODULE MCServiceWorker --------------------------
(***************************************************************************)
(* Deployments for ServiceWorker: clients that register a worker, a worker *)
(* that is taken away and comes back, and a client that unregisters.       *)
(***************************************************************************)
EXTENDS ServiceWorker

Site(calls, has, localhost) ==
  [calls |-> calls, hasWorker |-> has, isLocalhost |-> localhost]

AllRegister == [v \in Versions |-> "register"]
LastUnregisters == [v \in Versions |-> IF v = LastVersion THEN "unregister" ELSE "register"]

AlwaysWorker == [v \in Versions |-> TRUE]
WorkerLeaves == [v \in Versions |-> v # 2]

MCSites == {Site(AllRegister, AlwaysWorker, FALSE), Site(AllRegister, WorkerLeaves, TRUE),
            Site(LastUnregisters, AlwaysWorker, FALSE)}

=============================================================================
