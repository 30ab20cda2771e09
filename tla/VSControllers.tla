---------------------------- MODULE VSControllers ----------------------------
(***************************************************************************)
(* The two controllers that keep each Service's VirtualService               *)
(* (controllers/service_controller.go, controllers/vsconfig_controller.go)  *)
(* and the updater they share (domain/updater/virtualservice.go).           *)
(*                                                                         *)
(* Each controller has its own work queue and one worker.  The Service     *)
(* controller updates the Service of its key and ignores a missing one.    *)
(* The VSConfig controller updates the Service named by the VSConfig's     *)
(* current host, and on NotFound runs UpdateAll: List the Services, then   *)
(* Update each, stopping at the first error.  An Update Gets the Service,  *)
(* builds the desired VirtualService (VirtualServiceLister) from the       *)
(* VSConfigs it lists and refreshes it.  The Refresh is one step here: the *)
(* Refresher module checks its inner steps.  Nothing watches the           *)
(* VirtualServices; owner-reference garbage collection removes the one of  *)
(* a deleted Service.                                                      *)
(***************************************************************************)
EXTENDS Naturals, FiniteSets, SequencesExt

CONSTANTS
    ConfigNames, Hosts, HeaderNames, HeaderValues, Targets, Empty,
    InitConfigs,        \* the VSConfigs at start
    AtRest,             \* start from the state the controllers leave: every
                        \* VirtualService built, both queues drained
    ConfigVersions,     \* the VSConfigs users may write: a set of <<name, spec>>
    Resyncs,            \* the informers' periodic resync is on
    MaxChanges,         \* user writes and deletes
    MaxFailures,        \* failed Refresh calls
    MaxCrashes,         \* process restarts
    None                \* no key or Service yet

VARIABLES
    services,   \* the Services that exist
    vsconfigs,  \* name -> VSConfig spec
    vs,         \* the VirtualService store: Service -> <<>> or <<VirtualService>>
    queue,      \* controller -> the keys in its work queue
    pc,         \* controller -> the step its worker is at
    key,        \* controller -> the key being reconciled
    tgt,        \* controller -> the Service the current Update is for
    pend,       \* controller -> the listed Services UpdateAll has yet to update
    all,        \* controller -> the Update is one of UpdateAll's
    snap,       \* controller -> the VirtualService list Build produced
    changes, failures, crashes

vars == <<services, vsconfigs, vs, queue, pc, key, tgt, pend, all, snap,
          changes, failures, crashes>>

Controllers == {"svc", "vsc"}

VSL == INSTANCE VirtualServiceLister

\* Build and GenerateLists for Service h from the VSConfigs as they are now
\* (the order of the List does not matter: RoutesFollowSpec)
Desired(h) == VSL!Desired(SetToSeq(DOMAIN vsconfigs), h)

(***************************************************************************)
(* One worker.                                                             *)
(***************************************************************************)

\* the reconcile returns an error: the key goes back to the queue
Fail(c) ==
    /\ queue' = [queue EXCEPT ![c] = @ \cup {key[c]}]
    /\ pc' = [pc EXCEPT ![c] = "idle"]

\* the reconcile returns nil
Done(c) ==
    /\ pc' = [pc EXCEPT ![c] = "idle"]
    /\ UNCHANGED queue

\* processNextWorkItem: take a key no worker of c is processing
Start(c, k) ==
    /\ pc[c] = "idle"
    /\ k \in queue[c]
    /\ queue' = [queue EXCEPT ![c] = @ \ {k}]
    /\ key' = [key EXCEPT ![c] = k]
    /\ all' = [all EXCEPT ![c] = FALSE]
    /\ pc' = [pc EXCEPT ![c] = "get"]
    /\ UNCHANGED <<services, vsconfigs, vs, tgt, pend, snap, changes, failures, crashes>>

\* mutant: the NotFound test inverted
ServiceGetIgnoringFound ==
    /\ pc["svc"] = "get"
    /\ \/ /\ key["svc"] \in services
          /\ Done("svc")
          /\ UNCHANGED tgt
       \/ /\ key["svc"] \notin services
          /\ tgt' = [tgt EXCEPT !["svc"] = key["svc"]]
          /\ pc' = [pc EXCEPT !["svc"] = "uget"]
          /\ UNCHANGED queue
    /\ UNCHANGED <<services, vsconfigs, vs, key, pend, all, snap, changes, failures, crashes>>

\* ServiceReconciler.Reconcile: Get the Service, ignore NotFound, Update it
ServiceGet ==
    /\ pc["svc"] = "get"
    /\ \/ /\ key["svc"] \notin services
          /\ Done("svc")
          /\ UNCHANGED tgt
       \/ /\ key["svc"] \in services
          /\ tgt' = [tgt EXCEPT !["svc"] = key["svc"]]
          /\ pc' = [pc EXCEPT !["svc"] = "uget"]
          /\ UNCHANGED queue
    /\ UNCHANGED <<services, vsconfigs, vs, key, pend, all, snap, changes, failures, crashes>>

\* mutant: the Update is for the VSConfig's own name, not its Spec.Host
ConfigGetByName ==
    /\ pc["vsc"] = "get"
    /\ \/ /\ key["vsc"] \notin DOMAIN vsconfigs
          /\ pc' = [pc EXCEPT !["vsc"] = "list"]
          /\ UNCHANGED <<tgt, all>>
       \/ /\ key["vsc"] \in DOMAIN vsconfigs
          /\ tgt' = [tgt EXCEPT !["vsc"] = key["vsc"]]
          /\ pc' = [pc EXCEPT !["vsc"] = "uget"]
          /\ UNCHANGED all
    /\ UNCHANGED <<services, vsconfigs, vs, queue, key, pend, snap, changes, failures, crashes>>

\* VSConfigReconciler.Reconcile: Get the VSConfig; on NotFound UpdateAll of
\* the namespace, else Update of the Service named by Spec.Host
ConfigGet ==
    /\ pc["vsc"] = "get"
    /\ \/ /\ key["vsc"] \notin DOMAIN vsconfigs
          /\ pc' = [pc EXCEPT !["vsc"] = "list"]
          /\ UNCHANGED <<tgt, all>>
       \/ /\ key["vsc"] \in DOMAIN vsconfigs
          /\ tgt' = [tgt EXCEPT !["vsc"] = vsconfigs[key["vsc"]].host]
          /\ pc' = [pc EXCEPT !["vsc"] = "uget"]
          /\ UNCHANGED all
    /\ UNCHANGED <<services, vsconfigs, vs, queue, key, pend, snap, changes, failures, crashes>>

\* UpdateAll: List the Services
ListServices ==
    /\ pc["vsc"] = "list"
    /\ pend' = [pend EXCEPT !["vsc"] = services]
    /\ all' = [all EXCEPT !["vsc"] = TRUE]
    /\ pc' = [pc EXCEPT !["vsc"] = "next"]
    /\ UNCHANGED <<services, vsconfigs, vs, queue, key, tgt, snap, changes, failures, crashes>>

\* UpdateAll: the loop over the listed Services
NextService ==
    /\ pc["vsc"] = "next"
    /\ \/ /\ pend["vsc"] = {}
          /\ Done("vsc")
          /\ UNCHANGED <<tgt, pend>>
       \/ /\ pend["vsc"] # {}
          /\ LET h == CHOOSE h \in pend["vsc"] : TRUE
             IN  /\ tgt' = [tgt EXCEPT !["vsc"] = h]
                 /\ pend' = [pend EXCEPT !["vsc"] = @ \ {h}]
          /\ pc' = [pc EXCEPT !["vsc"] = "uget"]
          /\ UNCHANGED queue
    /\ UNCHANGED <<services, vsconfigs, vs, key, all, snap, changes, failures, crashes>>

\* virtualServiceUpdater.Update: Get the Service, an error when it is missing
UpdateGet(c) ==
    /\ pc[c] = "uget"
    /\ \/ tgt[c] \notin services /\ Fail(c)
       \/ tgt[c] \in services /\ pc' = [pc EXCEPT ![c] = "build"] /\ UNCHANGED queue
    /\ UNCHANGED <<services, vsconfigs, vs, key, tgt, pend, all, snap, changes, failures, crashes>>

\* builder.Build (List the VSConfigs, Get the Service) and GenerateLists
Build(c) ==
    /\ pc[c] = "build"
    /\ \/ tgt[c] \notin services /\ Fail(c) /\ UNCHANGED snap
       \/ /\ tgt[c] \in services
          /\ snap' = [snap EXCEPT ![c] = Desired(tgt[c])]
          /\ pc' = [pc EXCEPT ![c] = "refresh"]
          /\ UNCHANGED queue
    /\ UNCHANGED <<services, vsconfigs, vs, key, tgt, pend, all, changes, failures, crashes>>

\* Refresh of the Service's VirtualServices with the built list; then the
\* reconcile returns, or UpdateAll goes on with the next Service
Refresh(c) ==
    /\ pc[c] = "refresh"
    /\ \/ /\ failures < MaxFailures
          /\ failures' = failures + 1
          /\ Fail(c)
          /\ UNCHANGED vs
       \/ /\ vs' = [vs EXCEPT ![tgt[c]] = snap[c]]
          /\ IF all[c] THEN pc' = [pc EXCEPT ![c] = "next"] /\ UNCHANGED queue
                       ELSE Done(c)
          /\ UNCHANGED failures
    /\ UNCHANGED <<services, vsconfigs, key, tgt, pend, all, snap, changes, crashes>>

Worker(c) ==
    \/ \E k \in queue[c] : Start(c, k)
    \/ UpdateGet(c) \/ Build(c) \/ Refresh(c)

(***************************************************************************)
(* Users, the informers, the garbage collector and restarts.               *)
(***************************************************************************)

WriteConfig(n, spec) ==
    /\ changes < MaxChanges
    /\ ~(n \in DOMAIN vsconfigs /\ vsconfigs[n] = spec)
    /\ vsconfigs' = (n :> spec) @@ vsconfigs
    /\ queue' = [queue EXCEPT !["vsc"] = @ \cup {n}]
    /\ changes' = changes + 1
    /\ UNCHANGED <<services, vs, pc, key, tgt, pend, all, snap, failures, crashes>>

DeleteConfig(n) ==
    /\ changes < MaxChanges
    /\ n \in DOMAIN vsconfigs
    /\ vsconfigs' = [j \in DOMAIN vsconfigs \ {n} |-> vsconfigs[j]]
    /\ queue' = [queue EXCEPT !["vsc"] = @ \cup {n}]
    /\ changes' = changes + 1
    /\ UNCHANGED <<services, vs, pc, key, tgt, pend, all, snap, failures, crashes>>

\* a Service is created or deleted
ToggleService(h) ==
    /\ changes < MaxChanges
    /\ services' = IF h \in services THEN services \ {h} ELSE services \cup {h}
    /\ queue' = [queue EXCEPT !["svc"] = @ \cup {h}]
    /\ changes' = changes + 1
    /\ UNCHANGED <<vsconfigs, vs, pc, key, tgt, pend, all, snap, failures, crashes>>

\* the informers' resync: an update event for every object of the kind
Resync(c) ==
    /\ Resyncs
    /\ queue' = [queue EXCEPT ![c] = @ \cup (IF c = "svc" THEN services ELSE DOMAIN vsconfigs)]
    /\ UNCHANGED <<services, vsconfigs, vs, pc, key, tgt, pend, all, snap, changes, failures, crashes>>

\* owner-reference garbage collection of the VirtualService of a deleted Service
CollectGarbage(h) ==
    /\ h \notin services
    /\ vs[h] # <<>>
    /\ vs' = [vs EXCEPT ![h] = <<>>]
    /\ UNCHANGED <<services, vsconfigs, queue, pc, key, tgt, pend, all, snap, changes, failures, crashes>>

\* the process starts: every object of each kind is enqueued once
Started ==
    /\ queue' = [c \in Controllers |-> IF c = "svc" THEN services ELSE DOMAIN vsconfigs]
    /\ pc' = [c \in Controllers |-> "idle"]

Crash ==
    /\ crashes < MaxCrashes
    /\ crashes' = crashes + 1
    /\ Started
    /\ UNCHANGED <<services, vsconfigs, vs, key, tgt, pend, all, snap, changes, failures>>

Init ==
    /\ services = Hosts
    /\ vsconfigs = InitConfigs
    /\ vs = [h \in Hosts |-> IF AtRest THEN Desired(h) ELSE <<>>]
    /\ queue = [c \in Controllers |->
                  IF AtRest THEN {} ELSE IF c = "svc" THEN services ELSE DOMAIN vsconfigs]
    /\ pc = [c \in Controllers |-> "idle"]
    /\ key = [c \in Controllers |-> None]
    /\ tgt = [c \in Controllers |-> None]
    /\ pend = [c \in Controllers |-> {}]
    /\ all = [c \in Controllers |-> FALSE]
    /\ snap = [c \in Controllers |-> <<>>]
    /\ changes = 0 /\ failures = 0 /\ crashes = 0

Next ==
    \/ \E c \in Controllers : Worker(c) \/ Resync(c)
    \/ ServiceGet \/ ConfigGet \/ ListServices \/ NextService
    \/ \E v \in ConfigVersions : WriteConfig(v[1], v[2])
    \/ \E n \in DOMAIN vsconfigs : DeleteConfig(n)
    \/ \E h \in Hosts : ToggleService(h) \/ CollectGarbage(h)
    \/ Crash

\* Each worker runs its reconcile to the end; a queued key is taken in FIFO
\* order, so strongly fairly; the resync timer and the garbage collector
\* keep running.  Users, failures and restarts are not fair.
Fairness ==
    /\ \A c \in Controllers :
          /\ WF_vars(UpdateGet(c)) /\ WF_vars(Build(c)) /\ WF_vars(Refresh(c))
          /\ \A k \in IF c = "svc" THEN Hosts ELSE ConfigNames : SF_vars(Start(c, k))
          /\ WF_vars(Resync(c))
    /\ WF_vars(ServiceGet) /\ WF_vars(ConfigGet)
    /\ WF_vars(ListServices) /\ WF_vars(NextService)
    /\ \A h \in Hosts : WF_vars(CollectGarbage(h))

Spec == Init /\ [][Next]_vars

LiveSpec == Spec /\ Fairness

(***************************************************************************)
(* Properties.                                                             *)
(***************************************************************************)

\* The state has its type; a worker past its Get always works on a Service
\* name, and the store holds at most one VirtualService per Service.
TypeOK ==
    /\ services \subseteq Hosts
    /\ DOMAIN vsconfigs \subseteq ConfigNames
    /\ \A h \in Hosts : vs[h] \in Seq(VSL!VirtualService) /\ Len(vs[h]) <= 1
    /\ \A c \in Controllers :
          /\ pc[c] \in {"idle", "get", "list", "next", "uget", "build", "refresh"}
          /\ pc[c] \in {"uget", "build", "refresh"} => tgt[c] \in Hosts
          /\ pend[c] \subseteq Hosts

\* Every existing Service has the VirtualService its VSConfigs call for
\* (spec 4.5), and a deleted one has none.
Synced ==
    \A h \in Hosts : vs[h] = IF h \in services THEN Desired(h) ELSE <<>>

\* After the last user change, the Service and VSConfig controllers, with
\* the requeue on error and the resync, bring every VirtualService to what
\* its VSConfigs call for and keep it there.
Converges == <>[]Synced

====
