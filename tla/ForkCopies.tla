------------------------------ MODULE ForkCopies ------------------------------
(***************************************************************************)
(* The Fork reconcile with the microservice Update that ends it            *)
(* (controllers/fork_controller.go, domain/updater/microservice.go),       *)
(* composed with the Application builder of every Fork.                    *)
(*                                                                         *)
(* One worker takes fork keys out of the deduplicating work queue.  A      *)
(* Fork that is gone ends the reconcile (after the Mappings' UpdateAll);   *)
(* otherwise the Mappings are updated (ForkController's subject, one step  *)
(* here), the microservice updater Gets the Fork again, builds its         *)
(* Application from the Services and Deployments of the namespace and      *)
(* Refreshes the three lists GenerateLists returns, in order, stopping at  *)
(* the first error.  A Refresh by the single Fork worker leaves the        *)
(* children exactly the list (Refresher's RefreshPostcondition), so it is  *)
(* one step; a failed one may have written all or none of it.  The copies  *)
(* are owned by the Fork: Kubernetes' garbage collector removes those of   *)
(* a Fork that no longer exists.  The controller watches Forks only: a     *)
(* Service change enqueues nothing, and only the periodic resync brings    *)
(* the copies up to date with it.  The same holds of the ForkManager,     *)
(* whose header key Build reads for the VSConfigs.  Both the Mappings'    *)
(* Update and Build Get the ForkManager the Fork names: a reference that  *)
(* is malformed or names no ForkManager fails the reconcile every time.  *)
(***************************************************************************)
EXTENDS Naturals, Sequences, FiniteSets, TLC

CONSTANTS
    ForkNames,      \* Fork objects of the namespace (strings)
    IdOf,           \* [ForkNames -> spec.identifier]
    ForkVersions,   \* Fork specs users may write
    InitForks,      \* Forks present at start
    ServiceVersions,\* [labels, selector] records users may write to a Service
    InitServices,
    Deployments,    \* the namespace's Deployments (not changed here)
    SvcNames, DeployNames, UserKeys, UserValues, SvcSelectors,
    Manager,        \* "<namespace>/<name>" of the ForkManager
    HeaderKeys,     \* values users may give the ForkManager's spec.headerKey
    InitHeaderKey,
    IdKey, RoutedPrefix, Templates, None, NoMeta,
    Resyncs,        \* TRUE: the informers' periodic resync enqueues every Fork
    MaxChanges,     \* bound on user writes of Forks and Services
    MaxFailures     \* bound on injected API failures

VARIABLES
    forks,      \* name -> Fork spec
    services,   \* name -> Service
    headerKey,  \* spec.headerKey of the Forks' ForkManager
    copies,     \* per Fork, the live children of its three lists
    queue,      \* work queue of the Fork controller
    pc,         \* idle | get | mappings | msget | build | refresh
    key,        \* fork of the running reconcile
    frk,        \* the Fork spec the last Get returned
    lists,      \* the three lists of the running Update
    li,         \* index of the list being Refreshed
    changes,
    failures

vars == <<forks, services, headerKey, copies, queue, pc, key, frk, lists, li, changes, failures>>

\* the Application builder of Fork f with spec s and header key h, reading
\* the namespace as it is now (f names the Fork, a constant of Application:
\* it is bound by a quantifier where a variable holds it)
App(f, s, h) == INSTANCE Application
               WITH fork <- s, ForkName <- f, Identifier <- IdOf[f], HeaderKey <- h,
                    deployments <- Deployments, cli <- None, CliArgs <- {},
                    Containers <- [d \in DOMAIN Deployments |-> {}]

\* GenerateLists: DeploymentCopies, Services, VSConfigs, in this order
GenerateLists(f, s, h) ==
    <<App(f, s, h)!DeploymentCopies, App(f, s, h)!ServiceCopies, App(f, s, h)!VSConfigs>>

NoCopies == <<{}, {}, {}>>

(***************************************************************************)
(* The reconcile.                                                          *)
(***************************************************************************)

Fault == failures < MaxFailures /\ failures' = failures + 1

\* Reconcile returns an error: the key is requeued
Requeue == pc' = "idle" /\ queue' = queue \cup {key}

Abort == Requeue /\ UNCHANGED <<forks, services, headerKey, copies, key, frk, lists, li, changes>>

Start(k) ==
    /\ pc = "idle"
    /\ k \in queue
    /\ queue' = queue \ {k}
    /\ key' = k
    /\ pc' = "get"
    /\ UNCHANGED <<forks, services, headerKey, copies, frk, lists, li, changes, failures>>

\* r.Get of the Fork: NotFound runs the Mappings' UpdateAll and returns
GetFork ==
    /\ pc = "get"
    /\ \/ Fault /\ Abort
       \/ /\ key \notin DOMAIN forks
          /\ pc' = "idle"
          /\ UNCHANGED <<forks, services, headerKey, copies, queue, key, frk, lists, li, changes, failures>>
       \/ /\ key \in DOMAIN forks
          /\ frk' = forks[key]
          /\ pc' = "mappings"
          /\ UNCHANGED <<forks, services, headerKey, copies, queue, key, lists, li, changes, failures>>

\* the slug of spec.manager names the ForkManager (strings.Split into two
\* parts, then a Get that finds it)
Resolves(mgr) == mgr = Manager

\* the manager reference split and up.Update of that manager: its Mappings
\* are ForkController's; here only its outcome counts
UpdateMappings ==
    /\ pc = "mappings"
    /\ \/ ~Resolves(frk.mgr) /\ UNCHANGED failures /\ Abort
       \/ Resolves(frk.mgr) /\ Fault /\ Abort
       \/ /\ Resolves(frk.mgr)
          /\ pc' = "msget"
          /\ UNCHANGED <<forks, services, headerKey, copies, queue, key, frk, lists, li, changes, failures>>

\* mup.Update: r.client.Get of the Fork; NotFound is no error (the owner
\* references clean up)
MicroserviceGet ==
    /\ pc = "msget"
    /\ \/ Fault /\ Abort
       \/ /\ key \notin DOMAIN forks
          /\ pc' = "idle"
          /\ UNCHANGED <<forks, services, headerKey, copies, queue, key, frk, lists, li, changes, failures>>
       \/ /\ key \in DOMAIN forks
          /\ frk' = forks[key]
          /\ pc' = "build"
          /\ UNCHANGED <<forks, services, headerKey, copies, queue, key, lists, li, changes, failures>>

\* NewAppBuilder(fork).Build and GenerateLists, from the Fork got above
\* (which may have been deleted since), the header key getForkHeaderKey
\* gets from the ForkManager (an error if the Fork's reference does not
\* resolve) and the Services listed now
Build ==
    /\ pc = "build"
    /\ \/ ~Resolves(frk.mgr) /\ UNCHANGED failures /\ Abort
       \/ Fault /\ Abort
       \/ /\ Resolves(frk.mgr)
          /\ \E f \in ForkNames, h \in HeaderKeys :
                f = key /\ h = headerKey /\ lists' = GenerateLists(f, frk, h)
          /\ li' = 1
          /\ pc' = "refresh"
          /\ UNCHANGED <<forks, services, headerKey, copies, queue, key, frk, changes, failures>>

\* mutant: the loop returns after the first list
RefreshFirstOnly ==
    /\ pc = "refresh"
    /\ \/ /\ li > Len(lists) \/ li > 1
          /\ pc' = "idle"
          /\ UNCHANGED <<forks, services, headerKey, copies, queue, key, frk, lists, li, changes, failures>>
       \/ /\ li = 1
          /\ copies' = [copies EXCEPT ![key][li] = lists[li]]
          /\ li' = li + 1
          /\ UNCHANGED <<forks, services, headerKey, queue, pc, key, frk, lists, changes, failures>>

\* ref.Refresh of list li with the Fork as parent; after the last, Update
\* and Reconcile return nil.  A failed Refresh stopped somewhere in its
\* writes: the children are the old list or the new one (or anything in
\* between, which the next Refresh repairs the same way).
Refresh ==
    /\ pc = "refresh"
    /\ \/ /\ li > Len(lists)
          /\ pc' = "idle"
          /\ UNCHANGED <<forks, services, headerKey, copies, queue, key, frk, lists, li, changes, failures>>
       \/ /\ li <= Len(lists)
          /\ Fault
          /\ \E c \in {copies[key][li], lists[li]} : copies' = [copies EXCEPT ![key][li] = c]
          /\ Requeue
          /\ UNCHANGED <<forks, services, headerKey, key, frk, lists, li, changes>>
       \/ /\ li <= Len(lists)
          /\ copies' = [copies EXCEPT ![key][li] = lists[li]]
          /\ li' = li + 1
          /\ UNCHANGED <<forks, services, headerKey, queue, pc, key, frk, lists, changes, failures>>

(***************************************************************************)
(* The environment.                                                        *)
(***************************************************************************)

\* Kubernetes' garbage collector deletes the children whose owner is gone
CollectGarbage(f) ==
    /\ f \notin DOMAIN forks
    /\ copies[f] # NoCopies
    /\ copies' = [copies EXCEPT ![f] = NoCopies]
    /\ UNCHANGED <<forks, services, headerKey, queue, pc, key, frk, lists, li, changes, failures>>

\* a user creates or changes a Fork; the For(&Fork{}) watch enqueues it
WriteFork(f, spec) ==
    /\ changes < MaxChanges
    /\ ~(f \in DOMAIN forks /\ forks[f] = spec)
    /\ forks' = (f :> spec) @@ forks
    /\ queue' = queue \cup {f}
    /\ changes' = changes + 1
    /\ UNCHANGED <<services, headerKey, copies, pc, key, frk, lists, li, failures>>

\* a user deletes a Fork; the watch enqueues its key
DeleteFork(f) ==
    /\ changes < MaxChanges
    /\ f \in DOMAIN forks
    /\ forks' = [j \in DOMAIN forks \ {f} |-> forks[j]]
    /\ queue' = queue \cup {f}
    /\ changes' = changes + 1
    /\ UNCHANGED <<services, headerKey, copies, pc, key, frk, lists, li, failures>>

\* a user changes a Service: no watch of the Fork controller sees it
WriteService(n, svc) ==
    /\ changes < MaxChanges
    /\ services[n] # svc
    /\ services' = [services EXCEPT ![n] = svc]
    /\ changes' = changes + 1
    /\ UNCHANGED <<forks, headerKey, copies, queue, pc, key, frk, lists, li, failures>>

\* a user changes the ForkManager's header key: nothing watches it either
WriteHeaderKey(h) ==
    /\ changes < MaxChanges
    /\ headerKey # h
    /\ headerKey' = h
    /\ changes' = changes + 1
    /\ UNCHANGED <<forks, services, copies, queue, pc, key, frk, lists, li, failures>>

\* the informers' periodic resync enqueues every Fork (the timer fires
\* whether or not there is one)
Resync ==
    /\ Resyncs
    /\ queue' = queue \cup DOMAIN forks
    /\ UNCHANGED <<forks, services, headerKey, copies, pc, key, frk, lists, li, changes, failures>>

Init ==
    /\ forks = InitForks
    /\ services = InitServices
    /\ headerKey = InitHeaderKey
    /\ copies = [f \in ForkNames |-> NoCopies]
    /\ queue = DOMAIN InitForks
    /\ pc = "idle"
    /\ key = CHOOSE f \in ForkNames : TRUE
    /\ frk = CHOOSE s \in ForkVersions : TRUE
    /\ lists = NoCopies
    /\ li = 1
    /\ changes = 0
    /\ failures = 0

Step == GetFork \/ UpdateMappings \/ MicroserviceGet \/ Build \/ Refresh

Next ==
    \/ \E k \in queue : Start(k)
    \/ Step
    \/ \E f \in ForkNames : CollectGarbage(f)
    \/ \E f \in ForkNames, spec \in ForkVersions : WriteFork(f, spec)
    \/ \E f \in DOMAIN forks : DeleteFork(f)
    \/ \E n \in DOMAIN services, svc \in ServiceVersions : WriteService(n, svc)
    \/ \E h \in HeaderKeys : WriteHeaderKey(h)
    \/ Resync

\* The single worker finishes what it starts and the FIFO queue serves
\* every key; the resync timer keeps firing; the garbage collector keeps
\* running.
Fairness ==
    /\ WF_vars(GetFork) /\ WF_vars(UpdateMappings) /\ WF_vars(MicroserviceGet)
    /\ WF_vars(Build) /\ WF_vars(Refresh)
    /\ \A k \in ForkNames : SF_vars(Start(k))
    /\ WF_vars(Resync)
    /\ \A f \in ForkNames : WF_vars(CollectGarbage(f))

Spec == Init /\ [][Next]_vars /\ Fairness

(***************************************************************************)
(* Properties.                                                             *)
(***************************************************************************)

\* Spec 2 and 4.6: once users stop writing, the copies of every Fork end
\* up, and stay, the lists its Application builds from the Services and
\* the ForkManager's header key as they are, and a deleted Fork's copies
\* are gone: the NotFound path, the requeue on error, the three Refreshes
\* in a row, the resync (for Service and ForkManager changes, which
\* fork_controller.go does not watch) and owner-reference garbage
\* collection (for a Refresh that wrote after the Fork went) have all to
\* work, and a Fork whose manager reference fails on every reconcile must
\* not keep the others waiting.  Of such a Fork's copies nothing is said.
CopiesConverge ==
    <>[](\A f \in ForkNames : \E h \in HeaderKeys :
            /\ h = headerKey
            /\ \/ f \in DOMAIN forks /\ ~Resolves(forks[f].mgr)
               \/ copies[f] = IF f \in DOMAIN forks THEN GenerateLists(f, forks[f], h) ELSE NoCopies)

====
