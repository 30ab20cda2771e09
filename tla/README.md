# TLA+ models of kubefork-controller

This directory holds TLA+ models of the controller in `src/`, the TLC
configurations that check them, and `PROJECT.json`. That file lists the
components, the runs, the mutants, the source lines each definition models,
the findings and the hazards.

## The system

kubefork-controller makes a "fork" of some microservices inside a Kubernetes
namespace. The user creates a `Fork` that names a `ForkManager`, a service
selector, a deployment selector and an identifier. The controller then
produces these objects:

* for each selected Service, a copied Service `<svc>-<fork>` and a `VSConfig`
  (built by `domain/lister/internal`, written by `domain/updater/microservice.go`);
* for each Deployment routable from a selected Service, a `DeploymentCopy`
  `<deploy>-<fork>`;
* for each Service that has VSConfigs with a header value, an Istio
  `VirtualService`. It routes requests that carry the fork header to the
  copy (`domain/lister/virtualservice.go`, `domain/updater/virtualservice.go`);
* for each (upstream of the ForkManager, fork identifier), an Ambassador
  `Mapping` (`domain/updater/mapping.go`).

Three controllers drive this. Each has its own deduplicating FIFO work queue
and one worker (the controller-runtime default).

| controller | watches | does |
|---|---|---|
| `ForkReconciler` (`controllers/fork_controller.go`) | Forks, and a channel fed by the deadline watcher | deletes an overdue Fork; otherwise updates the manager's Mappings, then the fork's copies, Services and VSConfigs. On NotFound, updates the Mappings of every manager. |
| `ServiceReconciler` (`controllers/service_controller.go`) | Services | refreshes that Service's VirtualService |
| `VSConfigReconciler` (`controllers/vsconfig_controller.go`) | VSConfigs | refreshes the VirtualService of the VSConfig's host. On NotFound, refreshes every Service of the namespace. |

The deadline watcher (`controllers/fork_watcher.go`) ticks every minute. On
each tick it lists the Forks and sends every overdue one on an unbuffered
channel to the Fork controller.

The copies, VSConfigs and VirtualServices are written by one engine, the
Refresher (`pkg/refresh/refresh.go`). `Refresh(parent, list)` runs in two
phases:

* It lists the live objects of the kind. It deletes those owned by the
  parent whose identity is not desired, and remembers the others by
  identity.
* It writes each desired item with `CreateOrUpdate` (a Get, then a Create or
  an Update). The item keeps the live object's name if one exists. Otherwise
  its explicit name is cut to 63 characters, or `createResourceName` builds
  a name.

The Mapping updater does not use the Refresher. It has its own label-based
garbage collection.

## What is hard, and what must hold

* **Concurrency on one parent.** Two controllers refresh the same
  VirtualService from their own snapshot of the VSConfigs. The store calls of
  their Refreshes interleave. A Get/Create pair races with the other
  worker's Create. GC deletes from a listed snapshot.
* **Partial failure.** Any store call may fail. The Refresh stops where it
  is, and the key is requeued.
* **Names.** There is a 63-character limit, and `createResourceName` shrinks
  names proportionally. A name may already be taken by an object the parent
  does not own, or by another fork's object.
* **Identity.** The identity of a DeploymentCopy is its name, a copied
  Service's is a label, a VirtualService's is its last host, and a VSConfig's
  is its host.
* **The fork lifecycle.** A deadline passes with no event, so a watcher
  polls. Deleting a Fork relies on owner-reference garbage collection and on
  the NotFound branch of the Fork controller.

The properties that make it correct (spec sections 4 and 8):

* after a Refresh, the parent's children are exactly the desired items;
* a second Refresh of the same list writes nothing;
* GC deletes only owned, undesired objects;
* objects the parent does not own are untouched (the code does not
  guarantee this: `refresher_takeover`);
* once the inputs stop changing, the children converge, and every
  VirtualService routes as its Service's VSConfigs say;
* a Mapping merges every fork of an identifier;
* an overdue fork is eventually deleted, and its Mappings with it.

## Modules

### `Refresher.tla`: the reconciliation engine, with concurrent workers

**State:**

* `store` maps object names (sequences of characters) to
  `[owner, key, val]`. The owner is a parent or `NoOwner`. The key is the
  label that carries the identity. The value is the rest of the object.
* `intent[p]` is the list the builder would produce now.
* `queue[w]` is the work queue of a worker (one per controller). It is a
  set, because the queue deduplicates.
* Per worker, the running Refresh holds:
  * `items` (`list.Items`);
  * `want` (`desiredIds`);
  * `snap` (the listed objects not yet visited by the GC loop);
  * `existing` (`existingMap`);
  * `idx` (the item being written);
  * `observed` (the result of the Get of `CreateOrUpdate`);
  * `pc` (the phase).

**Actions:**

| action | code |
|---|---|
| `Start(w, p)` | dequeue `p`, build the list and compute `desiredIds` |
| `List(w)` | `r.client.List` in `handleExisting` |
| `Gc(w)` | one iteration of the GC loop: skip an unowned object, remember a desired one (the last wins), or `Delete` an undesired one |
| `ApplyGet(w)` | the Get of `CreateOrUpdate` for the current item. If the object already equals the mutated one, nothing is written. |
| `ApplyWrite(w)` | the Create after NotFound, or the Update with the fetched version. It fails with AlreadyExists / Conflict / NotFound when the store changed since the Get. |
| `Finish(w)` | `Refresh` returns nil |

Every store call may also fail (`StoreFault`, bounded by `MaxFailures`).
`Abort` returns the error and requeues the parent, which is what
controller-runtime does with a reconcile error. `ChangeIntent` is a user
edit, seen only by the controllers in `IntentWatchers`. `Resync` is the
manager's periodic resync.

**Modelling choices:**

* The name choice (`TargetName`) and the object written (`Mutate`: a full
  overwrite, owner included) follow refresh.go:77-113.
* `IdentityByName` chooses between the two identity functions the builders
  use: the name for a DeploymentCopy, and a field of the object for the
  others.
* The order of the GC loop is left free. The API server lists by name, and
  no property depends on the order.

**Ghost variables:**

* `solo[w]`: no other worker touched the same parent during the Refresh.
* `done[p]`: the list of the last solo success, forgotten on any store
  write.
* `startConv`, `wrote`: record what idempotence needs.

`MCRefresher.tla` gives the constants for TLC:

* two parents (one in the `refresher` run);
* names of up to `MaxNameLen = 3` characters, which stands for 63, with
  `NameMargin = 3` standing for 60;
* p1's intent changes from `[a:X:v1]` to `[a:X:v2, defg:Y:v1]`. The second
  list holds an explicit name longer than the limit, and p1 already owns a
  stale child `b` with identity X and an orphan `c`;
* p2's intent changes from one unnamed item, named by `createResourceName`,
  to the empty list;
* an unowned `z` with key X sits in the namespace; in the
  `refresher_takeover` run it is `x-q` instead (`MCInitStoreClash`), the
  name `createResourceName` gives p2's child.

### `ForkController.tla`: the Fork reconciler, the Mapping updater and the deadline watcher

**State:**

* `forks` (name to `[name, id, mgr, headers, upgrades, deadline]`) and
  `mappings` (`<<namespace, name>>` to `[owner, label, route, headers,
  upgrades]`). A host and an identifier are short character sequences, so
  the Mapping name is computed as `mapping.go:75` computes it. `route`
  stands for the host, service and rewrite, which are functions of
  (identifier, upstream).
* `queue`, `pc`, `key`: the Fork controller's work queue and its one worker.
* Per Update: `slug`, `fm`, `fsnap` (the listed Forks), `cands`
  (`mappingDeleteCandidate`), `ids`, `cur`, `uidx`. `all` and `pending`
  hold the state of UpdateAll.
* `now` is the clock. `wpc`, `wnow`, `wsend`, `wlist` hold the watcher's
  tick: its time reading, the overdue Forks still to send, and the names it
  listed.
* `crashes`, `failures`, `changes` are bounded counters. `fresh[m]` is a
  ghost: the last Update of `m` succeeded on the Forks that exist now.

**Actions:**

| action | code |
|---|---|
| `Start(k)` | the worker takes a key |
| `GetFork` | `r.Get`, then: NotFound leads to UpdateAll, an overdue fork to `DeleteFork`, a malformed `manager` to an error, anything else to Update (`fork_controller.go:75-95`) |
| `DeleteFork` | `r.Delete(frk)`, which has no precondition |
| `ListManagers`, `NextManager` | UpdateAll |
| `GetManager`, `ListForks`, `ListMappings`, `NextIdentifier`, `ApplyMapping`, `DeleteMapping`, `UpdateDone` | `mappingUpdater.Update`, one API call per step. `ApplyMapping` is the Get and the write of one CreateOrUpdate in a single step, because only this worker writes Mappings. |
| `WriteFork`, `UserDeleteFork`, `Resync` | users and the informer |
| `WatcherTick`, `WatcherList`, `WatcherSend` | `forkWatcher.Start`. The sends go in List order. The key an event carries is that of the Fork sent or of any Fork listed after it, because `&fork` aliases the loop variable. |
| `Tick`, `Crash` | the clock, and a restart. A restart rebuilds the queue from the Forks that exist. A List error in the watcher is also a restart, because the error stops the manager. |

**Operators:**

* `MappingName`;
* `ApplyOptions` (`applyOptionsToMapping`), folded over `ForksOf` (the
  Forks of an identifier in name order), which gives `MutateMapping`;
* `Overdue` (the reconcile's `Before`) and `Due` (the watcher's
  `!After`).

`RefUpgrades` and `RefHeaders` state spec 4.4 on its own terms, and the
properties compare the Mappings with them.

`MCForkController.tla` gives the constants:

* managers `m1` and `m2` with namespaces, names, upstream hosts (`a.b`, `e`)
  and header keys;
* the Fork versions users may write;
* the starting Forks and Mappings.

### `VirtualServiceLister.tla`: the desired VirtualService of a Service

**State:** `vsconfigs` (name to `[host, headerName, headerValue, service]`),
which users write and delete. Names are numbers in the order of their
strings, so the sort compares them with `<`.

**Operators, one per function of `domain/lister/virtualservice.go`:**

* `Listed` and `SortByName` (`Build`'s List and `sort.Slice`);
* `Contributes` (the skip condition);
* `HeaderRoute` and `DefaultRoute` (the two route literals);
* `BuildHTTPRoutes`;
* `BuildVirtualService` (emit only when there is more than one route);
* `Desired(order, svc)`, applied to a List result `order`.

The properties quantify over every permutation of the listed names, which
stands for the unspecified order of the API server's List.
`RefRoutes` states spec 4.5 by rank, without sorting, and is the reference
definition the builder is checked against.

### `Application.tla`: the desired copies of one Fork

**State:** `services` (name to `[labels, selector]`), `deployments` (name to
`[labels, podLabels]`) and the `fork` (`[svcSel, dplSel, tmpl, ctrs, replicas]`,
where `None` is a nil selector and `NoMeta` a template without metadata).
A Fork selector is a `LabelSelector`: `matchLabels` and a sequence of
`matchExpressions`. Users change all three at any time. They write the
Fork by hand (`ForkSpecs`, the `ForkSpec` type of `fork_types.go`, with
`matchLabels` only), or apply a manifest of `kubeforkctl manifest`
(`ApplyManifest`, below). The history variable `cli` records the command
line the Fork came from, with the labels that `--service-name` and
`--deployment-name` had when it ran. It is `None` for a Fork written by
hand. No action reads it. Its flag `asApplied` is TRUE until a user writes a
Service or Deployment (`Moved`), so a property can speak of the state in
which the manifest was applied. The containers of each Deployment's pod
template are the constant `Containers` (name and image); the Fork's `ctrs`
are the containers of its template, which `DeploymentCopy` copies.

**Operators:**

* `Matches` and `RoutableFrom` (`routableFrom`);
* `SelectorMatches`, `LabelSelectorAsSelector(sel).Matches` for a Fork
  selector: its `matchLabels` and every `Exists`, `DoesNotExist` and `NotIn`
  requirement;
* `ForkTargetServices` and `RoutableDeployments` (the two Lists of `Build`);
* `InverseMap` and `DeployNameToServiceNames`;
* `DeploymentCopy`, `ServiceCopy` and `VSConfigOf` (the `buildCopy` and
  `buildVSConfig` functions), with `CopyName`, `RoutingLabelKey` and
  `MergeMap`;
* `DeploymentCopies`, `ServiceCopies` and `VSConfigs` (`GenerateLists`).

**Actions:** user writes of Services, Deployments and the Fork, and
`ApplyManifest(a)`, which is `manifestRun` followed by the apply. It reads
the labels of the named Service and Deployment; a failed Get ends the
command. It parses both selectors with `NewSelector`; an invalid option ends
the command. It chooses the containers to switch with `GetAllContainers`
(`GetAllContainersByImageNameAndServiceAndDeploymentSelector`): the
containers, by name, whose image has the same part before the first `:` as
`--image` (`ImageName`), in Deployments that a selected Service's selector,
merged with the Deployment selector, matches. Then the Fork becomes
`NewFork`'s manifest, with `NewContainers` of those names and the new
image. `ImageHits` caches the image comparison per Deployment, because TLC
evaluates a constant definition once.

`ManifestSwitchesImage` states the NOTE at `k8sClientGo.go:80`: in the
state in which a manifest was applied, every copy of a Deployment whose
labels equal its pod labels runs the new image in each container whose image
is of the same repository (`Repository`: the path and the name before the
tag). The check shows that the comparison by the text before the first `:`
still finds them: an image with a registry port (`reg:5000/envoy:v1`) is
not of the repository `app`. Comparing full image strings
(`ImageNameFull`) breaks it.

The Get of the ForkManager's header key is in `ForkCopies`, where the key
is state. The List errors of `Build` are left out: an error returns before
anything is written, and the Refresher model covers the aborted reconcile. Ports, ClusterIP reuse,
annotations, and the env of the new containers are copied field by field
and no property reads them.

`CopiesMirrorRouting` reads Service selectors the way Kubernetes does: an
empty selector selects no pod. `Matches` is the code's label-selector
match, in which the empty selector matches everything.

`MCApplication.tla` gives the selectors and templates. One user label key
(`app`) with two values keeps every selector relation (equal, disjoint,
nested through the empty map) while staying apart from the reserved
`routed-from-` and `fork-id` keys, so a template cannot override them.

### `VSControllers.tla`: the Service and VSConfig controllers

**State:**

* `services` and `vsconfigs`, written by users;
* `vs`, the VirtualService of each Service;
* per controller (`"svc"`, `"vsc"`): `queue`, `pc`, `key`, and for the
  Update in progress `tgt`, `pend`, `all` and `snap`;
* `changes`, `failures`, `crashes`, all bounded.

**Actions:**

| action | code |
|---|---|
| `Start(c, k)` | the worker of controller `c` takes a key |
| `ServiceGet` | `ServiceReconciler.Reconcile`: a missing Service is ignored, otherwise its Update |
| `ConfigGet` | `VSConfigReconciler.Reconcile`: NotFound leads to UpdateAll, otherwise the Update of `Spec.Host` |
| `ListServices`, `NextService` | `virtualServiceUpdater.UpdateAll` |
| `UpdateGet`, `Build`, `Refresh` | `virtualServiceUpdater.Update`: the Get of the Service, `Build` and `GenerateLists`, and the `Refresh` as one step |
| `WriteConfig`, `DeleteConfig`, `ToggleService`, `Resync`, `CollectGarbage`, `Crash` | users, the informers, owner-reference garbage collection and restarts |

`Desired(h)` is `VirtualServiceLister`'s `Desired`, taken by `INSTANCE`.
`virtualservice_lister` shows it does not depend on the List order. The
Refresh is one step here. `Refresher` checks its inner steps and the
interleaving of two controllers inside it.

### `ChildStore.tla`: what the engine promises, and the refinement

`ChildStore` is the abstract specification of the Refresher. It has only
the state the rest of the cluster sees, `store` and `intent`, and three
actions:

* `Write(p, n, it)`: parent `p` writes one of its desired items under a
  name that is free or that `p` already controls;
* `Remove(p, n)`: `p` deletes an object it owns;
* `ChangeIntent(p, l)`: a user changes the intent objects.

It leaves open which names are used and which items are written. The
engine may work from a stale list, and a Refresh may stop half done.
What it does fix is the rule of spec.md's "Live child resource" that an
object with no owner reference, or with another parent's, is never
touched.

`Refresher.tla` instantiates it as `Abstract == INSTANCE ChildStore WITH
Names <- ChildNames`. The store and intent are shared under their own
names. `ChildNames` is the set of names a Refresh can write under: the
listed names (the `existingMap`) and those refresh.go:82-91 derives from an
item. Every other variable of the Refresher is internal, so a step that
changes only those is a stuttering step of `ChildStore`.
`RefinesChildStore == Abstract!Spec` is checked as the `PROPERTY` of
`refresher_takeover`, and TLC finds it violated. An unowned object holds
`x-q`, the name p2's unnamed child is given. p2's first Refresh lists it,
skips it in GC (it is not owned), and its Create-or-update Gets it,
copies the item over it and makes p2 its controller: a write that no
`ChildStore` step allows. The code says so itself: the TODO at
`refresh.go:108` says this case should return an error.

`MCApplication.tla` also gives eleven command lines (`MCCliArgs`):

* no `--service-label`, and one of each documented form;
* two options at once (`app`, `app!=2`);
* `app=1=2`, which the parser rejects;
* `--service-name a` with `app=1`, which replaces a's label of the same key;
* `--service-name a` with `app!=1`;
* `--deployment-name x`, with and without options.

A selector never has two `<key>=<value>` options. Their meaning is not
documented: the map write keeps the last one, where every other form adds a
requirement.

### `Manifest.tla`: the manifest of kubeforkctl

The module holds pure operators over TLA+ strings. The parse is about the
characters of the option, so the strings are kept, not abstracted.

* `Split` is `strings.Split` for a non-empty separator, written as a
  `RECURSIVE` operator on `IndexOf`.
* `ParseLabel` is one iteration of `NewSelector`'s loop. It classifies the
  option by the number of pieces its splits at `"!="`, `"="` and `"!"` give,
  in the code's order, and returns the error at an invalid option.
* `NewSelector` folds `ParseLabel` over the options (`FoldLeft`), starting
  from the named object's labels. A `<key>=<value>` option overwrites that
  key.
* `NewFork` builds the Fork: both selectors, the replicas, the template
  labels `app=<identifier>` and `role=fork`, and the containers.
* `NewContainers`: one container per chosen name, with the new image.

Environment, annotations, the deadline and the YAML output are
not modelled (see Not modelled).

The reference for `SelectorsFollowOptions` is in `Application`:

* `OptionHolds` gives the meaning the help text gives each documented form,
  generated from the keys and values by concatenation, not by splitting.
* `OptionsSelect` adds the named object's labels that no `<key>=<value>`
  option replaces. This override is stated in `fork.go`'s NOTE and in its
  test.

A reading of `fork.go:109` shows that `app!1` is none of the documented
forms, yet it is taken as `!1`: one piece at `"="` and two at `"!"`. With
that option added to `MCCliArgs`, TLC reports `SelectorsFollowOptions`
violated within a few hundred states. It is kept as a hazard, not as a
run.

### `ForkCopies.tla`: the Fork reconcile with the microservice Update

This module composes three parts: the end of the Fork reconcile
(`fork_controller.go:101-106`), `microserviceUpdater.Update`
(`microservice.go:31-54`) and the `Application` builder.

**State:**

* `forks` (name to Fork spec) and `services`, written by users.
  Deployments are a constant.
* `headerKey`: the ForkManager's `spec.headerKey`, which users may change.
* `copies[f]`: the live children of Fork `f`'s three lists.
* `queue`, `pc`, `key`: the Fork controller's worker.
* `frk`: the Fork spec the last Get returned. Its `mgr` is the
  `spec.manager` reference; `Resolves(mgr)` holds when it names the one
  ForkManager (`Manager`).
* `lists`, `li`: the lists being Refreshed and the current index.

**Actions:**

| action | code |
|---|---|
| `Start(k)` | the worker takes a key |
| `GetFork` | `r.Get`: NotFound ends the reconcile (after the Mappings' UpdateAll) |
| `UpdateMappings` | the split of `spec.manager` and `up.Update`, one step that may fail. A reference that is malformed or names no ForkManager always fails. Its Mappings are `ForkController`'s. |
| `MicroserviceGet` | `mup.Update`'s Get: NotFound is no error |
| `Build` | `NewAppBuilder(fork).Build` and `GenerateLists`, failing when the Fork's reference does not resolve, from the Fork got, and from the header key (`getForkHeaderKey`) and the Services as they are now |
| `Refresh` | one `ref.Refresh` per list, in order, returning at the first error. A failed one may have written all of its list or none. |
| `CollectGarbage(f)` | Kubernetes removes the copies of a Fork that is gone |
| `WriteFork`, `DeleteFork`, `WriteService`, `WriteHeaderKey`, `Resync` | users and the informers. A Service or ForkManager write enqueues nothing, because the controller watches only Forks (`fork_controller.go:118`). |

The lists are `Application`'s, through a parameterised instance:
`App(f, s, h) == INSTANCE Application WITH fork <- s, ForkName <- f,
HeaderKey <- h, ...`. `ForkName` and `HeaderKey` are constants of
`Application`, so `Build` binds them by a quantifier:
`\E f \in ForkNames, h \in HeaderKeys : f = key /\ h = headerKey`.

A Refresh is one step. With the Fork controller's single worker, no other
writer touches these children, and `RefreshPostcondition` of `Refresher`
shows that a solo Refresh leaves exactly the list.

`MCForkCopies.tla` gives the constants:

* Forks `f` and `g`;
* Services `a` and `b`, one label key;
* Deployments `x` (app=1) and `y` (app=2);
* Service `a` may move its selector from `x`'s pods to `y`'s;
* a Fork spec selects the app=1 objects or every object, or names the
  missing ForkManager `ns/gone`;
* the header key may change from `x-fork` to `x-env`.

## Runs

| run | cfg | expect | shows |
|---|---|---|---|
| refresher | `MCRefresherLive.cfg` | pass | One parent, two workers, one intent change, one store failure, with resync (143k states). `TypeOK` bounds every created name by the limit. `RefreshPostcondition`: a solo successful Refresh leaves exactly the desired children. `IdempotentRefresh`: a Refresh repeated on a settled store writes nothing. `Converges`: the children end up equal to the intent. |
| refresher_takeover | `MCRefresher.cfg` | violation | Two parents, with an unowned object under the name p2's child is given. `RefinesChildStore` fails at p2's first write: the unowned object is overwritten and adopted (`refresh.go:108`), where spec.md says it is never touched. |
| refresher_long_name | `MCRefresherLongName.cfg` | violation | Name identity with a desired name longer than the limit. Each Refresh deletes the truncated copy and recreates it. |
| forkcontroller_safety | `MCForkController.cfg` | pass | The setup is two managers in one namespace sharing host `e`, four kinds of Fork (plain, with a header and a protocol, a malformed manager, a missing manager), a stale and an unowned Mapping, two fork writes, one API failure and one restart. `MappingsReflectForks`: once a manager's Update has succeeded on the current Forks, its Mappings are exactly the spec 4.4 ones, whatever the other manager's Updates did (2.6M states). |
| forkcontroller_liveness | `MCForkControllerLive.cfg` | pass | One manager with resync, a Fork that becomes overdue when the clock ticks, one user write and one API failure. `Converges`: the Mappings end up, and stay, the spec 4.4 ones. `OverdueForksDeleted`: an overdue Fork is eventually deleted. |
| virtualservice_lister | `MCVirtualServiceLister.cfg` | pass | Up to three VSConfigs for two hosts, with and without a header value. `RoutesFollowSpec`: for every order List may return, each Service's desired VirtualService has one route per contributing VSConfig in name order, then the default route, and there is none when nothing contributes. |
| application | `MCApplication.cfg` | pass | Two Services and two Deployments whose labels and selectors users change. Every hand-written Fork over one label key, and the Forks of eleven kubeforkctl command lines (422k states, about 2.5 minutes; hand-written Forks leave `replicas` unset). `CopiesMirrorRouting`: a copy exists only for a Deployment some forked Service routes to, every such forked Deployment is copied, a copied Service selects a copy exactly when its original selects the original's pods, and each copied Service has its VSConfig. `ManifestSwitchesImage`: when a manifest is applied, each copy of a Deployment whose labels equal its pod labels runs the new image in every container of the same repository. `SelectorsFollowOptions`: a generated Fork's `forkTargetServices`, and its Deployment selector, hold exactly the objects whose labels satisfy the documented meaning of the options and the labels the names had. This holds whatever the objects have become since. |
| application_empty_selector | `MCApplicationEmptySelector.cfg` | violation | A forked Service with no selector: `routableFrom` matches every pod template, so every forked Deployment is copied and selected by the copy, though Kubernetes gives that Service no pods (`builder.go:174`). |
| application_no_meta | `MCApplicationNoMeta.cfg` | violation | `BuildTotal`: a template with a spec and no metadata makes `tmpl.Labels` dereference the nil embedded `*ObjectMeta` (`deployment.go:53`), a panic that stops the process. |
| vscontrollers | `MCVSControllers.cfg` | pass | Both controllers from process start, with resync, one user change (a VSConfig moved to another Service, a second VSConfig for the same Service with or without a header value, a VSConfig deleted, or a Service created or deleted), one Refresh failure and one restart. `Converges`: every Service's VirtualService ends up, and stays, what its VSConfigs call for. |
| forkcopies | `MCForkCopies.cfg` | pass | Two Forks, a Service whose selector moves, a header key that may change, a Fork that may come to name no ForkManager, three user writes (a Fork created, changed or deleted, a Service changed, or the header key changed) and one API failure, with resync (867k states, about 2 minutes). `CopiesConverge`: every existing Fork whose manager resolves gets copies end up its Application's lists on the current Services and header key, and a deleted Fork's copies are collected, including those a Refresh wrote after the Fork was gone. |
| forkcontroller_watcher_alias | `MCForkControllerAlias.cfg` | violation | Without resync, the watcher's event for an overdue Fork can carry the name of the Fork listed after it, on every tick (`fork_watcher.go:48`). |

The takeover is not limited to unowned objects. `scheme.Convert` copies
the desired item, which has no owner references, over the fetched object
before `SetControllerReference`, so an object another parent controls is
adopted as well, and two Forks whose `<svc>-<fork>` names collide take the
object from each other on every reconcile.

Without resync, the Refresher model loses an update: the stale Refresh of
the Service controller, which does not watch VSConfigs, can land after the
VSConfig controller's, and nothing enqueues the Service again
(`service_controller.go:49`). With resync, the `refresher` run shows the
system recovers.

**Refresher bounds:**

* Two workers are the two controllers that share a VirtualService.
* Two parents (in `refresher_takeover`) give one parent's Create against
  a name held by an object it does not own. With two parents the liveness
  run exceeds twenty minutes, so `refresher` has one.
* One failure exercises every abort point.
* One intent change is enough to make a snapshot stale.
* A length limit of 3 keeps both truncation paths: `name[:63]` (`defg`
  becomes `def`) and the shrinking branch of `createResourceName`. With
  one-character parts that branch shrinks nothing, so the proportional
  arithmetic itself is not exercised by these runs.

**ForkController bounds:**

* Two managers are the least for the cross-manager behaviours: the shared
  namespace and host, the same name, and the Forks of the other manager.
* Hosts `a.b` and `e` give the dot replacement and two upstreams.
* Two identifiers and up to four Forks cover the merge of several Forks and
  the GC of a stale identifier.
* A clock of 0..1 with a Fork whose deadline is 0 covers "due at the tick
  but not yet overdue for the reconcile" (the deadline equal to now) and
  overdue.
* One restart and one failure reach every abort point.

Seven other disagreements were met while modelling. They are kept as
hazards in `PROJECT.json` rather than as runs of their own:

* A Fork with an upgrade protocol and no header gets no protocol merged,
  because the merge sits inside the loop over its headers
  (`mapping.go:154-159`). This breaks `MappingsReflectForks` as soon as such
  a Fork is among the inputs, so the safety run's Forks all carry a header.
* Two managers named `fm` in two namespaces delete each other's Mappings:
  the delete candidates are listed across namespaces (`mapping.go:59`, `:77`).
  This breaks `MappingsReflectForks` when `MgrNs` puts them apart.
* `r.Delete(frk)` has no precondition, so a user who extends the deadline
  between the Get and the Delete loses the Fork (`fork_controller.go:86`).
  The model has this interleaving.
* A restart after a Fork is deleted and before its NotFound reconcile
  completes loses that reconcile. The Mappings are owned by the
  ForkManager, and the rebuilt queue holds only existing Forks, so they stay
  (`fork_controller.go:77`). `Converges` fails with one restart, resync
  included, because a resync lists only existing Forks. The liveness run
  has no restarts.

* Hosts `a.b` and `a`, with identifiers `c` and `b-c`, both give the
  Mapping name `a-b-c`. This breaks `MappingsReflectForks`.
* A Fork of `m2` updates only `m2`, although `m1`'s Mappings depend on
  every Fork. This breaks `Converges` with two managers, which is why the
  liveness run has one manager.

**ForkController fairness.** The worker's steps are weakly fair. `Start(k)`
is strongly fair per key, because the queue is FIFO. Resync (controller
runtime's SyncPeriod), the watcher (a ticker) and the clock are weakly fair.
Restarts and failures are bounded. No run disables deadlock checking: the
watcher ticks forever.

**Refresher fairness.** A running reconcile keeps making progress, so `WF` holds on
the steps of a worker. The work queue is FIFO, so a queued key is taken the
next time its worker is idle, which gives `SF` on `Start(w, p)`. The resync
timer keeps firing (`WF`). Store failures are bounded.

**Lister and Application bounds.** Three VSConfig names give every
relative order of two contributing configs and one that is skipped, and two
hosts give the skip of another host's config. Two Services and two
Deployments give a Deployment routed from two Services (the inverse map's
merge) and one routed from none. Users may change these inputs freely, so
both modules are checked over every reachable input, with no fairness:
their properties are invariants.

**VSControllers bounds and fairness.** Two Services and two VSConfig
names give a move between Services and two VSConfigs for one Service. One
user change is enough to reach the move, a delete (UpdateAll) and a Service
deletion (garbage collection); with two, the liveness run exceeds five
minutes. Each worker step is weakly fair, and each `Start(c, k)` strongly
fair (FIFO queue), as are the resync and the garbage collector; users,
failures and restarts are not.

**A moved VSConfig.** A VSConfig event updates only the Service named by
the VSConfig's current `Spec.Host` (`vsconfig_controller.go:71`). When a
user moves a VSConfig from Service 11 to 12, 11's VirtualService keeps the
exact-match route to the copy. Only a Service event or the resync removes
it. TLC showed this without resync, starting from rest. With both queues
empty, the invariant "every VirtualService is what its VSConfigs call for"
fails after the one move. `Converges` holds only because of the resync.
The check is not kept as a run, because the composition of the Fork
reconcile needed the slot.

**ForkCopies bounds and fairness.** Two Forks give one created and one
deleted. Service `a`'s selector move changes which Deployment is copied.
Three user writes reach several cases: a deletion after the Build (the
copies written for a Fork that is gone), a Fork deleted and created again,
a Fork change, and a Service change after the Build. A Fork changed to
name a missing ForkManager fails every reconcile and is requeued; the
run shows the single worker still reaches the other Fork.
The worker's steps are weakly fair, and `Start(k)` is strongly fair (FIFO
queue). The resync and the garbage collector are weakly fair. Users and
failures are not fair. With `Resyncs` FALSE, `CopiesConverge` fails: one
Service write, or one header-key change, after the Build leaves the copies
stale, and nothing enqueues the Fork (`fork_controller.go:118`). The resync timer fires even
when there is no Fork, so the system never deadlocks.

**Deadlock checking.** It is off in `refresher_takeover`: with no
resync, the system rightly comes to rest once the queues are empty.

## Plan

Done:

1. `Refresher`, the core every other component writes through.
2. `ForkController`, which covers the Mapping updater, the Fork reconciler
   and the deadline watcher, with restarts.
3. `VirtualServiceLister`, checked against the spec 4.5 reference.
4. `Application`: routability, `inverseMap` and the three generated lists.
5. `VSControllers`, the two controllers over `VirtualServiceLister`.
6. `ChildStore`, the engine's promise, with `Refresher` checked against it
   (it does not refine it: `refresher_takeover`).
7. `ForkCopies`, the microservice Update composed into the Fork reconcile,
   with owner-reference garbage collection.

8. `Manifest`, the kubeforkctl selector parse and manifest, composed into
   `Application` as the user action that applies it.
9. The ForkManager's header key as state of `ForkCopies`.
10. The containers `kubeforkctl manifest` switches, in `Application`, and
    the manager-reference errors of the Fork reconcile in `ForkCopies`.

Next, in this order:

11. The deadline path in `ForkCopies` (the overdue delete, then the
   garbage collection of the copies), to join it with `ForkController`'s
   watcher.
12. A refinement of `ForkCopies` by a variant with `Refresher`'s steps
   inside each Refresh, for a single worker.

## Not modelled

* Of the kubeforkctl CLI, `NewEnv` (its variables reach no property) and
  the List errors of the container choice (they end the command before
  output). The deadline is not modelled,
  because `now + validTime` hours in 64-bit nanoseconds is beyond TLC's
  integers. Nor are the client setup and the YAML output.
* The Honeybadger middleware, which only reports errors.
* The test helpers.
* `microserviceUpdater.UpdateAll`, which nothing calls.
* The API type declarations, except for the Fork spec (`ForkSpecs`) and
  the record fields the models read.
* The float rounding of `createResourceName` is modelled by the exact
  quotient (see `PROJECT.json`, hazards).
