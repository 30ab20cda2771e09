------------------------------ MODULE Refresher ------------------------------
(***************************************************************************)
(* The reconciliation engine of pkg/refresh/refresh.go.                    *)
(*                                                                         *)
(* One kind of object lives in one namespace of the resource store.  A     *)
(* controller worker takes a parent out of its work queue, lets a builder  *)
(* compute the desired ObjectList for it (read here from intent[p]) and    *)
(* calls Refresh: handleExisting lists the live objects, deletes the owned *)
(* ones whose identity is not desired and remembers the others by          *)
(* identity; then every desired item is written with CreateOrUpdate, a    *)
(* Get followed by a Create or an Update.  Every store call is a step of   *)
(* its own and may fail; a failed Refresh is requeued (controller-runtime  *)
(* requeues a reconcile that returned an error).  Several workers (one per *)
(* controller) may refresh the same parent concurrently.                   *)
(***************************************************************************)
EXTENDS Naturals, Sequences, FiniteSets, Functions, TLC

CONSTANTS
    Parents,          \* parent objects that children may reference as owner
    Workers,          \* controller workers, each running one reconcile at a time
    Keys,             \* label values used as identity keys (sequences of chars)
    Vals,             \* abstract content (spec) of a child object
    NoOwner,          \* owner of an object with no controller reference
    None,             \* sentinel: nothing observed / nothing recorded
    ParentName,       \* [Parents -> name], used by createResourceName
    DesiredLists,     \* [Parents -> set of ObjectList.Items a builder may produce]
    InitStore,        \* objects present before the controller starts
    IntentWatchers,   \* workers whose controller watches the intent objects
    IdentityByName,   \* TRUE: Identity = GetName (DeploymentCopy); FALSE: a label
    Resyncs,          \* TRUE: the manager's periodic resync re-enqueues everything
    MaxNameLen,       \* 63 in refresh.go
    NameMargin,       \* 60 in createResourceName
    MaxFailures,      \* bound on injected store-call failures
    MaxIntentChanges  \* bound on changes of the intent objects

ASSUME NameMargin <= MaxNameLen
ASSUME IntentWatchers \subseteq Workers

VARIABLES
    store,      \* the live objects: name -> [owner, key, val]
    intent,     \* what the builder would produce now, per parent
    queue,      \* work queue of each worker (a set: the queue deduplicates keys)
    failures,   \* store-call failures injected so far
    changes,    \* intent changes so far
    pc,         \* worker phase: idle | list | gc | get | write
    par,        \* parent the worker is reconciling
    items,      \* list.Items of the running Refresh
    want,       \* desiredIds
    snap,       \* listed objects not yet visited by the GC loop
    existing,   \* existingMap: identity -> name of the owned live object
    idx,        \* index of the item being written
    observed,   \* object returned by the Get of CreateOrUpdate (None: NotFound)
    result,     \* outcome of the worker's last Refresh
    solo,       \* ghost: no other worker touched the parent since this Refresh began
    startConv,  \* ghost: the store was already settled for this list at start
    wrote,      \* ghost: this Refresh issued a create, update or delete
    done        \* ghost: per parent, items of the last solo success, None once the store changes

vars == <<store, intent, queue, failures, changes, pc, par, items, want, snap,
          existing, idx, observed, result, solo, startConv, wrote, done>>

(***************************************************************************)
(* Names and identities.                                                   *)
(***************************************************************************)

\* mutant: keeps one character too many
TruncateOffByOne(name) == IF MaxNameLen < Len(name) THEN SubSeq(name, 1, MaxNameLen + 1) ELSE name

\* name[:63] for an item that carries an explicit name (refresh.go:82-86)
Truncate(name) == IF MaxNameLen < Len(name) THEN SubSeq(name, 1, MaxNameLen) ELSE name

\* createResourceName("%s-%s", first, last): both parts shrink in proportion
\* to their length.  int(f - f/len*(len-60)) is f*60 \div len, except where
\* float64 rounding makes it one less (e.g. f = 57, len = 62): a shorter
\* prefix, still within the margin, which no property here tells apart.
CreateResourceName(first, last) ==
    LET name == first \o <<"-">> \o last
        len  == Len(name)
    IN  IF len < NameMargin THEN name
        ELSE SubSeq(first, 1, (Len(first) * NameMargin) \div len)
             \o <<"-">> \o SubSeq(last, 1, (Len(last) * NameMargin) \div len)

\* mutant: desired items identified by name, live objects by label
ItemIdByName(it) == it.name
\* mutant: live objects identified by name, desired items by label
LiveIdByName(n, obj) == n

\* list.Identity applied to a desired item and to a listed object
ItemId(it) == IF IdentityByName THEN it.name ELSE it.key
LiveId(n, obj) == IF IdentityByName THEN n ELSE obj.key

\* ownedByParent: an owner reference with the parent's name, group and kind
OwnedBy(obj, p) == obj.owner = p

\* The object CreateOrUpdate writes: scheme.Convert copies the whole desired
\* object (owner references included, which it has none of) over the fetched
\* one, then SetControllerReference makes p the controller.
Mutate(it, p) == [owner |-> p, key |-> it.key, val |-> it.val]

\* mutant: the existingMap lookup is dropped; the item's own name is used
TargetNameIgnoringExisting(w) ==
    LET it == items[w][idx[w]]
    IN  IF it.name # <<>> THEN Truncate(it.name)
        ELSE CreateResourceName(ItemId(it), ParentName[par[w]])

\* the name chosen for the current item (refresh.go:78-91)
TargetName(w) ==
    LET it == items[w][idx[w]]
    IN  IF ItemId(it) \in DOMAIN existing[w] THEN existing[w][ItemId(it)]
        ELSE IF it.name # <<>> THEN Truncate(it.name)
        ELSE CreateResourceName(ItemId(it), ParentName[par[w]])

EmptyFn == [x \in {} |-> None]

\* the children of p are exactly the items of l: one object per item, owned by
\* p and carrying the item's label and content
Converged(p, l) ==
    LET own == {n \in DOMAIN store : store[n].owner = p}
    IN  /\ Cardinality(own) = Len(l)
        /\ {store[n] : n \in own} =
              {[owner |-> p, key |-> l[i].key, val |-> l[i].val] : i \in 1..Len(l)}

(***************************************************************************)
(* The Refresh of worker w.                                                *)
(***************************************************************************)

StoreFault == failures < MaxFailures /\ failures' = failures + 1

\* Refresh returns an error; the reconcile fails and its key is requeued.
Abort(w) ==
    /\ pc' = [pc EXCEPT ![w] = "idle"]
    /\ result' = [result EXCEPT ![w] = "err"]
    /\ queue' = [queue EXCEPT ![w] = @ \cup {par[w]}]
    /\ UNCHANGED <<store, intent, changes, par, items, want, snap, existing,
                   idx, observed, solo, startConv, wrote, done>>

\* The reconcile of p begins: the builder reads the intent, handleExisting
\* computes desiredIds.
Start(w, p) ==
    /\ pc[w] = "idle"
    /\ p \in queue[w]
    /\ queue' = [queue EXCEPT ![w] = @ \ {p}]
    /\ pc' = [pc EXCEPT ![w] = "list"]
    /\ par' = [par EXCEPT ![w] = p]
    /\ items' = [items EXCEPT ![w] = intent[p]]
    /\ want' = [want EXCEPT ![w] = {ItemId(intent[p][i]) : i \in 1..Len(intent[p])}]
    /\ snap' = [snap EXCEPT ![w] = EmptyFn]
    /\ existing' = [existing EXCEPT ![w] = EmptyFn]
    /\ idx' = [idx EXCEPT ![w] = 1]
    /\ observed' = [observed EXCEPT ![w] = None]
    /\ result' = [result EXCEPT ![w] = "running"]
    /\ solo' = [v \in Workers |->
                  IF v = w THEN \A u \in Workers \ {w} : pc[u] = "idle" \/ par[u] # p
                  ELSE solo[v] /\ par[v] # p]
    /\ startConv' = [startConv EXCEPT ![w] =
                       done[p] = intent[p]]
    /\ wrote' = [wrote EXCEPT ![w] = FALSE]
    /\ UNCHANGED <<store, intent, failures, changes, done>>

\* r.client.List of the kind in the parent's namespace
List(w) ==
    /\ pc[w] = "list"
    /\ \/ StoreFault /\ Abort(w)
       \/ /\ snap' = [snap EXCEPT ![w] = store]
          /\ pc' = [pc EXCEPT ![w] = "gc"]
          /\ UNCHANGED <<store, intent, queue, failures, changes, par, items, want,
                         existing, idx, observed, result, solo, startConv, wrote, done>>

Visited(w, n) == [snap EXCEPT ![w] = Restrict(@, DOMAIN @ \ {n})]

\* one iteration of the loop over currentObjs.Items (refresh.go:144-164)
Gc(w) ==
    /\ pc[w] = "gc"
    /\ \E n \in DOMAIN snap[w] :
         LET obj == snap[w][n]
             id  == LiveId(n, obj)
         IN  \/ /\ ~OwnedBy(obj, par[w])
                /\ snap' = Visited(w, n)
                /\ UNCHANGED <<store, intent, queue, failures, changes, pc, par, items,
                               want, existing, idx, observed, result, solo, startConv,
                               wrote, done>>
             \/ /\ OwnedBy(obj, par[w])
                /\ id \in want[w]
                /\ existing' = [existing EXCEPT ![w] = (id :> n) @@ @]
                /\ snap' = Visited(w, n)
                /\ UNCHANGED <<store, intent, queue, failures, changes, pc, par, items,
                               want, idx, observed, result, solo, startConv, wrote, done>>
             \/ /\ OwnedBy(obj, par[w])
                /\ id \notin want[w]
                /\ \/ StoreFault /\ Abort(w)
                   \/ n \notin DOMAIN store /\ UNCHANGED failures /\ Abort(w)
                   \/ /\ n \in DOMAIN store
                      /\ store' = Restrict(store, DOMAIN store \ {n})
                      /\ snap' = Visited(w, n)
                      /\ wrote' = [wrote EXCEPT ![w] = TRUE]
                      /\ done' = [q \in Parents |-> None]
                      /\ UNCHANGED <<intent, queue, failures, changes, pc, par, items,
                                     want, existing, idx, observed, result, solo,
                                     startConv>>

Applying(w) == pc[w] \in {"gc", "get"} /\ DOMAIN snap[w] = {}

\* the Get of CreateOrUpdate for item idx, and the mutate function
ApplyGet(w) ==
    /\ Applying(w)
    /\ idx[w] <= Len(items[w])
    /\ LET n   == TargetName(w)
           new == Mutate(items[w][idx[w]], par[w])
       IN  \/ StoreFault /\ Abort(w)
           \/ /\ ~(n \in DOMAIN store /\ store[n] = new)
              /\ observed' = [observed EXCEPT ![w] = IF n \in DOMAIN store THEN store[n] ELSE None]
              /\ pc' = [pc EXCEPT ![w] = "write"]
              /\ UNCHANGED <<store, intent, queue, failures, changes, par, items, want,
                             snap, existing, idx, result, solo, startConv, wrote, done>>
           \/ /\ n \in DOMAIN store
              /\ store[n] = new
              /\ idx' = [idx EXCEPT ![w] = @ + 1]
              /\ pc' = [pc EXCEPT ![w] = "get"]
              /\ UNCHANGED <<store, intent, queue, failures, changes, par, items, want,
                             snap, existing, observed, result, solo, startConv, wrote, done>>

\* the Create (after NotFound) or the Update (with the fetched resourceVersion)
ApplyWrite(w) ==
    /\ pc[w] = "write"
    /\ LET n   == TargetName(w)
           new == Mutate(items[w][idx[w]], par[w])
           ok  == IF observed[w] = None THEN n \notin DOMAIN store
                  ELSE n \in DOMAIN store /\ store[n] = observed[w]
       IN  \/ StoreFault /\ Abort(w)
           \/ ~ok /\ UNCHANGED failures /\ Abort(w)
           \/ /\ ok
              /\ store' = (n :> new) @@ store
              /\ wrote' = [wrote EXCEPT ![w] = TRUE]
              /\ done' = [q \in Parents |-> None]
              /\ idx' = [idx EXCEPT ![w] = @ + 1]
              /\ pc' = [pc EXCEPT ![w] = "get"]
              /\ UNCHANGED <<intent, queue, failures, changes, par, items, want, snap,
                             existing, observed, result, solo, startConv>>

\* Refresh returns nil
Finish(w) ==
    /\ Applying(w)
    /\ idx[w] > Len(items[w])
    /\ pc' = [pc EXCEPT ![w] = "idle"]
    /\ result' = [result EXCEPT ![w] = "ok"]
    /\ done' = IF solo[w] THEN [done EXCEPT ![par[w]] = items[w]] ELSE done
    /\ UNCHANGED <<store, intent, queue, failures, changes, par, items, want, snap,
                   existing, idx, observed, solo, startConv, wrote>>

(***************************************************************************)
(* The environment.                                                        *)
(***************************************************************************)

\* a user edits the intent objects; the watching controllers enqueue p
ChangeIntent(p, l) ==
    /\ changes < MaxIntentChanges
    /\ l # intent[p]
    /\ intent' = [intent EXCEPT ![p] = l]
    /\ changes' = changes + 1
    /\ queue' = [w \in Workers |-> IF w \in IntentWatchers THEN queue[w] \cup {p} ELSE queue[w]]
    /\ UNCHANGED <<store, failures, pc, par, items, want, snap, existing, idx,
                   observed, result, solo, startConv, wrote, done>>

\* the informers' periodic resync enqueues every object on every controller
Resync ==
    /\ Resyncs
    /\ queue # [w \in Workers |-> Parents]
    /\ queue' = [w \in Workers |-> Parents]
    /\ UNCHANGED <<store, intent, failures, changes, pc, par, items, want, snap,
                   existing, idx, observed, result, solo, startConv, wrote, done>>

Init ==
    /\ store = InitStore
    /\ intent \in {f \in [Parents -> UNION {DesiredLists[p] : p \in Parents}] :
                      \A p \in Parents : f[p] \in DesiredLists[p]}
    /\ queue = [w \in Workers |-> Parents]
    /\ failures = 0
    /\ changes = 0
    /\ pc = [w \in Workers |-> "idle"]
    /\ par = [w \in Workers |-> None]
    /\ items = [w \in Workers |-> <<>>]
    /\ want = [w \in Workers |-> {}]
    /\ snap = [w \in Workers |-> EmptyFn]
    /\ existing = [w \in Workers |-> EmptyFn]
    /\ idx = [w \in Workers |-> 1]
    /\ observed = [w \in Workers |-> None]
    /\ result = [w \in Workers |-> "none"]
    /\ solo = [w \in Workers |-> FALSE]
    /\ startConv = [w \in Workers |-> FALSE]
    /\ wrote = [w \in Workers |-> FALSE]
    /\ done = [p \in Parents |-> None]

\* the steps of a Refresh in progress
Step(w) == List(w) \/ Gc(w) \/ ApplyGet(w) \/ ApplyWrite(w) \/ Finish(w)

Worker(w) == (\E p \in Parents : Start(w, p)) \/ Step(w)

Next ==
    \/ \E w \in Workers : Worker(w)
    \/ \E p \in Parents : \E l \in DesiredLists[p] : ChangeIntent(p, l)
    \/ Resync

\* A running reconcile keeps going (weak fairness).  The work queue is FIFO,
\* so a queued key is taken whenever the worker is next idle, however often
\* it is busy with others (strong fairness of Start per key).  The resync
\* timer keeps firing.
Fairness ==
    /\ \A w \in Workers : WF_vars(Step(w))
    /\ \A w \in Workers : \A p \in Parents : SF_vars(Start(w, p))
    /\ WF_vars(Resync)

Spec == Init /\ [][Next]_vars /\ Fairness

(***************************************************************************)
(* Properties.                                                             *)
(***************************************************************************)

Obj == [owner : Parents \cup {NoOwner}, key : Keys, val : Vals]

TypeOK ==
    /\ \A n \in DOMAIN store : store[n] \in Obj /\ Len(n) \in 1..MaxNameLen
    /\ failures \in 0..MaxFailures
    /\ changes \in 0..MaxIntentChanges
    /\ queue \in [Workers -> SUBSET Parents]
    /\ pc \in [Workers -> {"idle", "list", "gc", "get", "write"}]
    /\ par \in [Workers -> Parents \cup {None}]
    /\ \A w \in Workers : \A n \in DOMAIN snap[w] : snap[w][n] \in Obj
    /\ \A w \in Workers : observed[w] \in Obj \cup {None}
    /\ result \in [Workers -> {"none", "running", "ok", "err"}]
    /\ \A w \in Workers : pc[w] # "idle" => idx[w] \in 1..Len(items[w]) + 1

\* Refresh's contract (spec 3): when a Refresh of p returns nil and no other
\* Refresh of p overlapped it, the children of p are exactly the desired
\* items, one object each, with the desired content.  Violated if GC, the
\* existingMap or the name choice go wrong over a list, delete and writes.
RefreshPostcondition ==
    \A w \in Workers :
        result[w] = "ok" /\ solo[w] => Converged(par[w], items[w])

\* Idempotence (spec 8): a Refresh started right after a successful one of
\* the same list, nothing having changed in between, writes nothing.
IdempotentRefresh ==
    \A w \in Workers : startConv[w] /\ solo[w] => ~wrote[w]

\* Once the intent objects stop changing and store calls stop failing, the
\* children of every parent end up, and stay, exactly the desired ones.
Converges ==
    <>[](\A p \in Parents : Converged(p, intent[p]))

(***************************************************************************)
(* Refinement: the Refresher implements ChildStore.  The store and the     *)
(* intent objects are shared as they are; every other variable is the     *)
(* engine's own, and a step that changes only those is a stuttering step   *)
(* of the abstraction.                                                     *)
(***************************************************************************)

\* the names a Refresh can write under: those of the objects it lists (the
\* existingMap takes its names from them) and those refresh.go:82-91 derives
\* from an item
ChildNames ==
    DOMAIN InitStore \cup
    UNION {{IF it.name # <<>> THEN Truncate(it.name)
            ELSE CreateResourceName(ItemId(it), ParentName[p])
              : it \in UNION {Range(l) : l \in DesiredLists[p]}} : p \in Parents}

Abstract == INSTANCE ChildStore WITH Names <- ChildNames

\* Spec 2 and "Live child resource": the store changes only by a parent's
\* writing a desired item at a free name or one it owns, or removing an
\* object it owns; unowned and foreign objects are never touched, whatever
\* the interleaving of workers, stale snapshots and failed calls.  The
\* code does not keep it: CreateOrUpdate at a derived name that an unowned
\* object holds overwrites that object and makes the parent its controller
\* (the TODO at refresh.go:108).
RefinesChildStore == Abstract!Spec

=============================================================================
