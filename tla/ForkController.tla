--------------------------- MODULE ForkController ---------------------------
(***************************************************************************)
(* The Fork controller (controllers/fork_controller.go) and the Mapping    *)
(* updater it calls (domain/updater/mapping.go).                           *)
(*                                                                         *)
(* One worker takes fork keys out of a deduplicating work queue.  For a    *)
(* fork that exists it updates the Mappings of the fork's ForkManager; for *)
(* one that is gone (NotFound) it updates the Mappings of every            *)
(* ForkManager (UpdateAll).  An Update lists all Forks of the cluster and  *)
(* the Mappings labelled with the manager's name, writes one Mapping per   *)
(* (identifier, upstream) with CreateOrUpdate and deletes the labelled     *)
(* Mappings it did not write.  Only this worker writes Mappings, so a Get  *)
(* and the write that follows it are one step here.  Users create, change  *)
(* and delete Forks at any time.                                           *)
(*                                                                         *)
(* A Fork whose deadline has passed is deleted by the reconcile instead.  *)
(* Nothing happens when a deadline passes, so a watcher lists the Forks   *)
(* every tick and sends the overdue ones on a channel that feeds the work *)
(* queue.  The process may restart; the work queue is then rebuilt from   *)
(* the Forks that exist.                                                   *)
(***************************************************************************)
EXTENDS Naturals, Sequences, FiniteSets, SequencesExt, TLC

CONSTANTS
    Managers,       \* ForkManager objects
    MgrNs,          \* [Managers -> namespace]
    MgrName,        \* [Managers -> name]
    Upstreams,      \* [Managers -> Seq(host)], a host being a sequence of chars
    HeaderKey,      \* [Managers -> header name]
    ForkSpecs,      \* Fork objects users may write: [name, id, mgr, headers, upgrades, deadline]
    InitForks,      \* Forks present at start: name -> Fork
    InitMappings,   \* Mappings present at start: <<ns, name>> -> Mapping
    Malformed,      \* a `manager` field that is not "namespace/name"
    NoOwner,        \* owner of a Mapping with no controller reference
    None,
    FwdHost,        \* the "x-forwarded-host" header name
    Authority,      \* its value, "%REQ(:authority)%"
    Resyncs,        \* TRUE: the manager's periodic resync enqueues every Fork
    MaxFailures,    \* bound on injected API failures
    MaxForkChanges, \* bound on user writes of Forks
    MaxTime,        \* clock readings are 0..MaxTime
    MaxCrashes      \* bound on process restarts

VARIABLES
    forks,      \* the Fork objects: name -> Fork
    mappings,   \* the Mapping objects: <<ns, name>> -> Mapping
    queue,      \* work queue of the Fork controller (a set of fork names)
    pc,         \* idle | get | listfms | nextfm | getfm | listforks | listmps | apply | delete
    key,        \* fork name of the running reconcile
    all,        \* TRUE while the reconcile runs UpdateAll
    pending,    \* managers UpdateAll has not updated yet
    slug,       \* <<ns, name>> of the manager being updated
    fm,         \* the manager fetched by Update
    fsnap,      \* the Forks listed by Update
    cands,      \* mappingDeleteCandidate
    ids,        \* identifiers of forkMap not yet processed
    cur,        \* identifier being processed, None between identifiers
    uidx,       \* index of the upstream being processed
    failures,
    changes,
    fresh,      \* ghost: per manager, its last Update succeeded on the current Forks
    now,        \* the clock
    wpc,        \* watcher phase: wait | list | send
    wnow,       \* the watcher's time.Now() of this tick
    wsend,      \* overdue forks the watcher has still to send this tick
    wlist,      \* names of the forks listed this tick
    crashes

watch == <<now, wpc, wnow, wsend, wlist, crashes>>

vars == <<forks, mappings, queue, pc, key, all, pending, slug, fm, fsnap, cands,
          ids, cur, uidx, failures, changes, fresh, watch>>

upd == <<pending, slug, fm, fsnap, cands, ids, cur, uidx>>

(***************************************************************************)
(* The Mapping an Update writes.                                           *)
(***************************************************************************)

\* mutant: the dots of the host are kept
MappingNameKeepingDots(host, id) == host \o <<"-">> \o id

\* mutant: one Mapping per upstream, whatever the identifier
MappingNameByHost(host, id) == ReplaceAll(host, ".", "-")

\* strings.ReplaceAll(upstream.Host+"-"+identifier, ".", "-")
MappingName(host, id) == ReplaceAll(host \o <<"-">> \o id, ".", "-")

\* mutant: the fork's upgrade protocols replace the mapping's instead of joining them
ApplyOptionsReplacing(mp, f) ==
    IF DOMAIN f.headers = {} THEN mp
    ELSE [mp EXCEPT !.headers = f.headers @@ @, !.upgrades = f.upgrades]

\* applyOptionsToMapping: the fork's headers override; its upgrade protocols
\* are merged inside the loop over its headers, so only when it has one.
ApplyOptions(mp, f) ==
    IF DOMAIN f.headers = {} THEN mp
    ELSE [mp EXCEPT !.headers = f.headers @@ @, !.upgrades = @ \cup f.upgrades]

\* the Forks of one identifier, in List order (by name): groupForksByIdentifier
ForksOf(fs, id) ==
    LET names == {n \in DOMAIN fs : fs[n].id = id}
    IN  [i \in 1..Cardinality(names) |-> fs[SetToSortSeq(names, <)[i]]]

\* the mutate function of CreateOrUpdate: Spec and Labels are replaced, the
\* host, service and host rewrite are functions of (identifier, upstream)
\* and stand here as `route`; then the options of every fork are applied.
MutateMapping(m, id, u, fs) ==
    FoldLeft(ApplyOptions,
             [owner    |-> m,
              label    |-> MgrName[m],
              route    |-> <<id, Upstreams[m][u]>>,
              headers  |-> (HeaderKey[m] :> id) @@ (FwdHost :> Authority),
              upgrades |-> {"websocket"}],
             ForksOf(fs, id))

\* mutant: Deadline.After(&now) in place of Before
OverdueAfter(f) == f.deadline # None /\ f.deadline > now

\* frk.Spec.Deadline != nil && frk.Spec.Deadline.Before(&now)
Overdue(f) == f.deadline # None /\ f.deadline < now

\* the watcher's filter: a deadline that is set and not After(now)
Due(f, t) == f.deadline # None /\ ~(f.deadline > t)

\* the ForkManager a slug refers to, if any
ManagerAt(s) == {m \in Managers : <<MgrNs[m], MgrName[m]>> = s}

(***************************************************************************)
(* The reconcile.                                                          *)
(***************************************************************************)

Fault == failures < MaxFailures /\ failures' = failures + 1

\* Reconcile returns an error: the key is requeued.
Abort ==
    /\ pc' = "idle"
    /\ queue' = queue \cup {key}
    /\ UNCHANGED <<forks, mappings, key, all, upd, changes, fresh>>

Start(k) ==
    /\ pc = "idle"
    /\ k \in queue
    /\ queue' = queue \ {k}
    /\ key' = k
    /\ pc' = "get"
    /\ UNCHANGED <<forks, mappings, all, upd, failures, changes, fresh>>

\* r.Get of the fork, then the clock: NotFound leads to UpdateAll, an overdue
\* fork to its deletion, a malformed manager reference to an error, anything
\* else to Update of the fork's manager.
GetFork ==
    /\ pc = "get"
    /\ \/ Fault /\ Abort
       \/ /\ key \notin DOMAIN forks
          /\ pc' = "listfms"
          /\ all' = TRUE
          /\ UNCHANGED <<forks, mappings, queue, key, upd, failures, changes, fresh>>
       \/ /\ key \in DOMAIN forks
          /\ Overdue(forks[key])
          /\ pc' = "delfork"
          /\ UNCHANGED <<forks, mappings, queue, key, all, upd, failures, changes, fresh>>
       \/ /\ key \in DOMAIN forks
          /\ ~Overdue(forks[key])
          /\ forks[key].mgr = Malformed
          /\ UNCHANGED failures
          /\ Abort
       \/ /\ key \in DOMAIN forks
          /\ ~Overdue(forks[key])
          /\ forks[key].mgr # Malformed
          /\ pc' = "getfm"
          /\ all' = FALSE
          /\ slug' = forks[key].mgr
          /\ UNCHANGED <<forks, mappings, queue, key, pending, fm, fsnap, cands, ids,
                         cur, uidx, failures, changes, fresh>>

\* r.Delete of the fork read by the Get (no precondition): its owned children
\* go by garbage collection, the delete event requeues its key
DeleteFork ==
    /\ pc = "delfork"
    /\ \/ Fault /\ Abort
       \/ key \notin DOMAIN forks /\ UNCHANGED failures /\ Abort
       \/ /\ key \in DOMAIN forks
          /\ forks' = [j \in DOMAIN forks \ {key} |-> forks[j]]
          /\ queue' = queue \cup {key}
          /\ pc' = "idle"
          /\ fresh' = [m \in Managers |-> FALSE]
          /\ UNCHANGED <<mappings, key, all, upd, failures, changes>>

\* UpdateAll: List the ForkManagers of every namespace
ListManagers ==
    /\ pc = "listfms"
    /\ \/ Fault /\ Abort
       \/ /\ pending' = Managers
          /\ pc' = "nextfm"
          /\ UNCHANGED <<forks, mappings, queue, key, all, slug, fm, fsnap, cands,
                         ids, cur, uidx, failures, changes, fresh>>

\* UpdateAll: Update the next listed manager, or return nil
NextManager ==
    /\ pc = "nextfm"
    /\ \/ /\ pending = {}
          /\ pc' = "idle"
          /\ UNCHANGED <<forks, mappings, queue, key, all, upd, failures, changes, fresh>>
       \/ \E m \in pending :
             /\ pending' = pending \ {m}
             /\ slug' = <<MgrNs[m], MgrName[m]>>
             /\ pc' = "getfm"
             /\ UNCHANGED <<forks, mappings, queue, key, all, fm, fsnap, cands, ids,
                            cur, uidx, failures, changes, fresh>>

\* mappingUpdater.Update: r.client.Get of the ForkManager
GetManager ==
    /\ pc = "getfm"
    /\ \/ Fault /\ Abort
       \/ ManagerAt(slug) = {} /\ UNCHANGED failures /\ Abort
       \/ \E m \in ManagerAt(slug) :
             /\ fm' = m
             /\ pc' = "listforks"
             /\ UNCHANGED <<forks, mappings, queue, key, all, pending, slug, fsnap,
                            cands, ids, cur, uidx, failures, changes, fresh>>

\* r.client.List of every Fork of the cluster
ListForks ==
    /\ pc = "listforks"
    /\ \/ Fault /\ Abort
       \/ /\ fsnap' = forks
          /\ pc' = "listmps"
          /\ UNCHANGED <<forks, mappings, queue, key, all, pending, slug, fm, cands,
                         ids, cur, uidx, failures, changes, fresh>>

\* r.client.List of the Mappings labelled manager=<name>, in every namespace;
\* they all become delete candidates
ListMappings ==
    /\ pc = "listmps"
    /\ \/ Fault /\ Abort
       \/ /\ cands' = {k \in DOMAIN mappings : mappings[k].label = slug[2]}
          /\ ids' = {fsnap[n].id : n \in DOMAIN fsnap}
          /\ cur' = None
          /\ pc' = "apply"
          /\ UNCHANGED <<forks, mappings, queue, key, all, pending, slug, fm, fsnap,
                         uidx, failures, changes, fresh>>

\* the next identifier of forkMap (a Go map: any order), or the delete loop
NextIdentifier ==
    /\ pc = "apply"
    /\ cur = None \/ uidx > Len(Upstreams[fm])
    /\ \/ /\ ids = {}
          /\ pc' = "delete"
          /\ UNCHANGED <<forks, mappings, queue, key, all, pending, slug, fm, fsnap,
                         cands, ids, cur, uidx, failures, changes, fresh>>
       \/ \E id \in ids :
             /\ ids' = ids \ {id}
             /\ cur' = id
             /\ uidx' = 1
             /\ UNCHANGED <<forks, mappings, queue, key, all, pending, slug, fm,
                            fsnap, cands, pc, failures, changes, fresh>>

\* one (identifier, upstream): keep its name out of the candidates, then
\* CreateOrUpdate.  SetControllerReference fails on a Mapping that another
\* manager controls; CreateOrUpdate writes nothing when the mutated object
\* equals the fetched one.
ApplyMapping ==
    /\ pc = "apply"
    /\ cur # None
    /\ uidx <= Len(Upstreams[fm])
    /\ LET k   == <<MgrNs[fm], MappingName(Upstreams[fm][uidx], cur)>>
           new == MutateMapping(fm, cur, uidx, fsnap)
       IN  \/ Fault /\ Abort
           \/ /\ k \in DOMAIN mappings
              /\ mappings[k].owner \notin {NoOwner, fm}
              /\ UNCHANGED failures
              /\ Abort
           \/ /\ ~(k \in DOMAIN mappings /\ mappings[k].owner \notin {NoOwner, fm})
              /\ mappings' = (k :> new) @@ mappings
              /\ cands' = cands \ {k}
              /\ uidx' = uidx + 1
              /\ UNCHANGED <<forks, queue, key, all, pending, slug, fm, fsnap, ids,
                             cur, pc, failures, changes, fresh>>

\* r.client.Delete of one remaining candidate (it still exists: only this
\* worker deletes Mappings)
DeleteMapping ==
    /\ pc = "delete"
    /\ cands # {}
    /\ \E k \in cands :
         \/ Fault /\ Abort
         \/ /\ mappings' = [j \in DOMAIN mappings \ {k} |-> mappings[j]]
            /\ cands' = cands \ {k}
            /\ UNCHANGED <<forks, queue, key, all, pending, slug, fm, fsnap, ids, cur,
                           uidx, pc, failures, changes, fresh>>

\* Update returns nil: UpdateAll goes on with the next manager, Reconcile
\* returns nil (the microservice update that follows is the Refresher's)
UpdateDone ==
    /\ pc = "delete"
    /\ cands = {}
    /\ pc' = IF all THEN "nextfm" ELSE "idle"
    /\ fresh' = [fresh EXCEPT ![fm] = (fsnap = forks)]
    /\ UNCHANGED <<forks, mappings, queue, key, all, upd, failures, changes>>

(***************************************************************************)
(* The environment.                                                        *)
(***************************************************************************)

\* a user creates or changes a Fork; the watch enqueues it
WriteFork(f) ==
    /\ changes < MaxForkChanges
    /\ ~(f.name \in DOMAIN forks /\ forks[f.name] = f)
    /\ forks' = (f.name :> f) @@ forks
    /\ queue' = queue \cup {f.name}
    /\ changes' = changes + 1
    /\ fresh' = [m \in Managers |-> FALSE]
    /\ UNCHANGED <<mappings, pc, key, all, upd, failures>>

\* a user deletes a Fork; the watch enqueues its key
UserDeleteFork(n) ==
    /\ changes < MaxForkChanges
    /\ n \in DOMAIN forks
    /\ forks' = [j \in DOMAIN forks \ {n} |-> forks[j]]
    /\ queue' = queue \cup {n}
    /\ changes' = changes + 1
    /\ fresh' = [m \in Managers |-> FALSE]
    /\ UNCHANGED <<mappings, pc, key, all, upd, failures>>

\* the informer's periodic resync enqueues every Fork
Resync ==
    /\ Resyncs
    /\ ~(DOMAIN forks \subseteq queue)
    /\ queue' = queue \cup DOMAIN forks
    /\ UNCHANGED <<forks, mappings, pc, key, all, upd, failures, changes, fresh>>

(***************************************************************************)
(* The deadline watcher, the clock and restarts.                           *)
(***************************************************************************)

\* A restart of the process: every in-memory state is lost; the informers'
\* initial List enqueues the Forks that exist, the watcher starts again.
Restarted ==
    /\ queue' = DOMAIN forks
    /\ pc' = "idle"
    /\ wpc' = "wait"
    /\ wsend' = {}
    /\ wlist' = {}
    /\ UNCHANGED <<forks, mappings, key, all, upd, changes, fresh, now, wnow>>

\* the pod is restarted at any point (eviction, rollout, a crash)
Crash ==
    /\ crashes < MaxCrashes
    /\ crashes' = crashes + 1
    /\ UNCHANGED failures
    /\ Restarted

\* the ticker fires: now := time.Now()
WatcherTick ==
    /\ wpc = "wait"
    /\ wpc' = "list"
    /\ wnow' = now
    /\ UNCHANGED <<forks, mappings, queue, pc, key, all, upd, failures, changes,
                   fresh, now, wsend, wlist, crashes>>

\* c.Client.List of the Forks.  An error makes Start return it, which stops
\* the manager: the process exits and is restarted (counted as a restart).
WatcherList ==
    /\ wpc = "list"
    /\ \/ Crash
       \/ /\ wsend' = {n \in DOMAIN forks : Due(forks[n], wnow)}
          /\ wlist' = IF wsend' = {} THEN {} ELSE DOMAIN forks  \* read only by a send
          /\ wpc' = "send"
          /\ UNCHANGED <<forks, mappings, queue, pc, key, all, upd, failures, changes,
                         fresh, now, wnow, crashes>>

\* c.channel <- &fork for the next overdue fork in List order (by name); the
\* controller's channel source puts the event's key on the work queue.  The
\* event points at the loop variable, which the loop goes on overwriting
\* while the source reads it in another goroutine (a data race): the key
\* read is that of this fork or of any fork listed after it.  After the
\* last one the watcher waits for the next tick.
WatcherSend ==
    /\ wpc = "send"
    /\ \/ /\ wsend = {}
          /\ wpc' = "wait"
          /\ UNCHANGED <<forks, mappings, queue, pc, key, all, upd, failures, changes,
                         fresh, now, wnow, wsend, wlist, crashes>>
       \/ /\ wsend # {}
          /\ LET n == Min(wsend)
             IN  /\ \E read \in {j \in wlist : j >= n} : queue' = queue \cup {read}
                 /\ wsend' = wsend \ {n}
          /\ UNCHANGED <<forks, mappings, pc, key, all, upd, failures, changes,
                         fresh, now, wpc, wnow, wlist, crashes>>

Watcher == WatcherTick \/ WatcherList \/ WatcherSend

Tick ==
    /\ now < MaxTime
    /\ now' = now + 1
    /\ UNCHANGED <<forks, mappings, queue, pc, key, all, upd, failures, changes,
                   fresh, wpc, wnow, wsend, wlist, crashes>>

Init ==
    /\ forks = InitForks
    /\ mappings = InitMappings
    /\ queue = DOMAIN InitForks
    /\ pc = "idle"
    /\ key = None
    /\ all = FALSE
    /\ pending = {}
    /\ slug = None
    /\ fm = None
    /\ fsnap = InitForks
    /\ cands = {}
    /\ ids = {}
    /\ cur = None
    /\ uidx = 1
    /\ failures = 0
    /\ changes = 0
    /\ fresh = [m \in Managers |-> FALSE]
    /\ now = 0
    /\ wpc = "wait"
    /\ wnow = 0
    /\ wsend = {}
    /\ wlist = {}
    /\ crashes = 0

Step ==
    \/ GetFork \/ DeleteFork \/ ListManagers \/ NextManager \/ GetManager \/ ListForks
    \/ ListMappings \/ NextIdentifier \/ ApplyMapping \/ DeleteMapping \/ UpdateDone

Next ==
    \/ /\ \/ \E k \in queue : Start(k)
          \/ Step
          \/ \E f \in ForkSpecs : WriteFork(f)
          \/ \E n \in DOMAIN forks : UserDeleteFork(n)
          \/ Resync
       /\ UNCHANGED watch
    \/ Watcher
    \/ Tick
    \/ Crash

\* A running reconcile makes progress; the FIFO queue serves every key; the
\* resync timer, the ticker and the clock keep going.
Fairness ==
    /\ WF_vars(Step /\ UNCHANGED watch)
    /\ \A k \in {f.name : f \in ForkSpecs} : SF_vars(Start(k) /\ UNCHANGED watch)
    /\ WF_vars(Resync /\ UNCHANGED watch)
    /\ WF_vars(Watcher)
    /\ WF_vars(Tick)

Spec == Init /\ [][Next]_vars /\ Fairness

(***************************************************************************)
(* Properties.                                                             *)
(***************************************************************************)

TypeOK ==
    /\ \A k \in DOMAIN mappings :
          /\ k[1] \in {MgrNs[m] : m \in Managers}
          /\ \A i \in 1..Len(k[2]) : k[2][i] # "."
          /\ mappings[k].owner \in Managers \cup {NoOwner}
    /\ \A n \in DOMAIN forks : forks[n] \in ForkSpecs
    /\ queue \subseteq {f.name : f \in ForkSpecs}
    /\ pc \in {"idle", "get", "delfork", "listfms", "nextfm", "getfm", "listforks", "listmps",
              "apply", "delete"}
    /\ failures \in 0..MaxFailures
    /\ changes \in 0..MaxForkChanges
    /\ now \in 0..MaxTime
    /\ wpc \in {"wait", "list", "send"}
    /\ wsend \subseteq DOMAIN forks \cup {f.name : f \in ForkSpecs}

\* Spec 4.4, stated on its own terms: the upgrade protocols of a mapping are
\* the union of "websocket" and those of every fork of the identifier, and
\* each header is the manager's header key, the forwarded-host marker, or
\* the value given by the last fork (by name) that declares it.
RefUpgrades(fs, id) ==
    {"websocket"} \cup UNION {fs[n].upgrades : n \in {j \in DOMAIN fs : fs[j].id = id}}

RefHeaders(m, fs, id) ==
    LET decl(h) == {n \in DOMAIN fs : fs[n].id = id /\ h \in DOMAIN fs[n].headers}
        last(h) == CHOOSE n \in decl(h) : \A j \in decl(h) : j <= n
        keys    == {HeaderKey[m], FwdHost} \cup
                   UNION {DOMAIN fs[n].headers : n \in {j \in DOMAIN fs : fs[j].id = id}}
    IN  [h \in keys |-> IF decl(h) # {} THEN fs[last(h)].headers[h]
                       ELSE IF h = HeaderKey[m] THEN id ELSE Authority]

\* The Mappings of manager m (in its namespace, labelled with its name) are
\* one per (identifier of a Fork, upstream of m), controlled by m, with the
\* spec's merged headers and upgrade protocols.
Reflects(m) ==
    LET mine == {k \in DOMAIN mappings : k[1] = MgrNs[m] /\ mappings[k].label = MgrName[m]}
        idsNow == {forks[n].id : n \in DOMAIN forks}
    IN  /\ {mappings[k].route : k \in mine} =
              {<<id, Upstreams[m][u]>> : id \in idsNow, u \in 1..Len(Upstreams[m])}
        /\ Cardinality(mine) = Cardinality(idsNow) * Len(Upstreams[m])
        /\ \A k \in mine :
              /\ mappings[k].owner = m
              /\ mappings[k].upgrades = RefUpgrades(forks, mappings[k].route[1])
              /\ mappings[k].headers = RefHeaders(m, forks, mappings[k].route[1])

\* Spec 4.4: once an Update of m has returned nil and no Fork changed since,
\* m's Mappings are exactly those the Forks call for, whatever Updates of
\* other managers ran in between.  Broken by the merge in
\* applyOptionsToMapping, by colliding names, or by another manager's GC.
MappingsReflectForks ==
    \A m \in Managers : fresh[m] => Reflects(m)

\* Once users stop writing Forks, every manager's Mappings end up, and stay,
\* those the Forks call for (requeue on error, NotFound -> UpdateAll, resync).
Converges ==
    <>[](\A m \in Managers : Reflects(m))

\* Spec 4.7: a Fork whose deadline is past is eventually deleted (unless a
\* user moves its deadline): the watcher's tick, its send, the reconcile's
\* own clock reading and the requeue after an error all have to work.
OverdueForksDeleted ==
    \A n \in {f.name : f \in ForkSpecs} :
        (n \in DOMAIN forks /\ forks[n].deadline # None /\ forks[n].deadline < now)
            ~> (n \notin DOMAIN forks \/ forks[n].deadline = None \/ forks[n].deadline >= now)

====
