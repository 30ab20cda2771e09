------------------------------ MODULE ChildStore ------------------------------
(***************************************************************************)
(* What the reconciliation engine (pkg/refresh) promises the rest of the   *)
(* cluster, with none of its steps: the live objects of one kind change    *)
(* only by a parent's writing one of its desired items under a name that   *)
(* is free or already its own, by a parent's removing an object it owns,   *)
(* or by a user's changing the intent objects.  An object with no owner    *)
(* reference, or another parent's, is never touched (spec.md, "Live child  *)
(* resource").  Which names, and which of the items, is left open: the     *)
(* engine may work from a stale list, and a Refresh may stop half done.    *)
(***************************************************************************)
EXTENDS Naturals, Sequences, Functions, TLC

CONSTANTS
    Parents,        \* parent objects
    Names,          \* names a child may be written under
    NoOwner,        \* owner of an object with no controller reference
    DesiredLists,   \* [Parents -> set of lists of items a builder may produce]
    InitStore       \* the live objects at start

VARIABLES
    store,          \* the live objects: name -> [owner, key, val]
    intent          \* the list the builder would produce now, per parent

vars == <<store, intent>>

\* every item any list of p may hold
Items(p) == UNION {Range(l) : l \in DesiredLists[p]}

\* the object that stands for item it of p
Child(p, it) == [owner |-> p, key |-> it.key, val |-> it.val]

\* p may write name n: nothing lives there, or p controls what does
Eligible(p, n) == n \notin DOMAIN store \/ store[n].owner = p

Write(p, n, it) ==
    /\ Eligible(p, n)
    /\ store' = (n :> Child(p, it)) @@ store
    /\ UNCHANGED intent

Remove(p, n) ==
    /\ n \in DOMAIN store
    /\ store[n].owner = p
    /\ store' = Restrict(store, DOMAIN store \ {n})
    /\ UNCHANGED intent

ChangeIntent(p, l) ==
    /\ intent' = [intent EXCEPT ![p] = l]
    /\ UNCHANGED store

Init ==
    /\ store = InitStore
    /\ intent \in {f \in [Parents -> UNION {DesiredLists[p] : p \in Parents}] :
                      \A p \in Parents : f[p] \in DesiredLists[p]}

Next ==
    \E p \in Parents :
        \/ \E n \in Names, it \in Items(p) : Write(p, n, it)
        \/ \E n \in Names : Remove(p, n)
        \/ \E l \in DesiredLists[p] : ChangeIntent(p, l)

Spec == Init /\ [][Next]_vars

====
