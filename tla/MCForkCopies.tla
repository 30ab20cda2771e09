----------------------------- MODULE MCForkCopies -----------------------------
(***************************************************************************)
(* Constants of ForkCopies for TLC: two Forks, two Services with one label *)
(* key, two Deployments.  Service a may change its selector from the pods  *)
(* of x to those of y; a Fork selects the app=1 objects or every one.      *)
(***************************************************************************)
EXTENDS ForkCopies

Labels(v) == "app" :> v
AnyLabels == [k \in {} |-> "1"]

Svc(l, sel) == [labels |-> Labels(l), selector |-> Labels(sel)]

\* a Fork written by hand selecting by sel, naming manager mgr
ForkOf(sel, mgr) ==
    LET ls == [matchLabels |-> sel, matchExpressions |-> <<>>]
    IN  [svcSel |-> ls, dplSel |-> ls, tmpl |-> None, ctrs |-> {}, replicas |-> None, mgr |-> mgr]

ForkSpec(sel) == ForkOf(sel, "ns/fm")

MCIdOf == ("f" :> "id-f") @@ ("g" :> "id-g")

MCDeployments ==
    ("x" :> [labels |-> Labels("1"), podLabels |-> Labels("1")]) @@
    ("y" :> [labels |-> Labels("2"), podLabels |-> Labels("2")])

MCInitServices == ("a" :> Svc("1", "1")) @@ ("b" :> Svc("2", "2"))

\* Service a keeps its labels and selects the pods of x or those of y
MCServiceVersions == {Svc("1", "1"), Svc("1", "2"), Svc("2", "2")}

\* a Fork of the app=1 objects, or of every object, or one whose manager
\* reference names no ForkManager
MCForkVersions == {ForkSpec(Labels("1")), ForkSpec(AnyLabels), ForkOf(Labels("1"), "ns/gone")}

MCInitForks == "f" :> ForkSpec(Labels("1"))

MCSvcSelectors == {Labels("1"), Labels("2")}
====
