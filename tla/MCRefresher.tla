---------------------------- MODULE MCRefresher ----------------------------
(***************************************************************************)
(* Model-checking instance of Refresher: two parents in one namespace, two *)
(* controller workers (only w1's controller watches the intent objects,    *)
(* as the VSConfig and Service controllers both refresh a Service's        *)
(* VirtualService), names and keys as short character sequences with the   *)
(* 63/60 name limits scaled down to 3/3.                                   *)
(***************************************************************************)
EXTENDS Refresher

CONSTANTS p1, p2, w1, w2

X == <<"x">>
Y == <<"y">>

\* a desired item: explicit name (<<>> for none), identity label, content
It(n, k, v) == [name |-> n, key |-> k, val |-> v]

MCParentName == (p1 :> <<"p">>) @@ (p2 :> <<"q">>)

\* p1: one child "a" keyed x, or that child changed plus a child whose
\* explicit name is longer than the limit; p2: one child without a name,
\* named by createResourceName(key, parent name).
MCDesiredLists ==
    (p1 :> { << It(<<"a">>, X, "v1") >>,
             << It(<<"a">>, X, "v2"), It(<<"d", "e", "f", "g">>, Y, "v1") >> })
    @@ (p2 :> { << It(<<>>, X, "v1") >>, << >> })

\* an unowned object keyed like a desired child, an owned child keyed x under
\* another name than the one desired, and an owned child without the label
MCInitStore ==
    (<<"z">> :> [owner |-> NoOwner, key |-> X, val |-> "v1"])
    @@ (<<"b">> :> [owner |-> p1, key |-> X, val |-> "v1"])
    @@ (<<"c">> :> [owner |-> p1, key |-> <<>>, val |-> "v1"])

\* the unowned object under the name createResourceName gives p2's child
\* (x-q), with p1's two children
MCInitStoreClash ==
    (<<"x", "-", "q">> :> [owner |-> NoOwner, key |-> X, val |-> "v1"])
    @@ (<<"b">> :> [owner |-> p1, key |-> X, val |-> "v1"])
    @@ (<<"c">> :> [owner |-> p1, key |-> <<>>, val |-> "v1"])

MCKeys == {X, Y, <<>>}

\* DeploymentCopy: Identity is GetName and the desired name is
\* "<deployment>-<fork>", longer than the limit
MCDesiredCopies ==
    (p1 :> { << It(<<"d", "e", "f", "g">>, X, "v1") >> }) @@ (p2 :> { << >> })
=============================================================================
