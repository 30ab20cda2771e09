------------------------- MODULE MCForkController --------------------------
(***************************************************************************)
(* Constants of ForkController for TLC.  Hosts and identifiers are short  *)
(* sequences of characters, so that the Mapping name (dots replaced by     *)
(* dashes) is computed as in mapping.go:75.                                *)
(***************************************************************************)
EXTENDS ForkController

CONSTANTS m1, m2

NoHeaders == [h \in {} |-> <<>>]

AB == <<"a", ".", "b">>
E  == <<"e">>
C  == <<"c">>
D  == <<"d">>

Fork(n, id, mgr, hs, ups, dl) ==
    [name |-> n, id |-> id, mgr |-> mgr, headers |-> hs, upgrades |-> ups, deadline |-> dl]

MCMgrNs        == (m1 :> "ns1") @@ (m2 :> "ns2")
MCMgrNsShared  == (m1 :> "ns1") @@ (m2 :> "ns1")
MCMgrName      == (m1 :> "fm") @@ (m2 :> "fm2")
MCMgrNameSame  == (m1 :> "fm") @@ (m2 :> "fm")
MCUpstreams    == (m1 :> <<AB, E>>) @@ (m2 :> <<E>>)
MCHeaderKey    == (m1 :> "x-fork") @@ (m2 :> "x-fork")

S1 == <<MgrNs[m1], MgrName[m1]>>
S2 == <<MgrNs[m2], MgrName[m2]>>

\* fork 1 of m1 (gains a header and an upgrade protocol), fork 2 of the same
\* identifier under m2, fork 3 with a malformed manager, fork 4 naming a
\* manager that does not exist
MCForkSpecs ==
    { Fork(1, C, S1, NoHeaders, {}, None),
      Fork(1, C, S1, ("h1" :> <<"v">>), {"spdy"}, None),
      Fork(2, C, S2, ("h1" :> <<"w">>), {}, None),
      Fork(3, D, Malformed, NoHeaders, {}, None),
      Fork(4, D, <<"ns1", "gone">>, NoHeaders, {}, None) }

MCInitForks == (1 :> Fork(1, C, S1, NoHeaders, {}, None)) @@ (2 :> Fork(2, C, S2, ("h1" :> <<"w">>), {}, None))

\* a stale Mapping of m1 for identifier d, and an unowned one at a name m1 wants
MCInitMappings ==
    (<<"ns1", <<"e", "-", "d">> >> :>
        [owner |-> m1, label |-> "fm", route |-> <<D, E>>,
         headers |-> NoHeaders, upgrades |-> {}]) @@
    (<<"ns1", <<"e", "-", "c">> >> :>
        [owner |-> NoOwner, label |-> "other", route |-> <<C, E>>,
         headers |-> NoHeaders, upgrades |-> {}])

\* forks that all name m1; fork 2 is written with or without a past deadline
MCForkSpecsOne ==
    { Fork(1, C, S1, NoHeaders, {}, None),
      Fork(1, C, S1, ("h1" :> <<"v">>), {"spdy"}, None),
      Fork(2, D, S1, ("h1" :> <<"w">>), {}, 0),
      Fork(2, D, S1, ("h1" :> <<"w">>), {}, None) }

MCInitForksOne == (1 :> Fork(1, C, S1, NoHeaders, {}, None)) @@ (2 :> Fork(2, D, S1, ("h1" :> <<"w">>), {}, 0))

\* fork 1 is overdue once the clock ticks, fork 2 (listed after it) has no deadline
MCForkSpecsAlias ==
    { Fork(1, C, S1, NoHeaders, {}, 0),
      Fork(2, D, S1, NoHeaders, {}, None) }
MCInitForksAlias == (1 :> Fork(1, C, S1, NoHeaders, {}, 0)) @@ (2 :> Fork(2, D, S1, NoHeaders, {}, None))

MCAuthority == <<"%">>
=============================================================================
