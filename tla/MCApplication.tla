---------------------------- MODULE MCApplication ----------------------------
(***************************************************************************)
(* Constants of Application for TLC: two Services, two Deployments, one   *)
(* user label key with two values, so that every label map, selector and  *)
(* Fork of that vocabulary is reachable.                                   *)
(***************************************************************************)
EXTENDS Application

\* the non-empty Service selectors
MCSvcSelectors == {("app" :> "1"), ("app" :> "2")}

\* every Service selector, the empty one included
MCSvcSelectorsAll == MCSvcSelectors \cup {[k \in {} |-> "1"]}

\* no template, an empty label map, or a label map
MCTemplates == {None, [k \in {} |-> "1"], ("app" :> "2")}

MCTemplatesNoMeta == {None, NoMeta}
\* kubeforkctl manifest command lines: each documented option form, two
\* options at once and one the parser rejects; --service-name a with an
\* option on the same key (which replaces the name's label) and one on
\* another form; --deployment-name x with and without options
Cli(sl, sn, dl, dn) ==
    [svcLabel |-> sl, svcName |-> sn, dplLabel |-> dl, dplName |-> dn, image |-> "app:v2",
     replicas |-> 1]

MCCliArgs ==
    {Cli(o, None, <<>>, None) :
        o \in {<<>>, <<"app">>, <<"!app">>, <<"app=1">>, <<"app!=1">>,
               <<"app", "app!=2">>, <<"app=1=2">>}}
    \cup {Cli(<<"app=1">>, "a", <<"app=2">>, None), Cli(<<"app!=1">>, "a", <<"!app">>, None),
          Cli(<<>>, None, <<>>, "x"), Cli(<<"app">>, None, <<"app!=1">>, "x")}

\* Deployment x runs app and a sidecar from a registry with a port; y has
\* a container of the same name running another image
MCContainers ==
    ("x" :> {[name |-> "app", image |-> "app:v1"], [name |-> "proxy", image |-> "reg:5000/envoy:v1"]})
    @@ ("y" :> {[name |-> "app", image |-> "web:v1"]})

\* no command line (for the runs about Forks written by hand)
MCNoCliArgs == {}
====
