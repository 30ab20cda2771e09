------------------------ MODULE VirtualServiceLister ------------------------
(***************************************************************************)
(* The desired VirtualService of a Service (domain/lister/virtualservice.go)*)
(*                                                                         *)
(* Build lists the VSConfigs of the namespace, in whatever order the API   *)
(* server returns them, sorts them by name and gets the Service.           *)
(* buildHTTPRoutes keeps the VSConfigs for this host with a header value,  *)
(* one exact-match route each, and appends the default route to the       *)
(* Service itself; buildVirtualService emits a VirtualService only when    *)
(* some VSConfig contributed a route.  Users create, change and delete     *)
(* VSConfigs at any time; every state is an input the builder must handle. *)
(***************************************************************************)
EXTENDS Naturals, Sequences, FiniteSets, SequencesExt

CONSTANTS
    ConfigNames,    \* names of VSConfigs, as numbers in the order of the strings
    Hosts,          \* service names a VSConfig may target
    HeaderNames,
    HeaderValues,   \* includes Empty
    Targets,        \* destination services of the routes
    Empty           \* ""

VARIABLES
    vsconfigs       \* the VSConfigs of the namespace: name -> VSConfig

vars == <<vsconfigs>>

VSConfig == [host : Hosts, headerName : HeaderNames, headerValue : HeaderValues,
             service : Targets]

(***************************************************************************)
(* The builder.                                                            *)
(***************************************************************************)

\* an item of the VSConfigList returned by List: the object with its name
Listed(n) == [name |-> n] @@ vsconfigs[n]

\* mutant: the list is used in the order the API server returned it
SortByNameMissing(items) == items

\* sort.Slice(configs.Items, by ObjectMeta.Name) (names are unique)
SortByName(items) == SortSeq(items, LAMBDA a, b : a.name < b.name)

\* the HTTPRoute of one VSConfig: an exact match on its header, to its service
HeaderRoute(c) == [match |-> {<<c.headerName, c.headerValue>>}, dest |-> c.service]

\* the default route: no match, back to the Service
DefaultRoute(svc) == [match |-> {}, dest |-> svc]

\* the skip condition of the loop: another host, or no header value
Contributes(c, svc) == c.host = svc /\ c.headerValue # Empty

\* buildHTTPRoutes over the sorted configs
BuildHTTPRoutes(sorted, svc) ==
    LET kept == SelectSeq(sorted, LAMBDA c : Contributes(c, svc))
    IN  [i \in 1..Len(kept) |-> HeaderRoute(kept[i])] \o <<DefaultRoute(svc)>>

\* buildVirtualService: named after the Service, labelled with it, one host
BuildVirtualService(sorted, svc) ==
    LET routes == BuildHTTPRoutes(sorted, svc)
    IN  IF Len(routes) > 1
        THEN <<[name |-> svc, label |-> svc, hosts |-> <<svc>>, http |-> routes]>>
        ELSE <<>>

\* Build then GenerateLists for Service svc, from one List order (the Get
\* of the Service only turns a missing Service into an error)
Desired(order, svc) ==
    BuildVirtualService(SortByName([i \in 1..Len(order) |-> Listed(order[i])]), svc)

(***************************************************************************)
(* Users.                                                                  *)
(***************************************************************************)

WriteConfig(n, c) ==
    /\ ~(n \in DOMAIN vsconfigs /\ vsconfigs[n] = c)
    /\ vsconfigs' = (n :> c) @@ vsconfigs

DeleteConfig(n) ==
    /\ n \in DOMAIN vsconfigs
    /\ vsconfigs' = [j \in DOMAIN vsconfigs \ {n} |-> vsconfigs[j]]

Init == vsconfigs = [n \in {} |-> CHOOSE c \in VSConfig : TRUE]

Next ==
    \/ \E n \in ConfigNames, c \in VSConfig : WriteConfig(n, c)
    \/ \E n \in DOMAIN vsconfigs : DeleteConfig(n)

Spec == Init /\ [][Next]_vars

(***************************************************************************)
(* Properties.                                                             *)
(***************************************************************************)

\* a match never tests a header against the empty value
Route == [match : SUBSET (HeaderNames \X (HeaderValues \ {Empty})), dest : Hosts \cup Targets]

VirtualService == [name : Hosts, label : Hosts, hosts : Seq(Hosts), http : Seq(Route)]

\* Spec 4.5 by rank: the VSConfigs of svc with a header value, each at the
\* position given by the number of such VSConfigs with a smaller name, and
\* the default route after them.
Eligible(svc) ==
    {n \in DOMAIN vsconfigs : vsconfigs[n].host = svc /\ vsconfigs[n].headerValue # Empty}

RefRoutes(svc) ==
    LET el      == Eligible(svc)
        rank(n) == Cardinality({j \in el : j < n}) + 1
        at(i)   == CHOOSE n \in el : rank(n) = i
    IN  [i \in 1..Cardinality(el) + 1 |->
            IF i > Cardinality(el) THEN [match |-> {}, dest |-> svc]
            ELSE [match |-> {<<vsconfigs[at(i)].headerName, vsconfigs[at(i)].headerValue>>},
                  dest  |-> vsconfigs[at(i)].service]]

\* Whatever order List returns the VSConfigs in, the desired VirtualService
\* of an existing Service routes exactly the spec 4.5 way: one exact-match
\* route per VSConfig of the host with a non-empty header value, in name
\* order (the first match wins), then the default route; and there is one
\* only when some VSConfig contributes (buildHTTPRoutes, buildVirtualService).
RoutesFollowSpec ==
    \A svc \in Hosts, order \in SetToSeqs(DOMAIN vsconfigs) :
        LET out == Desired(order, svc)
        IN  IF Eligible(svc) = {} THEN out = <<>>
            ELSE /\ Len(out) = 1
                 /\ out[1].http = RefRoutes(svc)

====
