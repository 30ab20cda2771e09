----------------------------- MODULE Application -----------------------------
(***************************************************************************)
(* The desired copies of one Fork (domain/lister/internal): builder.Build  *)
(* and the three lists GenerateLists hands to the Refresher.               *)
(*                                                                         *)
(* Build lists the Services matched by the Fork's service selector and,    *)
(* for each, the Deployments matched by its deployment selector whose pod  *)
(* template the Service routes to; inverseMap turns that into, per         *)
(* Deployment, the Services routing to it.  From these it makes one        *)
(* DeploymentCopy per routable Deployment, one copied Service and one      *)
(* VSConfig per selected Service.  The copied Service selects the pods     *)
(* labelled routed-from-<service> and the Fork's identifier, which are the *)
(* labels the DeploymentCopies carry: the copies form their own network.   *)
(*                                                                         *)
(* Users change Services, Deployments and the Fork at any time; every      *)
(* state is an input the builder must handle.  Label maps are functions    *)
(* from keys to values; a Fork selector is a LabelSelector: matchLabels   *)
(* and a sequence of matchExpressions.  A Fork is written by hand, or is  *)
(* the manifest kubeforkctl generates from its options and the namespace  *)
(* as it is when the command runs (Manifest), whose template lists the   *)
(* containers that run the new image.                                     *)
(***************************************************************************)
EXTENDS Naturals, Sequences, FiniteSets, TLC, Manifest

CONSTANTS
    SvcNames, DeployNames,  \* names of Services and Deployments (strings)
    UserKeys,               \* label keys users put on objects
    UserValues,
    SvcSelectors,           \* spec.selector values Services may have
    ForkName,
    Identifier,
    HeaderKey,              \* the ForkManager's header key
    IdKey,                  \* "fork.k8s.wantedly.com/identifier"
    RoutedPrefix,           \* "fork.k8s.wantedly.com/routed-from-"
    Templates,              \* template overrides: None, NoMeta, or a label map
    None,
    NoMeta,                 \* a template with a spec and no metadata
    CliArgs,                \* kubeforkctl manifest command lines: [svcLabel,
                            \* svcName, dplLabel, dplName, image, replicas]
    Containers              \* [DeployNames -> set of [name, image]]: the
                            \* containers of each Deployment's pod template

VARIABLES
    services,       \* name -> [labels, selector]
    deployments,    \* name -> [labels, podLabels]
    fork,           \* [svcSel, dplSel, tmpl, ctrs, replicas]
    cli             \* history: the command line the Fork was generated
                    \* from, with the labels its names had and whether the
                    \* namespace is still as it was then; None if by hand

vars == <<services, deployments, fork, cli>>

LabelMaps == UNION {[K -> UserValues] : K \in SUBSET UserKeys}

(***************************************************************************)
(* The builder.                                                            *)
(***************************************************************************)

\* labels.Set(sel).AsSelector().Matches(labels): every pair of the selector
\* is in the label set (an empty selector matches everything)
Matches(sel, labs) == \A k \in DOMAIN sel : k \in DOMAIN labs /\ labs[k] = sel[k]

\* metav1.LabelSelectorAsSelector(sel).Matches(labels): the matchLabels and
\* every requirement (the three operators NewSelector produces)
SelectorMatches(sel, labs) ==
    /\ Matches(sel.matchLabels, labs)
    /\ \A i \in DOMAIN sel.matchExpressions :
          LET r == sel.matchExpressions[i]
          IN  CASE r.operator = "Exists"       -> r.key \in DOMAIN labs
                [] r.operator = "DoesNotExist" -> r.key \notin DOMAIN labs
                [] r.operator = "NotIn"        -> r.key \notin DOMAIN labs \/ labs[r.key] \notin Range(r.values)

\* routableFrom: the Service's selector matches the pod template's labels
RoutableFrom(d, s) == Matches(services[s].selector, deployments[d].podLabels)

\* forkTargetServices: no Services when spec.services is nil, else List
\* with the selector
ForkTargetServices ==
    IF fork.svcSel = None THEN {}
    ELSE {s \in DOMAIN services : SelectorMatches(fork.svcSel, services[s].labels)}

\* listDeploymentsRoutableFromSVC: none without a deployment selector, else
\* the listed Deployments the Service routes to
RoutableDeployments(s) ==
    IF fork.dplSel = None THEN {}
    ELSE {d \in DOMAIN deployments :
            SelectorMatches(fork.dplSel, deployments[d].labels) /\ RoutableFrom(d, s)}

\* mutant: a later Service replaces the earlier ones in the inverse map
InverseMapOverwriting(in) ==
    [d \in UNION {in[s] : s \in DOMAIN in} |->
        {CHOOSE s \in DOMAIN in : d \in in[s]}]

\* inverseMap: {a: [x, y], b: [y, z]} => {x: [a], y: [a, b], z: [b]}
InverseMap(in) ==
    [d \in UNION {in[s] : s \in DOMAIN in} |-> {s \in DOMAIN in : d \in in[s]}]

\* Build: serviceNameToDeployName, then the Deployments and their Services
DeployNameToServiceNames ==
    InverseMap([s \in ForkTargetServices |-> RoutableDeployments(s)])

RoutingLabelKey(s) == RoutedPrefix \o s

CopyName(n) == n \o "-" \o ForkName

\* mergeMap: later maps override earlier ones
MergeMap(a, b) == b @@ a

\* mutant: the copy targets the copy's own name
DeploymentCopyOfSelf(d, svcs) ==
    LET own == [k \in {IdKey} \cup {RoutingLabelKey(s) : s \in svcs} |->
                   IF k = IdKey THEN Identifier ELSE "true"]
    IN  [name     |-> CopyName(d),
         target   |-> CopyName(d),
         replicas |-> IF fork.replicas = None THEN 1 ELSE fork.replicas,
         labels   |-> CASE fork.tmpl = None   -> own
                        [] fork.tmpl = NoMeta -> NoMeta
                        [] OTHER              -> MergeMap(own, fork.tmpl),
         containers |-> IF fork.tmpl = None THEN {} ELSE fork.ctrs]

\* copyableDeployment.buildCopy and buildDeploymentCopySpec; reading the
\* template's labels dereferences its metadata (nil for NoMeta: a panic,
\* which Build reports as the value NoMeta); the template's containers
\* become the copy's TargetContainers
DeploymentCopy(d, svcs) ==
    LET own == [k \in {IdKey} \cup {RoutingLabelKey(s) : s \in svcs} |->
                   IF k = IdKey THEN Identifier ELSE "true"]
    IN  [name     |-> CopyName(d),
         target   |-> d,
         replicas |-> IF fork.replicas = None THEN 1 ELSE fork.replicas,
         labels   |-> CASE fork.tmpl = None   -> own
                        [] fork.tmpl = NoMeta -> NoMeta
                        [] OTHER              -> MergeMap(own, fork.tmpl),
         containers |-> IF fork.tmpl = None THEN {} ELSE fork.ctrs]

\* copyableService.buildCopy with the labels generateServices adds
ServiceCopy(s) ==
    [name     |-> CopyName(s),
     selector |-> [k \in {RoutingLabelKey(s), IdKey} |->
                     IF k = IdKey THEN Identifier ELSE "true"],
     origin   |-> s]

\* copyableService.buildVSConfig
VSConfigOf(s) ==
    [name |-> CopyName(s), host |-> s, service |-> CopyName(s),
     headerName |-> HeaderKey, headerValue |-> Identifier]

\* GenerateLists: the three desired lists
DeploymentCopies ==
    LET inv == DeployNameToServiceNames
    IN  {DeploymentCopy(d, inv[d]) : d \in DOMAIN inv}

ServiceCopies == {ServiceCopy(s) : s \in ForkTargetServices}

VSConfigs == {VSConfigOf(s) : s \in ForkTargetServices}

(***************************************************************************)
(* Users.                                                                  *)
(***************************************************************************)

\* the history after a write to the namespace
Moved(h) == IF h = None THEN None ELSE [h EXCEPT !.asApplied = FALSE]

WriteService(n, svc) ==
    /\ ~(n \in DOMAIN services /\ services[n] = svc)
    /\ services' = (n :> svc) @@ services
    /\ cli' = Moved(cli)
    /\ UNCHANGED <<deployments, fork>>

DeleteService(n) ==
    /\ n \in DOMAIN services
    /\ services' = [j \in DOMAIN services \ {n} |-> services[j]]
    /\ cli' = Moved(cli)
    /\ UNCHANGED <<deployments, fork>>

WriteDeployment(n, dpl) ==
    /\ ~(n \in DOMAIN deployments /\ deployments[n] = dpl)
    /\ deployments' = (n :> dpl) @@ deployments
    /\ cli' = Moved(cli)
    /\ UNCHANGED <<services, fork>>

DeleteDeployment(n) ==
    /\ n \in DOMAIN deployments
    /\ deployments' = [j \in DOMAIN deployments \ {n} |-> deployments[j]]
    /\ cli' = Moved(cli)
    /\ UNCHANGED <<services, fork>>

WriteFork(f) ==
    /\ f # fork
    /\ fork' = f
    /\ cli' = None
    /\ UNCHANGED <<services, deployments>>

EmptyLabels == [k \in {} |-> None]

\* mutant: the whole image, tag included, is compared
ImageNameFull(img) == img

\* strings.Split(image, ":")[0]: the text before the image's first ':'
ImageName(img) == Split(img, ":")[1]

\* the containers of each Deployment whose image has the name of the image
\* of a command line (the comparison in GetAllContainers..., on constants)
ImageHits ==
    [d \in DeployNames |->
        [img \in {a.image : a \in CliArgs} |->
            {c \in Containers[d] : ImageName(c.image) = ImageName(img)}]]

\* GetAllContainersByImageNameAndServiceAndDeploymentSelector: for each
\* Service the service selector lists, the Deployments whose labels match
\* its spec.selector merged with the deployment selector's matchLabels
\* (lib.Merge: these win) and its matchExpressions; of their containers,
\* the names of those whose image has the same name as imageName
GetAllContainers(imageName, serviceSelector, deploymentSelector) ==
    LET ss == {s \in DOMAIN services : SelectorMatches(serviceSelector, services[s].labels)}
        merged(s) == [matchLabels |-> MergeMap(services[s].selector, deploymentSelector.matchLabels),
                      matchExpressions |-> deploymentSelector.matchExpressions]
        ds == {d \in DOMAIN deployments :
                 ImageHits[d][imageName] # {} /\ \E s \in ss : SelectorMatches(merged(s), deployments[d].labels)}
    IN  {c.name : c \in UNION {ImageHits[d][imageName] : d \in ds}}

\* manifestRun, then the manifest applied: the labels of --service-name and
\* --deployment-name are read (a Get that fails ends the command), both
\* selectors are parsed (an invalid option ends it), the containers of the
\* image are listed, and the Fork becomes the manifest
ApplyManifest(a) ==
    /\ a.svcName \in DOMAIN services \cup {None}
    /\ a.dplName \in DOMAIN deployments \cup {None}
    /\ LET svcLabels == IF a.svcName = None THEN EmptyLabels ELSE services[a.svcName].labels
           dplLabels == IF a.dplName = None THEN EmptyLabels ELSE deployments[a.dplName].labels
           svcSel    == NewSelector(a.svcLabel, svcLabels)
           dplSel    == NewSelector(a.dplLabel, dplLabels)
       IN  /\ ~svcSel.err /\ ~dplSel.err
           /\ fork' = NewFork(Identifier, a.replicas, svcSel, dplSel,
                             NewContainers(a.image, GetAllContainers(a.image, AsLabelSelector(svcSel),
                                                                     AsLabelSelector(dplSel))))
           /\ cli' = [a EXCEPT !.svcName = svcLabels, !.dplName = dplLabels] @@ [asApplied |-> TRUE]
    /\ UNCHANGED <<services, deployments>>

\* a selector written by hand: matchLabels only
ByHand == {[matchLabels |-> m, matchExpressions |-> <<>>] : m \in LabelMaps}

ForkSpecs ==
    [svcSel : ByHand \cup {None}, dplSel : ByHand \cup {None},
     tmpl : Templates, ctrs : {{}}, replicas : {None}]

Init ==
    /\ services = [n \in {} |-> None]
    /\ deployments = [n \in {} |-> None]
    /\ fork = [svcSel |-> None, dplSel |-> None, tmpl |-> None, ctrs |-> {}, replicas |-> None]
    /\ cli = None

Next ==
    \/ \E n \in SvcNames, l \in LabelMaps, sel \in SvcSelectors :
          WriteService(n, [labels |-> l, selector |-> sel])
    \/ \E n \in DOMAIN services : DeleteService(n)
    \/ \E n \in DeployNames, l \in LabelMaps, p \in LabelMaps :
          WriteDeployment(n, [labels |-> l, podLabels |-> p])
    \/ \E n \in DOMAIN deployments : DeleteDeployment(n)
    \/ \E f \in ForkSpecs : WriteFork(f)
    \/ \E a \in CliArgs : ApplyManifest(a)

Spec == Init /\ [][Next]_vars

(***************************************************************************)
(* Properties.                                                             *)
(***************************************************************************)

\* The inputs have their types, and every DeploymentCopy names a Deployment
\* of the namespace as its target.
TypeOK ==
    /\ DOMAIN services \subseteq SvcNames
    /\ DOMAIN deployments \subseteq DeployNames
    /\ \/ cli = None /\ fork \in ForkSpecs
       \/ cli.svcName \in LabelMaps /\ cli.dplName \in LabelMaps
    /\ \A c \in DeploymentCopies :
          c.target \in DOMAIN deployments /\ c.replicas \in Nat

\* Build returns for every Fork the API server accepts (a panic in a
\* reconcile stops the process, and the Fork is reconciled again on start).
BuildTotal ==
    \A c \in DeploymentCopies : c.labels # NoMeta

\* The copies form the network of the originals (spec 4.3, 4.6): for every
\* forked Service s and forked Deployment d, the copy of s selects the
\* copy of d exactly when s, as Kubernetes reads its selector (an empty one
\* selects no pod), selects d's pods; a Deployment is copied only if some
\* forked Service routes to it; and each forked Service has a VSConfig
\* sending the Fork's header to its copy.
CopiesMirrorRouting ==
    LET forkedSvcs == {c.origin : c \in ServiceCopies}
        within(sel, labs) == \A k \in DOMAIN sel : k \in DOMAIN labs /\ labs[k] = sel[k]
        selects(sel, labs) == DOMAIN sel # {} /\ within(sel, labs)
        forked(d) == fork.dplSel # None /\ SelectorMatches(fork.dplSel, deployments[d].labels)
    IN  /\ \A c \in DeploymentCopies :
              \E s \in forkedSvcs : selects(services[s].selector, deployments[c.target].podLabels)
        /\ \A s \in forkedSvcs, d \in DOMAIN deployments :
              forked(d) /\ selects(services[s].selector, deployments[d].podLabels)
                 => \E c \in DeploymentCopies : c.target = d
        /\ \A sc \in ServiceCopies, c \in DeploymentCopies :
              within(sc.selector, c.labels)
                 <=> selects(services[sc.origin].selector, deployments[c.target].podLabels)
        /\ \A sc \in ServiceCopies :
              \E v \in VSConfigs : v.host = sc.origin /\ v.service = sc.name /\ v.headerValue = Identifier

\* The documented meaning of a kubeforkctl label option (the help text of
\* --service-label and --deployment-label): '<key>' asks for the key,
\* '!<key>' for its absence, '<key>=<value>' for the value and
\* '<key>!=<value>' for any other value or none.
OptionHolds(o, labs) ==
    \E k \in UserKeys, v \in UserValues :
        \/ o = k /\ k \in DOMAIN labs
        \/ o = "!" \o k /\ k \notin DOMAIN labs
        \/ o = k \o "=" \o v /\ k \in DOMAIN labs /\ labs[k] = v
        \/ o = k \o "!=" \o v /\ (k \notin DOMAIN labs \/ labs[k] # v)

\* every option holds, and every label of the named object that no
\* '<key>=<value>' option replaces (domain/fork.go's NOTE, and its test)
OptionsSelect(opts, named, labs) ==
    /\ \A i \in DOMAIN opts : OptionHolds(opts[i], labs)
    /\ \A k \in DOMAIN named :
          \/ \E v \in UserValues : \E i \in DOMAIN opts : opts[i] = k \o "=" \o v
          \/ k \in DOMAIN labs /\ labs[k] = named[k]

\* A Fork generated by kubeforkctl manifest forks the objects its options
\* describe: whatever the Services and Deployments have become since the
\* command ran, the controller's forkTargetServices holds exactly the
\* Services whose labels satisfy --service-label and the labels --service-
\* name had, and its Deployment selector matches exactly the Deployments
\* satisfying --deployment-label and --deployment-name's labels.  It takes
\* NewSelector's split-based parse, NewFork and LabelSelectorAsSelector's
\* matching to agree.
SelectorsFollowOptions ==
    cli # None =>
        /\ \A s \in DOMAIN services :
              s \in ForkTargetServices <=> OptionsSelect(cli.svcLabel, cli.svcName, services[s].labels)
        /\ \A d \in DOMAIN deployments :
              SelectorMatches(fork.dplSel, deployments[d].labels)
                 <=> OptionsSelect(cli.dplLabel, cli.dplName, deployments[d].labels)

\* The repository of an image reference, '[host[:port]/]path[:tag]': all
\* of it but the tag, which follows the last ':' after the last '/'.
Repository(img) ==
    LET parts == Split(img, "/")
    IN  <<Front(parts), Split(Last(parts), ":")[1]>>

\* the containers of each Deployment that run the repository of the image of
\* a command line
SameRepository ==
    [d \in DeployNames |->
        [img \in {a.image : a \in CliArgs} |->
            {c \in Containers[d] : Repository(c.image) = Repository(img)}]]

\* Under the NOTE of k8sClientGo.go:80 (a Deployment's labels are those of
\* its pods), applying a manifest of kubeforkctl switches the image of
\* every container the Fork copies that runs the repository of --image: in
\* each DeploymentCopy the controller builds from the new Fork on the
\* namespace the command read, every such container of the target is a
\* target container with the new image.  It takes the CLI's Service and
\* Deployment Lists, the selector merge and the image comparison to pick
\* what the controller's routableFrom copies.
ManifestSwitchesImage ==
    cli # None /\ cli.asApplied =>
        \A dc \in DeploymentCopies :
           deployments[dc.target].labels = deployments[dc.target].podLabels =>
              \A c \in SameRepository[dc.target][cli.image] :
                 [name |-> c.name, image |-> cli.image] \in dc.containers

====
