------------------------------ MODULE Manifest ------------------------------
(***************************************************************************)
(* kubeforkctl manifest (kubeforkctl/cmd/manifest.go, domain/fork.go): the *)
(* Fork a user applies, built from the command-line options.               *)
(*                                                                         *)
(* --service-label and --deployment-label are parsed by NewSelector: each  *)
(* option string is classified by how strings.Split cuts it at "!=", "="   *)
(* and "!", and becomes a matchExpression or a matchLabel added to the     *)
(* labels of the object named by --service-name / --deployment-name.       *)
(* NewFork puts both selectors, the replica count and the template labels  *)
(* app=<identifier>, role=fork into the Fork, with one container per name *)
(* chosen, running the new image.  Strings are TLA+ strings: the parse is *)
(* about their characters.  The environment, annotations, the deadline    *)
(* and the YAML output are not modelled.                                   *)
(***************************************************************************)
EXTENDS Naturals, SequencesExt

\* the lowest index at which sep occurs in s, 0 if none
IndexOf(s, sep) ==
    LET at == {i \in 1..Len(s) : i + Len(sep) - 1 <= Len(s) /\ SubSeq(s, i, i + Len(sep) - 1) = sep}
    IN  IF at = {} THEN 0 ELSE CHOOSE i \in at : \A j \in at : i <= j

\* strings.Split(s, sep), sep non-empty: the pieces between the
\* non-overlapping occurrences of sep, scanning from the left
RECURSIVE Split(_, _)
Split(s, sep) ==
    LET i == IndexOf(s, sep)
    IN  IF i = 0 THEN <<s>>
        ELSE <<SubSeq(s, 1, i - 1)>> \o Split(SubSeq(s, i + Len(sep), Len(s)), sep)

\* a metav1.LabelSelectorRequirement
Requirement(k, op, vals) == [key |-> k, operator |-> op, values |-> vals]

\* mutant: '!<key>' takes the piece before the "!" as its key
ParseLabelExcFirst(sel, l) ==
    LET ne == Split(l, "!=")
        eq == Split(l, "=")
        ex == Split(l, "!")
    IN  IF sel.err THEN sel
        ELSE CASE Len(ne) = 2 ->
                    [sel EXCEPT !.matchExpressions = Append(@, Requirement(ne[1], "NotIn", <<ne[2]>>))]
               [] Len(eq) = 1 /\ Len(ex) = 1 ->
                    [sel EXCEPT !.matchExpressions = Append(@, Requirement(l, "Exists", <<>>))]
               [] Len(eq) = 1 /\ Len(ex) = 2 ->
                    [sel EXCEPT !.matchExpressions = Append(@, Requirement(ex[1], "DoesNotExist", <<>>))]
               [] Len(eq) = 2 /\ Len(ex) = 1 ->
                    [sel EXCEPT !.matchLabels = (eq[1] :> eq[2]) @@ @]
               [] OTHER -> [sel EXCEPT !.err = TRUE]

\* one iteration of NewSelector's loop: the option l classified by the
\* lengths of its three splits; an invalid one returns the error
ParseLabel(sel, l) ==
    LET ne == Split(l, "!=")
        eq == Split(l, "=")
        ex == Split(l, "!")
    IN  IF sel.err THEN sel
        ELSE CASE Len(ne) = 2 ->
                    [sel EXCEPT !.matchExpressions = Append(@, Requirement(ne[1], "NotIn", <<ne[2]>>))]
               [] Len(eq) = 1 /\ Len(ex) = 1 ->
                    [sel EXCEPT !.matchExpressions = Append(@, Requirement(l, "Exists", <<>>))]
               [] Len(eq) = 1 /\ Len(ex) = 2 ->
                    [sel EXCEPT !.matchExpressions = Append(@, Requirement(ex[2], "DoesNotExist", <<>>))]
               [] Len(eq) = 2 /\ Len(ex) = 1 ->
                    [sel EXCEPT !.matchLabels = (eq[1] :> eq[2]) @@ @]
               [] OTHER -> [sel EXCEPT !.err = TRUE]

\* NewSelector(labelFromOption, labelFromName): the name's labels, with the
\* options applied in order (a <key>=<value> overrides the name's value)
NewSelector(labelFromOption, labelFromName) ==
    FoldLeft(ParseLabel,
             [err |-> FALSE, matchLabels |-> labelFromName, matchExpressions |-> <<>>],
             labelFromOption)

\* the LabelSelector the Fork carries
AsLabelSelector(sel) == [matchLabels |-> sel.matchLabels, matchExpressions |-> sel.matchExpressions]

\* NewContainers: one container per name, running the new image (its env,
\* FORK_IDENTIFIER and the --env pairs, is left out: nothing reads it)
NewContainers(image, containerNames) ==
    {[name |-> n, image |-> image] : n \in containerNames}

\* NewFork: both selectors set, the replica count, and a template whose
\* metadata labels are app=<identifier>, role=fork and whose spec has the
\* containers
NewFork(identifier, replicaNum, serviceSelector, deploymentSelector, containers) ==
    [svcSel   |-> AsLabelSelector(serviceSelector),
     dplSel   |-> AsLabelSelector(deploymentSelector),
     tmpl     |-> ("app" :> identifier) @@ ("role" :> "fork"),
     ctrs     |-> containers,
     replicas |-> replicaNum]

====
