----------------------------- MODULE MCExtension -----------------------------
(***************************************************************************)
(* A small instance of Extension for TLC: two windows with the same commit   *)
(* checked out, which has two artifacts; its parent has one.                 *)
(***************************************************************************)
EXTENDS Extension

CONSTANTS left, right, parent, child

MCWindows    == {left, right}
MCCommits    == {parent, child}
MCHistory    == [c \in MCCommits |-> IF c = child THEN <<child, parent>> ELSE <<parent>>]
MCCheckedOut == [w \in MCWindows |-> child]

Artifact(commit, number) == [commit |-> commit, number |-> number]
MCArtifacts == {Artifact(parent, 1), Artifact(child, 2), Artifact(child, 3)}
MCPublished == {{Artifact(parent, 1)}}

MCSettings == {[local |-> FALSE, commit |-> Automatic],
               [local |-> FALSE, commit |-> child], [local |-> TRUE, commit |-> parent]}
\* Where documents are looked at, there are two operations at most.
FewWithDocuments ==
    budget.notices = MaxNotices \/ Cardinality({o \in Operations : ~ At(o, "unused")}) <= 2

Symmetry   == Permutations(MCWindows)
=============================================================================
