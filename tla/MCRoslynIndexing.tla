-------------------------- MODULE MCRoslynIndexing --------------------------
(***************************************************************************)
(* A small instance of RoslynIndexing for TLC: three documents, of which one *)
(* is outside the solution, in two projects.                                *)
(***************************************************************************)
EXTENDS RoslynIndexing

CONSTANTS oldCommit, newCommit, core, tests

MCDocs       == 1..3
MCProjectsOf == [d \in MCDocs |-> CASE d = 1 -> {} [] d = 2 -> {core} [] d = 3 -> {core, tests}]

\* Below, at and above the limit of 3 bytes, alone and together.
MCLengths == {[d \in MCDocs |-> IF d = 2 THEN 4 ELSE 1],
              [d \in MCDocs |-> IF d = 1 THEN 1 ELSE 2]}
=============================================================================
