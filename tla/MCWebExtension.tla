---------------------------- MODULE MCWebExtension ----------------------------
(***************************************************************************)
(* A small instance of WebExtension for TLC: two commits, one the parent of  *)
(* the other, in workspaces that tell their revision in each of the ways.    *)
(***************************************************************************)
EXTENDS WebExtension

CONSTANTS parent, child

MCCommits == {parent, child}
MCHistory == [c \in MCCommits |-> IF c = child THEN <<child, parent>> ELSE <<parent>>]

Repository(hub, ref) == [hub |-> hub, ref |-> ref, index |-> FALSE, roslyn |-> TRUE]
MCWorkspaces ==
    {Repository("registered", "named"), Repository("dormant", "named"),
     Repository("broken", "commit"), Repository("absent", "invalid"),
     [Repository("absent", "none") EXCEPT !.index = TRUE],
     [Repository("absent", "none") EXCEPT !.roslyn = FALSE]}

MCSettings == {[path |-> "none", commit |-> Automatic],
               [path |-> "desktop", commit |-> child],
               [path |-> "file", commit |-> Automatic],
               [path |-> "missing", commit |-> Automatic]}

\* Commands that overlap are looked at two at a time.
TwoWhenOverlapping ==
    overlapped => Cardinality({o \in Operations : ~ At(o, "unused")}) <= 2
=============================================================================
