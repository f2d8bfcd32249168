-------------------------- MODULE MCHostedIndexing --------------------------
(***************************************************************************)
(* Small instances of HostedIndexing for TLC: one or two commits, the first *)
(* listed as main and the second as a pull request.                         *)
(***************************************************************************)
EXTENDS HostedIndexing

CONSTANTS a, b, mainRef, pullRef

MCShas    == {a, b}
MCOneSha  == {a}
MCSources == {mainRef, pullRef}

MainOnly  == <<[sha |-> a, source |-> mainRef]>>
MainFirst == <<[sha |-> a, source |-> mainRef], [sha |-> b, source |-> pullRef]>>
PullOnly  == <<[sha |-> a, source |-> pullRef]>>

\* A pull request is merged by fast-forward: main is at its commit.
SourceChanges  == {MainOnly, PullOnly}
StableListings == {MainFirst}
\* The pull request is closed, and may be opened again at the same commit.
PullClosed     == {MainFirst, MainOnly}

\* Of all that the budget allows, three things happen.
ThreeEvents ==
    budget.faults + budget.resets + budget.reruns + budget.listings
      >= MaxFaults + MaxResets + MaxReruns + MaxListings - 3
=============================================================================
