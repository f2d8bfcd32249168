---------------------------- MODULE GraphProvider ----------------------------
(***************************************************************************)
(* What a provider of a symbol graph promises to the crawl that asks it     *)
(* (SymbolGraphProvider, packages/lsp-crawler/src/crawler.ts): every        *)
(* document that it was given comes in one chunk, in the order in which they *)
(* were given, in chunks within the limits, each document found or missing,  *)
(* and when it ends it has left none out.                                   *)
(***************************************************************************)
EXTENDS Integers, FiniteSetsExt

CONSTANTS Docs, MaxDocuments, MaxBytes

VARIABLES
    length,    \* Docs -> Nat: the bytes of each document, in the order of their paths
    left,      \* documents that have not come in a chunk
    outcome    \* "none", "running", "ended" or "failed"

vars == <<length, left, outcome>>

Bytes(docs) == MapThenSumSet(LAMBDA d : length[d], docs)

\* A document that is larger than the limit is sent alone.
WithinLimits(chunk) ==
    /\ Cardinality(chunk) <= MaxDocuments
    /\ Bytes(chunk) <= MaxBytes \/ Cardinality(chunk) = 1

InOrder(chunk) == \A d \in chunk, e \in left \ chunk : d < e

Init == outcome = "none" /\ left = {} /\ length \in [Docs -> Nat]

Asked ==
    /\ outcome # "running"
    /\ outcome' = "running"
    /\ left' \in SUBSET Docs
    /\ UNCHANGED length

Chunk ==
    /\ outcome = "running"
    /\ \E chunk \in (SUBSET left) \ {{}} :
          /\ WithinLimits(chunk) /\ InOrder(chunk)
          /\ left' = left \ chunk
    /\ UNCHANGED <<length, outcome>>

Ends ==
    /\ outcome = "running" /\ left = {}
    /\ outcome' = "ended"
    /\ UNCHANGED <<length, left>>

Fails ==
    /\ outcome = "running"
    /\ outcome' = "failed" /\ left' = {}
    /\ UNCHANGED length

\* The crawl that had asked dies, or is followed by another.
Forgotten == outcome' = "none" /\ left' = {} /\ UNCHANGED length

Next == Asked \/ Chunk \/ Ends \/ Fails \/ Forgotten

Spec == Init /\ [][Next]_vars
=============================================================================
