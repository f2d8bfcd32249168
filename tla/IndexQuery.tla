----------------------------- MODULE IndexQuery -----------------------------
(***************************************************************************)
(* What an index answers: the export of a crawl database to a compact one   *)
(* (packages/lsp-crawler/src/runtime-export.ts) and the lookup in either    *)
(* (packages/index-core/src/code-index.ts).  All of it is pure; the         *)
(* properties say what a reader gets from the database that a crawl leaves. *)
(*                                                                         *)
(* The occurrences of a document do not overlap here, so a request names    *)
(* the occurrence that #findOccurrenceId finds.                             *)
(***************************************************************************)
EXTENDS Crawler

\* Only complete answers and hovers are copied; a compact index has the tables
\* of the graph when the crawl database has them.
exportRuntimeIndex(index) ==
    [index EXCEPT !.answers = [a \in DOMAIN @ |->
        IF @[a].status = "complete" THEN @[a] ELSE NoAnswer]]

-----------------------------------------------------------------------------
HasSymbol(index, o) == index.hasGraph /\ index.edges[o] # NoSymbol

AnswerLocations(index, o, kind) ==
    IF kind \in Kinds /\ Complete(index, o, kind) THEN index.answers[o, kind].locations
    ELSE {}

SymbolDefinitions(index, o) ==
    IF HasSymbol(index, o) THEN index.definitions[index.edges[o]] ELSE {}

\* Edges of the symbol and, when declarations are asked for, its definitions,
\* which may be in documents that have no edges.
SymbolReferences(index, o, includeDeclaration) ==
    LET edges == SameSymbol(index, o) IN
    IF includeDeclaration THEN edges \cup SymbolDefinitions(index, o)
    ELSE edges \ index.defining

definition(index, o) ==
    IF o \notin index.occurrences THEN {}
    ELSE IF SymbolDefinitions(index, o) # {} THEN SymbolDefinitions(index, o)
    ELSE AnswerLocations(index, o, "definition")

\* Mutant: stored declarations are not subtracted.
ReferencesKeepingDeclarations(index, o, includeDeclaration) ==
    IF o \notin index.occurrences THEN {}
    ELSE IF HasSymbol(index, o) THEN SymbolReferences(index, o, includeDeclaration)
    ELSE AnswerLocations(index, o, "references")

references(index, o, includeDeclaration) ==
    IF o \notin index.occurrences THEN {}
    ELSE IF HasSymbol(index, o) THEN SymbolReferences(index, o, includeDeclaration)
    ELSE AnswerLocations(index, o, "references")
           \ IF includeDeclaration THEN {}
             ELSE AnswerLocations(index, o, "definition")
                    \cup AnswerLocations(index, o, "declaration")

-----------------------------------------------------------------------------
(***************************************************************************)
(* Properties                                                              *)
(***************************************************************************)
Exported == exportRuntimeIndex(db)

\* Opened at any time, also in the middle of a crawl or after one that failed,
\* an index answers nothing that is not so: what it does not know is missing.
ServesNothingFalse ==
    \A o \in Occurrences :
        /\ definition(Exported, o) \subseteq Truth(db.documents, o, "definition")
        /\ \A includeDeclaration \in BOOLEAN :
              references(Exported, o, includeDeclaration)
                 \subseteq Truth(db.documents, o, "references")

\* After a crawl that reports success it answers all: for a document of the
\* graph, the references in the documents that the provider processed and the
\* definitions anywhere; for the others, what the server says.
ServesAll ==
    crawl.phase = "finished" =>
        \A o \in Named(db.documents) \ Of(UnsupportedDocs \cup RazorDocs) :
            LET inGraph   == crawl.provider /\ o[1] \in ProviderDocs
                defined   == Truth(db.documents, o, "definition")
                mentioned == Truth(db.documents, o, "references")
                expected  == IF inGraph
                               THEN (mentioned \cap Of(crawl.processed)) \cup defined
                               ELSE mentioned
            IN  \/ inGraph /\ o[1] \in OutsideSolution \ crawl.processed
                \/ /\ definition(Exported, o) = defined
                   /\ references(Exported, o, TRUE) = expected
                   /\ references(Exported, o, FALSE) = expected \ defined
=============================================================================
