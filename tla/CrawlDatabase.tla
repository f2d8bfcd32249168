---------------------------- MODULE CrawlDatabase ----------------------------
(***************************************************************************)
(* The crawl database (packages/lsp-crawler/src/database.ts): documents,     *)
(* the occurrences found in them, the answers of the language server for     *)
(* each occurrence, and the graph of symbols.  Every operator here is one    *)
(* transaction: it takes the database and returns what it becomes.           *)
(*                                                                         *)
(* A location is an occurrence, a document and a position in it.  A content  *)
(* says which symbol each position names and where a symbol is defined, so   *)
(* it stands for its own hash.  An answer set is shared by content in the    *)
(* database, so it is represented by its set of locations.                   *)
(***************************************************************************)
EXTENDS Integers, Sequences, FiniteSets

CONSTANTS
    Docs,         \* the documents of the workspace
    Positions,    \* the ranges of a document, by their order
    Symbols,      \* what an identifier can name
    NoToken,      \* the position holds no identifier
    NoSymbol,     \* the occurrence has no edge in the symbol graph
    Contents,     \* what a document can contain
    Absent,       \* no such document, no such tokens
    Kinds,        \* the kinds of answer that the server supports
    InvalidUtf8   \* documents whose bytes are not valid UTF-8

Tokens      == [symbol : Symbols, isDefinition : BOOLEAN]
Occurrences == Docs \X Positions
AllKinds    == {"references", "definition", "declaration", "highlights", "hover"}

\* A row of occurrence_answers or hover_results, or no row.
Answers    == [status : {"none", "error", "complete"},
               locations : SUBSET Occurrences]
NoAnswer   == [status |-> "none", locations |-> {}]
Failed     == [status |-> "error", locations |-> {}]
Answer(locations) == [status |-> "complete", locations |-> locations]

ASSUME CrawlDatabaseAssumption ==
    /\ Positions \subseteq Nat /\ IsFiniteSet(Positions)
    /\ Contents \subseteq [Positions -> Tokens \cup {NoToken}]
    /\ NoToken \notin Tokens /\ NoSymbol \notin Symbols
    /\ Absent \notin Contents
    /\ Kinds \subseteq AllKinds
    /\ InvalidUtf8 \subseteq Docs

Databases ==
    [documents   : [Docs -> Contents \cup {Absent}],
     decoded     : SUBSET Docs,      \* hashed as decoded text, not as bytes
     tokens      : [Docs -> Contents \cup {Absent}],
     occurrences : SUBSET Occurrences,
     answers     : [Occurrences \X Kinds -> Answers],
     hasGraph    : BOOLEAN,          \* the tables of the graph exist
     edges       : [Occurrences -> Symbols \cup {NoSymbol}],
     defining    : SUBSET Occurrences,   \* edges with is_definition
     definitions : [Symbols -> SUBSET Occurrences]]

emptyDatabase ==
    [documents   |-> [d \in Docs |-> Absent],
     decoded     |-> {},
     tokens      |-> [d \in Docs |-> Absent],
     occurrences |-> {},
     answers     |-> [a \in Occurrences \X Kinds |-> NoAnswer],
     hasGraph    |-> FALSE,
     edges       |-> [o \in Occurrences |-> NoSymbol],
     defining    |-> {},
     definitions |-> [s \in Symbols |-> {}]]

ASSUME EmptyDatabaseAssumption == emptyDatabase \in Databases

Of(docs) == {o \in Occurrences : o[1] \in docs}

-----------------------------------------------------------------------------
(***************************************************************************)
(* Deletion, with its ON DELETE CASCADE.                                    *)
(***************************************************************************)
DeleteAnswers(db, occurrences, kinds) ==
    [db EXCEPT !.answers = [a \in DOMAIN @ |->
        IF a[1] \in occurrences /\ a[2] \in kinds THEN NoAnswer ELSE @[a]]]

\* A symbol without an occurrence is deleted, and its definitions with it.
DeleteEdges(db, occurrences) ==
    LET edges == [o \in Occurrences |->
                    IF o \in occurrences THEN NoSymbol ELSE db.edges[o]]
    IN  [db EXCEPT !.edges = edges,
                   !.defining = @ \ occurrences,
                   !.definitions = [s \in Symbols |->
                       IF \E o \in Occurrences : edges[o] = s THEN @[s] ELSE {}]]

resetDocumentOccurrences(db, docs) ==
    [DeleteEdges(DeleteAnswers(db, Of(docs), Kinds), Of(docs))
        EXCEPT !.occurrences = @ \ Of(docs)]

clearSymbolGraphForDocuments(db, docs) ==
    IF db.hasGraph
      THEN DeleteEdges(DeleteAnswers(db, Of(docs), {"definition", "declaration"}),
                       Of(docs))
      ELSE db

-----------------------------------------------------------------------------
(***************************************************************************)
(* Documents and occurrences                                               *)
(***************************************************************************)
Recorded(db) == {d \in Docs : db.documents[d] # Absent}

\* Synchronisation hashes the bytes of a file; a document that was recorded
\* afterwards has the hash of its decoded text, which differs when the bytes
\* are not valid UTF-8.
Changed(db, files) ==
    {d \in Recorded(db) : /\ files[d] # Absent
                          /\ \/ files[d] # db.documents[d]
                             \/ d \in InvalidUtf8 \cap db.decoded}

\* Mutant: a document that was removed invalidates nothing.
InvalidatesKeepingRemoved(db, files) ==
    /\ Recorded(db) # {}
    /\ \/ Changed(db, files) # {}
       \/ \E d \in Docs : files[d] # Absent /\ d \notin Recorded(db)

\* Mutant: every synchronisation that finds a document invalidates.
InvalidatesAlways(db, files) == Recorded(db) # {}

Invalidates(db, files) ==
    /\ Recorded(db) # {}
    /\ \/ Changed(db, files) # {}
       \/ {d \in Docs : files[d] # Absent} # Recorded(db)

synchronizeDocuments(db, files) ==
    LET gone == Changed(db, files) \cup {d \in Docs : files[d] = Absent}
        kept == [db EXCEPT !.documents = files, !.decoded = {},
                           !.occurrences = @ \ Of(gone)]
    IN  IF Invalidates(db, files)
          THEN [DeleteEdges(DeleteAnswers(kept, Occurrences, Kinds), Occurrences)
                   EXCEPT !.tokens = [d \in Docs |-> Absent]]
          ELSE kept

\* Only the row of the document: nothing is invalidated.
upsertDocument(db, d, content) ==
    [db EXCEPT !.documents[d] = content, !.decoded = @ \cup {d}]

saveSemanticTokens(db, d, content) == [db EXCEPT !.tokens[d] = content]

upsertOccurrences(db, d, positions) ==
    [db EXCEPT !.occurrences = @ \cup ({d} \X positions)]

-----------------------------------------------------------------------------
(***************************************************************************)
(* Answers                                                                 *)
(***************************************************************************)
Complete(db, o, kind) == db.answers[o, kind].status = "complete"

\* A hover is never answered by the graph (hasCompleteHover).
hasCompleteAnswer(db, o, kind) ==
    \/ Complete(db, o, kind)
    \/ /\ db.edges[o] # NoSymbol
       /\ \/ kind \in {"references", "highlights"}
          \/ kind = "definition" /\ db.definitions[db.edges[o]] # {}

\* Mutant: the EXISTS condition on the locations is missing.
SameReferencesOrNone(db, o) ==
    IF "references" \notin Kinds \/ ~ Complete(db, o, "references") THEN {}
    ELSE {x \in db.occurrences :
            db.answers[x, "references"] = db.answers[o, "references"]}

\* The empty set is shared by all the occurrences without a reference, which
\* makes them no siblings.
SameReferences(db, o) ==
    IF "references" \notin Kinds \/ ~ Complete(db, o, "references")
         \/ db.answers[o, "references"].locations = {}
      THEN {}
      ELSE {x \in db.occurrences :
              db.answers[x, "references"] = db.answers[o, "references"]}

SameSymbol(db, o) ==
    {x \in db.occurrences : db.edges[o] # NoSymbol /\ db.edges[x] = db.edges[o]}

\* The other occurrences that an answer is an answer for.
SpreadsTo(db, o, kind, locations) ==
    CASE kind = "references" -> db.occurrences \cap locations
      [] kind \in {"definition", "declaration"} ->
           SameSymbol(db, o) \cup SameReferences(db, o)
      [] kind = "highlights" -> SameReferences(db, o) \cap Of({o[1]})
      [] kind = "hover" -> {}

\* saveLocationAnswer and saveHover: the row is replaced, and what it spreads
\* to is answered where there is no row at all.
saveAnswer(db, o, kind, locations) ==
    [db EXCEPT !.answers = [a \in DOMAIN @ |->
        IF \/ a = <<o, kind>>
           \/ /\ a[2] = kind
              /\ a[1] \in SpreadsTo(db, o, kind, locations)
              /\ @[a] = NoAnswer
          THEN Answer(locations)
          ELSE @[a]]]

\* Whatever the row was, it is an error now.
saveAnswerError(db, o, kind) == [db EXCEPT !.answers[<<o, kind>>] = Failed]

\* When the references are not known, the caller has to ask the server.
KnowsReferences(db, o) == "references" \in Kinds /\ Complete(db, o, "references")

saveHighlightsFromReferences(db, o) ==
    saveAnswer(db, o, "highlights", db.answers[o, "references"].locations \cap Of({o[1]}))

-----------------------------------------------------------------------------
(***************************************************************************)
(* The symbol graph                                                        *)
(***************************************************************************)
\* symbols maps each occurrence of the chunk to the symbol it names, defining
\* are those that declare theirs; defined maps each symbol to its definitions.
\* An occurrence that has an edge fails the whole chunk.
Appendable(db, symbols) == \A o \in DOMAIN symbols : db.edges[o] = NoSymbol

appendSymbolGraph(db, symbols, defining, defined) ==
    [db EXCEPT
        !.hasGraph    = TRUE,
        !.occurrences = @ \cup DOMAIN symbols,
        !.edges       = [o \in Occurrences |->
                           IF o \in DOMAIN symbols THEN symbols[o] ELSE @[o]],
        !.defining    = @ \cup defining,
        !.definitions = [s \in Symbols |->
                           IF \E o \in DOMAIN symbols : symbols[o] = s
                             THEN @[s] \cup defined[s] ELSE @[s]]]
=============================================================================
