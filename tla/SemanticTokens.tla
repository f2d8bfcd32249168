---------------------------- MODULE SemanticTokens ----------------------------
(***************************************************************************)
(* Semantic highlighting from a language server to an editor:               *)
(* semanticTokenCandidates (packages/lsp-crawler/src/crawler.ts) decodes the *)
(* server's tokens and maps them to the editor's coordinates,               *)
(* saveSemanticTokens (database.ts) renumbers them for the one legend of the *)
(* index, and CodeIndex (packages/index-core/src/code-index.ts) hands them   *)
(* to an editor whose text has the hash of the text they were made from.     *)
(*                                                                         *)
(* Crawls open and leave one database; the documents' servers register       *)
(* legends of their own, and another one in a later crawl.  The semantic     *)
(* tokens are also where occurrences come from that navigation looks up.     *)
(* Bits of modifiers are sets of bit numbers.  An answer that is an error    *)
(* changes nothing here, and is left out.                                   *)
(***************************************************************************)
EXTENDS TextCoordinates

CONSTANTS
    Docs,
    Texts,       \* the texts a document may have: Docs -> sets of texts
    Encodings,   \* the encodings the server may have chosen
    Conventions, \* the values of config.unicodeLineBreaks: a subset of BOOLEAN
    Names,       \* of types and modifiers
    Legends,     \* the legends a server may register
    Meanings,    \* what tokens of a document may be: a type, and a set of modifiers
    Navigable,   \* types that isNavigableSemanticToken accepts
    MaxTypes,    \* 65 536
    MaxModifiers,\* 31
    MaxTokens,   \* bounds on the tokens of the documents
    NoLegend, NoRow, Unasked

\* Legends that parseSemanticTokensLegend accepts: no name is twice in one.
Distinct(names) == \A i, j \in DOMAIN names : names[i] = names[j] => i = j

Parsed ==
    {legend \in [types : Seq(Names), modifiers : Seq(Names)] :
        /\ Distinct(legend.types) /\ Distinct(legend.modifiers)
        /\ Len(legend.types) <= MaxTypes /\ Len(legend.modifiers) <= MaxModifiers}

ASSUME SemanticTokensAssumption ==
    /\ \A d \in Docs : \A text \in Texts[d] : text \in Seq(Units) /\ Paired(text)
    /\ Encodings \subseteq PositionEncodings
    /\ Conventions \subseteq BOOLEAN
    /\ MaxTypes \in Nat /\ MaxModifiers \in Nat /\ MaxTokens \in [Docs -> Nat]
    /\ Legends \subseteq Parsed /\ NoLegend \notin Parsed
    /\ \A d \in Docs : \A means \in Meanings[d] : means = <<means[1], means[2]>>
    /\ \A d \in Docs : Unasked \notin Seq([span : Nat \X Nat, means : Meanings[d]])

VARIABLES
    source,     \* the file of each document
    tokens,     \* the tokens that the server finds in it, each time it is asked
    upstream,   \* how the server counts: encoding and unicodeLineBreaks
    db,         \* the legend and the rows, as committed
    memory,     \* #semanticLegend of the crawler that has the database open
    open,       \* whether one has
    refused     \* documents of which tokens that can be shown were refused

vars == <<source, tokens, upstream, db, memory, open, refused>>

Content(d) == normalizeSemanticText(source[d])

-----------------------------------------------------------------------------
(***************************************************************************)
(* The language server (external): it has tokens from an offset to another, *)
(* and writes them in its own coordinates, each relative to the one before. *)
(***************************************************************************)
Spans(content) ==
    {s \in (0..Len(content)) \X (0..Len(content)) :
        s[1] < s[2] /\ Boundary(content, s[1]) /\ Boundary(content, s[2])}

TokenLists(d, content) ==
    {list \in BoundedSeq([span : Spans(content), means : Meanings[d]], MaxTokens[d]) :
        \A i \in 1..(Len(list) - 1) : list[i].span[1] <= list[i+1].span[1]}

Expressible(legend, means) ==
    means[1] \in ToSet(legend.types) /\ means[2] \subseteq ToSet(legend.modifiers)

IndexOf(names, name) == (CHOOSE i \in DOMAIN names : names[i] = name) - 1

\* Counted without the mapper: breaks before the offset, and what follows them.
ServerPosition(content, offset) ==
    LET before == {i \in Breaks(content, upstream.unicodeLineBreaks) : i <= offset}
    IN  [line |-> Cardinality(before),
         character |-> Width(content, upstream.encoding, Max(before \cup {0}), offset)]

Data(content, legend, list) ==
    [i \in DOMAIN list |->
        LET at   == ServerPosition(content, list[i].span[1])
            last == IF i = 1 THEN [line |-> 0, character |-> 0]
                    ELSE ServerPosition(content, list[i-1].span[1])
        IN  [deltaLine |-> at.line - last.line,
             deltaCharacter |-> IF at.line = last.line
                                  THEN at.character - last.character ELSE at.character,
             length |-> Width(content, upstream.encoding,
                              list[i].span[1], list[i].span[2]),
             type |-> IndexOf(legend.types, list[i].means[1]),
             modifiers |-> {IndexOf(legend.modifiers, m) : m \in list[i].means[2]}]]

\* A server without textDocument/semanticTokens/full is asked for the range from
\* the beginning to the mapper's end.
InRange(content, list) ==
    LET end == positionAtUtf16Offset(content, upstream.encoding,
                                     upstream.unicodeLineBreaks, Len(content))
    IN  Picked(list, {i \in DOMAIN list :
                        Before(ServerPosition(content, list[i].span[1]), end)})

-----------------------------------------------------------------------------
(***************************************************************************)
(* The crawler                                                             *)
(***************************************************************************)
validateSemanticTokens(data, legend) ==
    \A i \in DOMAIN data : /\ data[i].length > 0
                           /\ data[i].type < Len(legend.types)
                           /\ data[i].modifiers \subseteq 0..(Len(legend.modifiers) - 1)

Start == [ok |-> TRUE, line |-> 0, character |-> 0,
          previous |-> [line |-> 0, character |-> 0], previousEnd |-> 0,
          highlighting |-> <<>>, found |-> {}]

Refusal == [Start EXCEPT !.ok = FALSE]

Relative(start, previous) ==
    IF start.line = previous.line THEN start.character - previous.character
    ELSE start.character

\* One group of five numbers: decoded, mapped, and written relative to the
\* one before it in the editor's coordinates.
TakeToken(content, legend, acc, token) ==
    LET line      == acc.line + token.deltaLine
        character == token.deltaCharacter
                       + (IF token.deltaLine = 0 THEN acc.character ELSE 0)
        map(c)    == toUtf16Position(content, upstream.encoding,
                                     upstream.unicodeLineBreaks,
                                     [line |-> line, character |-> c])
        start     == map(character)
        end       == map(character + token.length)
    IN  IF \/ ~ acc.ok
           \/ NoPosition \in {start, end}
           \/ end.line # start.line
           \/ start.line = acc.previous.line /\ start.character < acc.previousEnd
          THEN Refusal
        ELSE [ok |-> TRUE, line |-> line, character |-> character,
              previous |-> start, previousEnd |-> end.character,
              highlighting |-> Append(acc.highlighting,
                  [deltaLine |-> start.line - acc.previous.line,
                   deltaCharacter |-> Relative(start, acc.previous),
                   length |-> end.character - start.character,
                   type |-> token.type, modifiers |-> token.modifiers]),
              found |-> IF legend.types[token.type + 1] \in Navigable
                          THEN acc.found \cup {[line |-> line, from |-> character,
                                                to |-> character + token.length]}
                        ELSE acc.found]

semanticTokenCandidates(content, legend, data) ==
    IF validateSemanticTokens(data, legend)
      THEN FoldLeft(LAMBDA acc, token : TakeToken(content, legend, acc, token),
                    Start, data)
    ELSE Refusal

-----------------------------------------------------------------------------
(***************************************************************************)
(* saveSemanticTokens: names that are new go behind those that are known.   *)
(***************************************************************************)
Added(names, more) ==
    names \o Picked(more, {i \in DOMAIN more : more[i] \notin ToSet(names)})

\* Mutant: the legend of the last document is the legend of the index.
LastLegend(legend, sourceLegend) == sourceLegend

Merged(legend, sourceLegend) ==
    IF legend = NoLegend THEN sourceLegend
    ELSE [types     |-> Added(legend.types, sourceLegend.types),
          modifiers |-> Added(legend.modifiers, sourceLegend.modifiers)]

\* Mutant: as many modifiers as there are bits are too many.
FitsBelow(legend) ==
    Len(legend.types) <= MaxTypes /\ Len(legend.modifiers) < MaxModifiers

\* parseSemanticTokensLegend of the merged legend: one of more modifiers than
\* there are bits, or of too many types, is refused.
Fits(legend) == Len(legend.types) <= MaxTypes /\ Len(legend.modifiers) <= MaxModifiers

Remapped(data, sourceLegend, legend) ==
    [i \in DOMAIN data |->
        [deltaLine |-> data[i].deltaLine, deltaCharacter |-> data[i].deltaCharacter,
         length |-> data[i].length,
         type |-> IndexOf(legend.types, sourceLegend.types[data[i].type + 1]),
         modifiers |-> {IndexOf(legend.modifiers, sourceLegend.modifiers[bit + 1]) :
                          bit \in data[i].modifiers}]]

-----------------------------------------------------------------------------
Init ==
    /\ source \in {f \in [Docs -> UNION Range(Texts)] : \A d \in Docs : f[d] \in Texts[d]}
    /\ tokens = [d \in Docs |-> Unasked]
    /\ upstream \in [encoding : Encodings, unicodeLineBreaks : Conventions]
    /\ db = [legend |-> NoLegend, rows |-> [d \in Docs |-> NoRow],
             occurrences |-> [d \in Docs |-> {}]]
    /\ memory = NoLegend
    /\ open = FALSE
    /\ refused = {}

\* Mutant: the legend is read when a document is saved for the first time.
OpenForgetful ==
    /\ ~ open
    /\ open' = TRUE
    /\ UNCHANGED <<source, tokens, upstream, db, memory, refused>>

\* A crawl opens the database, and reads the legend that is in it.
Open ==
    /\ ~ open
    /\ open' = TRUE
    /\ memory' = db.legend
    /\ UNCHANGED <<source, tokens, upstream, db, refused>>

\* The crawl ends, or dies.
Leave ==
    /\ open
    /\ open' = FALSE
    /\ memory' = NoLegend
    /\ UNCHANGED <<source, tokens, upstream, db, refused>>

\* What can be shown: tokens of one line, none in the midst of another, and no
\* more names than there is room for.
Showable(content, list, legend) ==
    /\ \A i \in DOMAIN list : ServerPosition(content, list[i].span[1]).line
                                = ServerPosition(content, list[i].span[2]).line
    /\ \A i \in 1..(Len(list) - 1) : list[i].span[2] <= list[i+1].span[1]
    /\ db.legend # NoLegend =>
          /\ Cardinality(ToSet(db.legend.types) \cup ToSet(legend.types)) <= MaxTypes
          /\ Cardinality(ToSet(db.legend.modifiers) \cup ToSet(legend.modifiers))
               <= MaxModifiers

\* A document is read, sent to the server, and its tokens answered and saved;
\* occurrences of an earlier crawl stay.
Capture(d) ==
    \E legend \in Legends, full \in BOOLEAN,
      list \in IF tokens[d] = Unasked THEN TokenLists(d, Content(d)) ELSE {tokens[d]} :
        LET content  == Content(d)
            sent     == IF full THEN list ELSE InRange(content, list)
            taken    == semanticTokenCandidates(content, legend,
                                                Data(content, legend, sent))
            merged   == Merged(memory, legend)
        IN  /\ open
            /\ \A i \in DOMAIN list : Expressible(legend, list[i].means)
            /\ tokens' = [tokens EXCEPT ![d] = list]
            /\ IF taken.ok /\ Fits(merged)
                 THEN /\ db' = [legend |-> merged,
                               rows |-> [db.rows EXCEPT ![d] =
                                   [hash |-> content,
                                    data |-> Remapped(taken.highlighting, legend, merged)]],
                               occurrences |->
                                   [db.occurrences EXCEPT ![d] = @ \cup taken.found]]
                      /\ memory' = merged
                      /\ UNCHANGED refused
                 ELSE /\ refused' = IF Showable(content, list, legend)
                                      THEN refused \cup {d} ELSE refused
                      /\ UNCHANGED <<db, memory>>
            /\ UNCHANGED <<source, upstream, open>>

Next == Open \/ Leave \/ \E d \in Docs : Capture(d)

Spec == Init /\ [][Next]_vars

-----------------------------------------------------------------------------
(***************************************************************************)
(* An editor                                                               *)
(***************************************************************************)
\* Where an editor that shows a text has what is at an offset of the normalised
\* content: it ends lines at CR, LF and CRLF, and counts UTF-16 units.
EditorPosition(text, offset) ==
    LET body   == IF text # <<>> /\ Head(text) = "bom" THEN Tail(text) ELSE text
        second == {i \in DOMAIN body : body[i] = "lf" /\ i > 1 /\ body[i-1] = "cr"}
        at     == Min({i \in (1..(Len(body) + 1)) \ second :
                         Cardinality((1..(i-1)) \ second) = offset})
        breaks == {i \in DOMAIN body : body[i] \in {"cr", "lf"} /\ i + 1 \notin second}
        before == {i \in breaks : i < at}
    IN  [line |-> Cardinality(before), character |-> at - 1 - Max(before \cup {0})]

\* The tokens of a row by the legend of the index.
DecodeToken(legend, acc, t) ==
    LET line == acc.line + t.deltaLine
        from == t.deltaCharacter + (IF t.deltaLine = 0 THEN acc.from ELSE 0)
    IN  [line |-> line, from |-> from,
         tokens |-> Append(acc.tokens,
            [start |-> [line |-> line, character |-> from],
             end |-> [line |-> line, character |-> from + t.length],
             means |-> <<legend.types[t.type + 1],
                         {legend.modifiers[bit + 1] : bit \in t.modifiers}>>])]

Decoded(row, legend) ==
    FoldLeft(LAMBDA acc, t : DecodeToken(legend, acc, t),
             [line |-> 0, from |-> 0, tokens |-> <<>>], row.data).tokens

\* Mutant: the end of an occurrence belongs to it.
findOccurrenceToEnd(occurrences, position) ==
    LET at == {o \in occurrences : /\ o.line = position.line
                                  /\ o.from <= position.character
                                  /\ position.character <= o.to}
    IN  {o \in at : \A p \in at : o.to - o.from <= p.to - p.from}

\* #findOccurrenceId: the shortest of those at the position; key distances of
\* two ranges of one line compare as their lengths.
findOccurrence(occurrences, position) ==
    LET at == {o \in occurrences : /\ o.line = position.line
                                  /\ o.from <= position.character
                                  /\ position.character < o.to}
    IN  {o \in at : \A p \in at : o.to - o.from <= p.to - p.from}

-----------------------------------------------------------------------------
(***************************************************************************)
(* Properties                                                              *)
(***************************************************************************)
\* Whichever way the server counts, and whatever legends were merged before and
\* after: in every editor text that has the hash of a row, each token is where
\* the server meant it to be, with the type and the modifiers it named.
HighlightingTrue ==
    \A d \in Docs : db.rows[d] # NoRow =>
        /\ validateSemanticTokens(db.rows[d].data, db.legend)
        /\ \A text \in {t \in Texts[d] : normalizeSemanticText(t) = db.rows[d].hash} :
              Decoded(db.rows[d], db.legend) =
                  [i \in DOMAIN tokens[d] |->
                      [start |-> EditorPosition(text, tokens[d][i].span[1]),
                       end   |-> EditorPosition(text, tokens[d][i].span[2]),
                       means |-> tokens[d][i].means]]

\* What an editor could not show is refused as a whole, and nothing else is.
RefusesExactly ==
    /\ \A d \in Docs : db.rows[d] # NoRow => Showable(db.rows[d].hash, tokens[d], db.legend)
    /\ refused = {}

\* Of a server that counts as editors do: in every editor text that has the hash
\* of a row, a lookup at any place finds the navigable token that covers it, and
\* nothing where none does.  (Occurrences stay in the server's coordinates and no
\* lookup maps them: of a server that counts bytes, or separators as line breaks,
\* nothing of the kind holds.)
NavigationFinds ==
    upstream = [encoding |-> "utf-16", unicodeLineBreaks |-> FALSE] =>
        \A d \in Docs : db.rows[d] # NoRow =>
            \A text \in {t \in Texts[d] : normalizeSemanticText(t) = db.rows[d].hash},
               offset \in 0..(Len(Content(d)) - 1) :
                findOccurrence(db.occurrences[d], EditorPosition(text, offset)) =
                    {[line |-> EditorPosition(text, t.span[1]).line,
                      from |-> EditorPosition(text, t.span[1]).character,
                      to   |-> EditorPosition(text, t.span[2]).character] :
                        t \in {u \in ToSet(tokens[d]) :
                                 /\ u.span[1] <= offset /\ offset < u.span[2]
                                 /\ u.means[1] \in Navigable}}
=============================================================================
