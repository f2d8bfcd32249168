--------------------------- MODULE TextCoordinates ---------------------------
(***************************************************************************)
(* Positions in a text, as language servers count them and as editors do:   *)
(* normalizeSemanticText (packages/index-core/src/semantic-tokens.ts) and   *)
(* TextCoordinateMapper (packages/lsp-crawler/src/crawler.ts).              *)
(*                                                                         *)
(* A text is the sequence of its UTF-16 code units, and offsets count from 0 *)
(* as they do in the code.  Of the units only what the counting tells apart *)
(* is kept: "wide" is a character of two bytes in UTF-8, "high" and "low"   *)
(* are the halves of a character beyond the basic plane, "separator" is NEL, *)
(* LS or PS (of three bytes).                                               *)
(***************************************************************************)
EXTENDS Integers, FiniteSetsExt, SequencesExt

Units == {"letter", "wide", "high", "low", "lf", "cr", "separator", "bom"}

PositionEncodings == {"utf-8", "utf-16", "utf-32"}

NoPosition == [line |-> -1, character |-> -1]

\* No half of a character stands alone in what is decoded from bytes.
Paired(text) ==
    \A i \in 1..(Len(text) + 1) :
        (i <= Len(text) /\ text[i] = "low") <=> (i > 1 /\ text[i-1] = "high")

\* A finite set of numbers in order, and the elements of a sequence at some indices.
Rank(S, n) == Cardinality({m \in S : m <= n})

Ascending(S) == [k \in 1..Cardinality(S) |-> CHOOSE n \in S : Rank(S, n) = k]

Picked(sequence, S) == [k \in 1..Cardinality(S) |-> sequence[Ascending(S)[k]]]

Before(p, q) == p.line < q.line \/ (p.line = q.line /\ p.character < q.character)

-----------------------------------------------------------------------------
\* No byte order mark, and LF for CRLF and CR.
normalizeSemanticText(text) ==
    LET body == IF text # <<>> /\ Head(text) = "bom" THEN Tail(text) ELSE text
        kept == Picked(body, {i \in DOMAIN body :
                                ~ (body[i] = "lf" /\ i > 1 /\ body[i-1] = "cr")})
    IN  [k \in DOMAIN kept |-> IF kept[k] = "cr" THEN "lf" ELSE kept[k]]

\* What a unit adds to a character offset.
Size(encoding, unit) ==
    CASE encoding = "utf-16" -> 1
      [] encoding = "utf-32" -> IF unit = "low" THEN 0 ELSE 1
      [] encoding = "utf-8"  -> CASE unit = "wide" -> 2
                                  [] unit \in {"separator", "bom"} -> 3
                                  [] unit = "high" -> 4
                                  [] unit = "low" -> 0
                                  [] OTHER -> 1

Width(content, encoding, from, to) ==
    LET sizes == [i \in DOMAIN content |-> Size(encoding, content[i])]
    IN  MapThenSumSet(LAMBDA i : sizes[i], (from + 1)..to)

\* An offset that does not part the halves of a character.
Boundary(content, offset) == offset = 0 \/ content[offset] # "high"

\* Contents are normalised: no CR is left to be looked for.
Breaks(content, unicodeLineBreaks) ==
    {i \in DOMAIN content : content[i] = "lf"
                              \/ (unicodeLineBreaks /\ content[i] = "separator")}

lineStarts(content, unicodeLineBreaks) ==
    <<0>> \o Ascending(Breaks(content, unicodeLineBreaks))

lineEnds(content, unicodeLineBreaks) ==
    LET breaks == Ascending(Breaks(content, unicodeLineBreaks))
    IN  Append([i \in DOMAIN breaks |-> breaks[i] - 1], Len(content))

\* The binary search for the last line that does not start behind the offset.
lineAtOffset(offset, starts) ==
    LET search[range \in (0..Len(starts)) \X (0..Len(starts))] ==
            LET low    == range[1]
                high   == range[2]
                middle == (low + high) \div 2
            IN  IF low + 1 >= high THEN low
                ELSE IF starts[middle + 1] <= offset THEN search[<<middle, high>>]
                ELSE search[<<low, middle>>]
    IN  search[<<0, Len(starts)>>]

\* Mutant: the lines that the server counts are taken for the editor's.
serverPositionAtOffset(content, offset) ==
    LET starts == lineStarts(content, TRUE)
        line   == lineAtOffset(offset, starts)
    IN  [line |-> line, character |-> offset - starts[line + 1]]

editorPositionAtOffset(content, offset) ==
    LET starts == lineStarts(content, FALSE)
        line   == lineAtOffset(offset, starts)
    IN  [line |-> line, character |-> offset - starts[line + 1]]

\* The server's position in the editor's coordinates.  In UTF-16 no offset is
\* refused but one behind the end of the line.
toUtf16Position(content, encoding, unicodeLineBreaks, position) ==
    LET starts == lineStarts(content, unicodeLineBreaks)
        ends   == lineEnds(content, unicodeLineBreaks)
        start  == starts[position.line + 1]
        offsets == {o \in start..ends[position.line + 1] :
                      /\ encoding = "utf-16" \/ Boundary(content, o)
                      /\ Width(content, encoding, start, o) = position.character}
    IN  IF position.line >= Len(starts) \/ offsets = {} THEN NoPosition
        ELSE editorPositionAtOffset(content, CHOOSE o \in offsets : TRUE)

positionAtUtf16Offset(content, encoding, unicodeLineBreaks, offset) ==
    LET starts == lineStarts(content, unicodeLineBreaks)
        line   == lineAtOffset(offset, starts)
    IN  [line |-> line,
         character |-> Width(content, encoding, starts[line + 1], offset)]

=============================================================================
