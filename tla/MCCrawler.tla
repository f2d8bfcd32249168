------------------------------ MODULE MCCrawler ------------------------------
(***************************************************************************)
(* Small instances of the crawl for TLC: two documents of two positions that   *)
(* define and use a symbol, or three documents of one position.             *)
(***************************************************************************)
EXTENDS IndexQuery

CONSTANTS docA, docB, docC, symS, symT

MCDocs      == {docA, docB}
MCPositions == {1, 2}
ThreeDocs   == {docA, docB, docC}
OnePosition == {1}
MCSymbols   == {symS, symT}

def(symbol) == [symbol |-> symbol, isDefinition |-> TRUE]
use(symbol) == [symbol |-> symbol, isDefinition |-> FALSE]

TwoContents   == {<<def(symS), NoToken>>, <<use(symS), def(symT)>>}
ShortContents == {<<def(symS)>>, <<use(symS)>>}

SecondDoc     == {docB}
LastDoc       == {docC}
LastTwoDocs   == {docB, docC}
AllButHover   == AllKinds \ {"hover"}
GraphKinds    == {"references", "definition"}
Declaration   == {"declaration"}
OneKind       == {"references"}
Never         == {FALSE}
Sometimes     == BOOLEAN
None          == {}
=============================================================================
