-------------------------- MODULE MCSemanticTokens --------------------------
(***************************************************************************)
(* Small instances of SemanticTokens for TLC: one document in which all      *)
(* kinds of characters and line breaks occur, and one of two characters that *)
(* is there for its server's legend.                                        *)
(***************************************************************************)
EXTENDS SemanticTokens

CONSTANTS main, other, class, event, keyword, struct, static, async, readonly, sealed

MCDocs == {main, other}

MCNames == {class, event, keyword, struct, static, async, readonly, sealed}

MCTexts ==
    [d \in MCDocs |->
        IF d = main
          THEN {<<"bom", "letter", "cr", "lf", "high", "low">>,
                <<"letter", "lf", "high", "low">>,
                <<"wide", "separator", "high", "low", "letter">>,
                <<"lf", "cr", "lf", "cr", "letter">>,
                <<>>}
        ELSE {<<"letter">>}]

MCLegends == {[types |-> <<class, keyword>>, modifiers |-> <<static, async>>],
              [types |-> <<keyword, event, class>>, modifiers |-> <<async, sealed>>],
              [types |-> <<class>>, modifiers |-> <<readonly, async, static>>],
              [types |-> <<struct, class>>, modifiers |-> <<static, async>>]}

MCMeanings == [d \in MCDocs |-> IF d = main THEN {<<class, {static, async}>>}
                                ELSE {<<keyword, {async}>>}]

MCMaxTokens == [d \in MCDocs |-> IF d = main THEN 2 ELSE 1]
=============================================================================
