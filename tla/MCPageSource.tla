---------------------------- MODULE MCPageSource -----------------------------
\* Every block of up to two lines of sixteen, above three bodies, and files without a block.
EXTENDS PageSource

MCPiece == {"x", "y", "ctl", "sp", "-->", "-- >", "[", ",", "]", "0", "7",
            "null", "page", "true", "false"}
MCKey == Keys \cup {"", "u", "u-- >"}

F(key, value) == Line("field", key, value, FALSE)
Indented(line) == [line EXCEPT !.indented = TRUE]
BlockLines == {Blank, Line("text", "", <<"-->", "x">>, TRUE),
          Line("item", "", <<"x">>, TRUE), Line("item", "", <<"ctl", "x">>, FALSE),
          F("id", <<"x", "-->">>), F("parent", <<"ctl", "null">>), Indented(F("parent", <<"x">>)),
          F("position", <<"x">>), F("archived", <<"true">>), F("kind", <<"ctl">>),
          F("tags", <<"[", "x", ",", "ctl", ",", "x", "-->", "]">>), F("tags", <<>>),
          F("u", <<"x">>), Indented(F("u", <<"-->">>)), F("u-->", <<"x">>), Indented(F("u-->", <<"x">>))}
\* What a person adds: one line of each kind that another can belong to.
MCLines == {Blank, Line("item", "", <<"x">>, TRUE), F("parent", <<"ctl", "null">>), F("tags", <<>>),
            F("u", <<"x">>), Indented(F("u", <<"-->">>)), F("u-->", <<"x">>)}
Open == Line("open", "", <<>>, FALSE)
Close == Line("close", "", <<>>, FALSE)
Text == Line("text", "", <<"x">>, FALSE)
Blocks == UNION {[1..n -> BlockLines] : n \in 0..2}
Bodies == {<<>>, <<Blank, Text>>, <<Blank, Blank, Open, Text>>}
MCSources == {<<Blank, Open>> \o b \o <<Close, Blank, Blank, Open, Text>> : b \in Blocks}
             \cup {<<Open>> \o b \o <<Close>> \o y : b \in UNION {[1..n -> BlockLines] : n \in 0..1}, y \in Bodies}
             \cup {<<Open, Text>>, <<Text, Open, Close>>, <<>>}
MCParents == {<<"y">>}
MCTagLists == {<<<<"y">>>>}
MCTexts == {<<>>, <<Blank, Blank, Text>>}
==============================================================================
