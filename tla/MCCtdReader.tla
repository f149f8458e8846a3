----------------------------- MODULE MCCtdReader -----------------------------
(***************************************************************************)
(* The notebooks: every text of one or two runs with up to two widgets in  *)
(* one node; code nodes with a widget and a lost link; every tree of up to *)
(* four nodes with a little in each; tables; links forwards, backwards and *)
(* to nowhere; nodes that do not nest; files of other formats.             *)
(***************************************************************************)
EXTENDS CtdReader

MCWidth == [c \in {"a", "e", "nl", "bad"} |-> IF c = "e" THEN 2 ELSE 1]

NoLink == [is |-> "none"]
Style(h, l) == [heading |-> h, link |-> l, dropped |-> h]
S(tag) == [is |-> "start", tag |-> tag]
E(tag) == <<[is |-> "end", tag |-> tag]>>
T(t) == <<[is |-> "text", tag |-> "", text |-> t]>>

NodeTag(id, title, lang) == <<[is |-> "start", tag |-> "node", id |-> id, title |-> title, lang |-> lang]>>
Node(id, title, lang, inside) == NodeTag(id, title, lang) \o inside \o E("node")
Run(style, text) ==
    <<[is |-> "start", tag |-> "rich_text", style |-> style]>> \o text \o E("rich_text")
Box(tag, kind, offset, text) ==
    <<[is |-> "start", tag |-> tag, kind |-> kind, offset |-> offset]>> \o text \o E(tag)
Code(o, t) == Box("codebox", "codebox", o, T(t))
Image(o, t) == Box("encoded_png", "image", o, T(t))
Attached(o, t) == Box("encoded_png", "file", o, T(t))
Anchor(o) == Box("encoded_png", "anchor", o, <<>>)
Row(cells) == <<S("row")>> \o FlattenSeq([c \in DOMAIN cells |-> <<S("cell")>> \o T(cells[c]) \o E("cell")]) \o E("row")
Table(o, rws) == Box("table", "table", o, FlattenSeq([r \in DOMAIN rws |-> Row(rws[r])]))
Doc(inside) == <<S("cherrytree")>> \o inside \o E("cherrytree")

Plain == Style(FALSE, NoLink)
Heading == Style(TRUE, NoLink)
To(id) == Style(FALSE, [is |-> "node", id |-> id])

Texts == {T(<<"a", "e">>), T(<<"e", "a", "nl", "e">>), T(<<"e">>) \o T(<<"a">>)}
Runs == {Run(st, t) : st \in {Plain, Heading, To("n1")}, t \in Texts}
Widgets == {Code(o, <<"a">>) : o \in 0..3} \cup {Image(o, <<"a">>) : o \in {1, 4, Beyond}}
           \cup {Image(2, <<"bad">>), Attached(1, <<"a">>), Attached(0, <<"bad">>), Anchor(1),
                 Table(1, <<<<<<"a">>, <<"e">>>>, <<<<"e">>>>>>), Table(2, <<>>)}
RunLists == {<<>>} \cup Runs \cup {r \o q : r \in Runs, q \in {Run(Plain, T(<<"e">>)), Run(To("n1"), T(<<"a", "e">>))}}
WidgetLists == {<<>>} \cup Widgets \cup {v \o w : v \in Widgets, w \in {Code(1, <<"e">>), Code(2, <<"e">>), Image(1, <<"a">>)}}
OneNode == {Doc(Node("n1", "T1", "rich", r \o w)) : r \in RunLists, w \in WidgetLists}

CodeNode == {Doc(Node("n1", "T1", "code", r \o w \o Run(To("n9"), T(<<"a">>)))) : r \in Runs, w \in Widgets}

\* Trees, with a run before the children and a code box and a run after them.
RECURSIVE Forest(_)
Forest(n) ==
    IF n = 0 THEN {<<>>}
    ELSE UNION {{<<f>> \o g : f \in Forest(k), g \in Forest(n - 1 - k)} : k \in 0..(n - 1)}
Ids == {"n1", "n2"}
RECURSIVE Laid(_, _)
Laid(forest, who) ==
    IF forest = <<>> THEN <<>>
    ELSE Node(who, "T1", "rich", Run(Plain, T(<<"a">>)) \o Laid(Head(forest), "n2")
                           \o Code(0, <<"e">>) \o Run(To("n2"), T(<<"e">>)))
         \o Laid(Tail(forest), "n3")
Trees == {Doc(Laid(f, "n1")) : f \in UNION {Forest(n) : n \in 0..4}}

Links == {Doc(Node("n1", "T1", "rich", Run(st, T(<<"a">>)) \o Run(st, T(<<"e">>)))
              \o Node(id, title, lang, Run(Plain, T(<<"a">>))) \o S0)
            : st \in {To("n2"), To("n9"), Style(TRUE, [is |-> "path"]), Style(FALSE, [is |-> "unknown"])},
              id \in Ids, title \in {"", "T2", "[x]"}, lang \in {"rich", "code"},
              S0 \in {<<>>, Node("n2", "T3", "rich", <<>>)}}

\* Nodes that nest as they like: ends with no start, starts with no end.
Nestings == {Doc(FlattenSeq(s)) : s \in UNION {[1..n -> {NodeTag("n1", "T1", "rich"), E("node")}] : n \in 1..5}}

File(events) == [ext |-> "ctd", magic |-> "cherrytree", utf8 |-> TRUE, events |-> events]
Odd == {[ext |-> e, magic |-> m, utf8 |-> u, events |-> Doc(Node("n1", "T1", "rich", <<>>))]
          : e \in {"ctd", "ctb", "ctx", "ctz", "txt"}, m \in {"cherrytree", "sqlite", "7zip", "other"},
            u \in BOOLEAN}

MCFiles == {File(d) : d \in OneNode \cup CodeNode \cup Trees \cup Links \cup Nestings} \cup Odd
             \cup {File(Node("n1", "T1", "rich", <<>>)), File(<<S("html")>>)}
==============================================================================
