------------------------------ MODULE CtdReader ------------------------------
(***************************************************************************)
(* The notebook reader: crates/berrywiki-import, `import` of lib.rs,       *)
(* `parse_ctd` of ctd.rs over the pull reader of xml.rs.                   *)
(*                                                                         *)
(* A file is a record with its name's extension, the format its first      *)
(* bytes give away, whether it is UTF-8, and the events the XML reader     *)
(* will report.  Reading may meet a fault at any event, or the end of the  *)
(* file: a notebook may be cut off anywhere.  One action of the first pass *)
(* is one event (a self-closing tag is its start and its end: the code     *)
(* does the two in one turn); one action of the second is one turn of the  *)
(* loop of `splice` or of `render_node`.                                   *)
(*                                                                         *)
(* A character is a member of a small set with a width in bytes.  Escaping *)
(* and emphasis put marks around characters and are left out; a wiki link  *)
(* replaces its run by the target's title, and is kept.                    *)
(***************************************************************************)
EXTENDS Naturals, Sequences, FiniteSets, SequencesExt

CONSTANTS Files,       \* the files that may be read
          Width,       \* bytes of a character
          NewLine,     \* the character that ends a paragraph
          NotBase64    \* a character no base64 text holds

(***************************************************************************)
(* What the rest of the system may rely on in a notebook: a text is a      *)
(* sequence of characters, and the elements below a node are as CherryTree *)
(* writes them.  How nodes nest, and what else there is, is free.          *)
(***************************************************************************)

\* The elements that may be between the start and the end of one, besides text.
Holds == [rich_text |-> {}, codebox |-> {}, encoded_png |-> {}, cell |-> {},
          row |-> {"cell"}, table |-> {"row", "cell"}]

\* In these events, the element that starts at k ends at e.
Element(events, k, e) ==
    /\ k < e /\ events[k].is = "start" /\ events[e].is = "end" /\ events[k].tag = events[e].tag
    /\ \A j \in (k + 1)..(e - 1) : events[j].is = "text" \/ events[j].tag \in Holds[events[k].tag]

WellFormed(events) ==
    /\ events \in Seq(Range(events))
    /\ \A k \in DOMAIN events :
           /\ events[k].is = "text" => events[k].text \in Seq(DOMAIN Width)
           /\ events[k].is = "start" /\ events[k].tag \in DOMAIN Holds =>
                 \E e \in DOMAIN events : Element(events, k, e)
           /\ events[k].is = "end" /\ events[k].tag \in DOMAIN Holds =>
                 \E s \in DOMAIN events : Element(events, s, k)
           /\ events[k].is = "start" /\ events[k].tag = "codebox" => events[k].kind # "anchor"

ASSUME ReaderAssumption == \A f \in Files : WellFormed(f.events)

VARIABLES ctd, pos, phase, sawRoot,
          builds, stack, siblings,   \* walk: the nodes, the open ones, the children so far per level
          cap, rows, row,            \* walk: what is being captured, the table so far
          at, pieces,                \* splice: its position; the pieces made
          shape, blocks, para,       \* render_node: rendering or not; its output
          nodes, diags               \* the model returned

walking == <<builds, stack, siblings, cap, rows, row>>
rendering == <<at, pieces, shape, blocks, para>>
readerVars == <<ctd, pos, phase, sawRoot, walking, rendering, nodes, diags>>

Beyond == 1000   \* usize::MAX, a widget without an offset

None == [is |-> "none"]

Min2(a, b) == IF a < b THEN a ELSE b

TextOf(b) == FlattenSeq([r \in DOMAIN b.runs |-> b.runs[r].text])

(***************************************************************************)
(* Which file is read at all.  Content wins over the name.                 *)
(***************************************************************************)
Detected(f) ==
    CASE f.magic = "sqlite" -> IF f.ext = "ctx" THEN "ctx" ELSE "ctb"
      [] f.magic = "7zip" -> IF f.ext = "ctz" THEN "ctz" ELSE "ctx"
      [] f.ext \in {"ctd", "ctb", "ctz", "ctx"} -> f.ext
      [] OTHER -> IF f.magic = "cherrytree" THEN "ctd" ELSE "unknown"

\* `import`, its first part: a format that is not read, or text that is not UTF-8, is refused.
Detect ==
    /\ phase = "import"
    /\ phase' = IF Detected(ctd) = "ctd" /\ ctd.utf8 THEN "walk" ELSE "refused"
    /\ UNCHANGED <<ctd, pos, sawRoot, walking, rendering, nodes, diags>>

(***************************************************************************)
(* The first pass.                                                         *)
(***************************************************************************)
Event == ctd.events[pos]

Start(tag) == phase = "walk" /\ pos <= Len(ctd.events) /\ Event.is = "start" /\ Event.tag = tag
End(tag) == phase = "walk" /\ pos <= Len(ctd.events) /\ Event.is = "end" /\ Event.tag = tag
Read == pos' = pos + 1 /\ UNCHANGED <<ctd, rendering, nodes>>

\* `push_widget`: a widget outside every node has no place and is dropped.
PushWidget(w) ==
    builds' = IF stack = <<>> THEN builds
              ELSE [builds EXCEPT ![Last(stack)].widgets = Append(@, w)]

\* No <cherrytree> before the first node: an error, and no nodes.
NotCherryTree ==
    /\ phase' = "returned"
    /\ diags' = <<[code |-> "not-cherrytree", page |-> 0]>>

StartRoot ==
    /\ Start("cherrytree") /\ Read
    /\ sawRoot' = TRUE
    /\ UNCHANGED <<phase, walking, diags>>

\* Mutant: the counters of deeper levels survive.
CountersKept(depth) ==
    [i \in 1..(IF Len(siblings) > depth + 1 THEN Len(siblings) ELSE depth + 1) |->
        IF i <= Len(siblings) THEN siblings[i] ELSE 0]

\* The children's counters kept when a node starts below `depth` others.
CountersFor(depth) == [i \in 1..(depth + 1) |-> IF i <= Len(siblings) THEN siblings[i] ELSE 0]

StartNode ==
    /\ Start("node") /\ Read
    /\ IF ~sawRoot
       THEN NotCherryTree /\ UNCHANGED <<builds, stack, siblings>>
       ELSE LET depth == Len(stack)
                kept == CountersFor(depth)
            IN  /\ builds' = Append(builds,
                       [id |-> Event.id, lang |-> Event.lang,
                        title |-> IF Event.title = "" THEN "Untitled" ELSE Event.title,
                        parent |-> IF stack = <<>> THEN 0 ELSE Last(stack),
                        position |-> kept[depth + 1], runs |-> <<>>, widgets |-> <<>>])
                /\ siblings' = Append([kept EXCEPT ![depth + 1] = @ + 1], 0)
                /\ stack' = Append(stack, Len(builds) + 1)
                /\ diags' = IF Event.title = ""
                            THEN Append(diags, [code |-> "untitled-node", page |-> Len(builds) + 1])
                            ELSE diags
                /\ UNCHANGED phase
    /\ UNCHANGED <<sawRoot, cap, rows, row>>

EndNode ==
    /\ End("node") /\ Read
    /\ stack' = IF stack = <<>> THEN stack ELSE Front(stack)
    /\ siblings' = IF Len(siblings) > Len(stack') + 1
                   THEN SubSeq(siblings, 1, Len(stack') + 2) ELSE siblings
    /\ UNCHANGED <<phase, sawRoot, builds, cap, rows, row, diags>>

\* <rich_text>: `read_style` notes what it drops once for the whole document.
StartRichText ==
    /\ Start("rich_text") /\ Read
    /\ cap' = [cap EXCEPT !.what = "rich_text", !.buf = <<>>, !.style = Event.style]
    /\ diags' = IF Event.style.dropped /\ ~ \E d \in Range(diags) : d.code = "style-dropped"
                THEN Append(diags, [code |-> "style-dropped", page |-> 0]) ELSE diags
    /\ UNCHANGED <<phase, sawRoot, builds, stack, siblings, rows, row>>

EndRichText ==
    /\ End("rich_text") /\ Read
    /\ builds' = IF cap.what = "rich_text" /\ stack # <<>> /\ cap.buf # <<>>
                 THEN [builds EXCEPT ![Last(stack)].runs =
                           Append(@, [text |-> cap.buf, style |-> cap.style])]
                 ELSE builds
    /\ cap' = [cap EXCEPT !.what = "none", !.buf = <<>>]
    /\ UNCHANGED <<phase, sawRoot, stack, siblings, rows, row, diags>>

\* <codebox>, and <encoded_png> that is an image or a file.
StartBox ==
    /\ \E tag \in {"codebox", "encoded_png"} :
          /\ Start(tag) /\ Event.kind # "anchor" /\ Read
          /\ cap' = [cap EXCEPT !.what = tag, !.buf = <<>>, !.offset = Event.offset, !.kind = Event.kind]
    /\ UNCHANGED <<phase, sawRoot, builds, stack, siblings, rows, row, diags>>

EndBox ==
    /\ \E tag \in {"codebox", "encoded_png"} :
          /\ End(tag) /\ Read
          /\ IF cap.what = tag
             THEN PushWidget([kind |-> cap.kind, offset |-> cap.offset, data |-> cap.buf])
             ELSE UNCHANGED builds
    /\ cap' = [cap EXCEPT !.what = "none", !.buf = <<>>]
    /\ UNCHANGED <<phase, sawRoot, stack, siblings, rows, row, diags>>

\* An <encoded_png> with an anchor's name is a widget at once, and nothing is captured.
StartAnchor ==
    /\ Start("encoded_png") /\ Event.kind = "anchor" /\ Read
    /\ PushWidget([kind |-> "anchor", offset |-> Event.offset, data |-> <<>>])
    /\ cap' = [cap EXCEPT !.what = "none", !.offset = Event.offset]
    /\ UNCHANGED <<phase, sawRoot, stack, siblings, rows, row, diags>>

StartTable ==
    /\ Start("table") /\ Read
    /\ rows' = <<>>
    /\ cap' = [cap EXCEPT !.what = "none", !.offset = Event.offset]
    /\ UNCHANGED <<phase, sawRoot, builds, stack, siblings, row, diags>>

StartRow ==
    /\ Start("row") /\ Read
    /\ row' = <<>>
    /\ UNCHANGED <<phase, sawRoot, builds, stack, siblings, cap, rows, diags>>

StartCell ==
    /\ Start("cell") /\ Read
    /\ cap' = [cap EXCEPT !.buf = <<>>, !.what = "cell"]
    /\ UNCHANGED <<phase, sawRoot, builds, stack, siblings, rows, row, diags>>

EndCell ==
    /\ End("cell") /\ Read
    /\ row' = IF cap.what = "cell" THEN Append(row, cap.buf) ELSE row
    /\ cap' = [cap EXCEPT !.what = "none", !.buf = <<>>]
    /\ UNCHANGED <<phase, sawRoot, builds, stack, siblings, rows, diags>>

EndRow ==
    /\ End("row") /\ Read
    /\ rows' = Append(rows, row)
    /\ row' = <<>>
    /\ UNCHANGED <<phase, sawRoot, builds, stack, siblings, cap, diags>>

EndTable ==
    /\ End("table") /\ Read
    /\ PushWidget([kind |-> "table", offset |-> cap.offset, data |-> rows])
    /\ rows' = <<>>
    /\ UNCHANGED <<phase, sawRoot, stack, siblings, cap, row, diags>>

\* Character data counts only inside an element that is being captured.
Text ==
    /\ phase = "walk" /\ pos <= Len(ctd.events) /\ Event.is = "text" /\ Read
    /\ cap' = IF cap.what = "none" THEN cap ELSE [cap EXCEPT !.buf = @ \o Event.text]
    /\ UNCHANGED <<phase, sawRoot, builds, stack, siblings, rows, row, diags>>

\* An element the reader has no arm for: </cherrytree>, or one of another version.
OtherTag ==
    /\ phase = "walk" /\ pos <= Len(ctd.events)
    /\ Event.is \in {"start", "end"}
    /\ Event.tag \notin {"node", "rich_text", "codebox", "encoded_png", "table", "row", "cell"}
    /\ ~(Event.is = "start" /\ Event.tag = "cherrytree")
    /\ Read
    /\ UNCHANGED <<phase, sawRoot, walking, diags>>

Walk ==
    \/ StartRoot \/ StartNode \/ EndNode \/ StartRichText \/ EndRichText
    \/ StartBox \/ EndBox \/ StartAnchor
    \/ StartTable \/ StartRow \/ StartCell \/ EndCell \/ EndRow \/ EndTable
    \/ Text \/ OtherTag

\* The walk is over: malformed here (what was read so far is still imported, and the fault is
\* told), or the end of the file, wherever the file ends.
WalkEnds(found) ==
    /\ phase = "walk"
    /\ IF sawRoot THEN phase' = "identify" /\ diags' = diags \o found ELSE NotCherryTree
    /\ UNCHANGED <<ctd, pos, sawRoot, walking, rendering, nodes>>

Fault == pos <= Len(ctd.events) /\ WalkEnds(<<[code |-> "xml-malformed", page |-> 0]>>)
EndOfFile == WalkEnds(<<>>)

(***************************************************************************)
(* The second pass.                                                        *)
(***************************************************************************)
Build == builds[Len(nodes) + 1]

\* The title a link to `id` shows: the first node of that id has it.
TitleOf(id) ==
    LET i == SelectInSeq(builds, LAMBDA b : b.id = id) IN IF i = 0 THEN "" ELSE builds[i].title

Bracketed(title) == title \in {"[x]"}

\* Identity comes before any body: each repeated id is told.
Identify ==
    /\ phase = "identify"
    /\ LET repeats == {i \in DOMAIN builds : \E j \in 1..(i - 1) : builds[j].id = builds[i].id}
       IN  diags' = diags \o [k \in 1..Cardinality(repeats) |-> [code |-> "duplicate-node-id", page |-> 0]]
    /\ phase' = "next"
    /\ UNCHANGED <<ctd, pos, sawRoot, walking, rendering, nodes>>

\* `splice` clamps each offset to the end of the text and sorts, keeping the order of equals.
Clamped(b) == [i \in DOMAIN b.widgets |-> [b.widgets[i] EXCEPT !.offset = Min2(@, Len(TextOf(b)))]]
InOrder(ws) ==
    LET before(i, j) == ws[i].offset < ws[j].offset \/ (ws[i].offset = ws[j].offset /\ i < j)
        order == SetToSortSeq(DOMAIN ws, before)
    IN  [k \in DOMAIN ws |-> ws[order[k]]]

RunText(k) == IF k <= Len(Build.runs) THEN Build.runs[k].text ELSE <<>>

\* A node whose language is not the rich-text sentinel is one program: no widgets, no paragraphs.
Begin ==
    /\ phase = "next" /\ Len(nodes) < Len(builds)
    /\ LET code == Build.lang = "code" IN
       /\ shape' = IF code THEN "code" ELSE "rich"
       /\ phase' = IF code THEN "render" ELSE "splice"
       /\ pieces' = IF code THEN <<[is |-> "code", text |-> TextOf(Build)]>> ELSE <<>>
       /\ at' = IF code THEN None
                ELSE [is |-> "run", run |-> 1, rest |-> RunText(1), done |-> 0,
                      queue |-> InOrder(Clamped(Build))]
    /\ blocks' = <<>> /\ para' = <<>>
    /\ UNCHANGED <<ctd, pos, sawRoot, walking, nodes, diags>>

\* Mutant: the offset counts bytes.
CutByBytes(rest, n) ==
    LET bytes(k) == FoldLeft(LAMBDA acc, c : acc + Width[c], 0, SubSeq(rest, 1, k))
    IN  CHOOSE k \in 0..Len(rest) : (bytes(k) >= n \/ k = Len(rest)) /\ \A j \in 0..(k - 1) : bytes(j) < n

\* Where to cut the rest of a run so that n characters are before the cut.
Cut(rest, n) == Min2(n, Len(rest))

TextPiece(text) == IF text = <<>> THEN <<>>
                   ELSE <<[is |-> "text", text |-> text, style |-> Build.runs[at.run].style]>>

\* The next widget lies in this run, or at its end.
SpliceWidget ==
    /\ phase = "splice" /\ at.run <= Len(Build.runs) /\ at.queue # <<>>
    /\ LET target == Head(at.queue).offset
           split == IF target > at.done THEN target - at.done ELSE 0
           cut == Cut(at.rest, split)
       IN  /\ target <= at.done + Len(at.rest)
           /\ pieces' = pieces \o TextPiece(SubSeq(at.rest, 1, cut))
                               \o <<[is |-> "widget", widget |-> Head(at.queue)]>>
           /\ at' = [at EXCEPT !.done = @ + split, !.rest = SubSeq(@, cut + 1, Len(@)),
                               !.queue = Tail(@)]
    /\ UNCHANGED <<ctd, pos, phase, sawRoot, walking, shape, blocks, para, nodes, diags>>

\* No widget is left for this run: the rest of it is one piece.
SpliceRest ==
    /\ phase = "splice" /\ at.run <= Len(Build.runs)
    /\ at.queue # <<>> => Head(at.queue).offset > at.done + Len(at.rest)
    /\ pieces' = pieces \o TextPiece(at.rest)
    /\ at' = [at EXCEPT !.done = @ + Len(at.rest), !.run = @ + 1, !.rest = RunText(at.run + 1)]
    /\ UNCHANGED <<ctd, pos, phase, sawRoot, walking, shape, blocks, para, nodes, diags>>

\* After the last run, the widgets left.
SpliceEnds ==
    /\ phase = "splice" /\ at.run > Len(Build.runs)
    /\ pieces' = pieces \o [i \in DOMAIN at.queue |-> [is |-> "widget", widget |-> at.queue[i]]]
    /\ at' = None
    /\ phase' = "render"
    /\ UNCHANGED <<ctd, pos, sawRoot, walking, shape, blocks, para, nodes, diags>>

\* `flush`: a paragraph with anything in it becomes a block.
Flushed(bs, p) == IF p = <<>> THEN bs ELSE Append(bs, [is |-> "para", items |-> p])

\* `resolve_marks`: the title a link is resolved to, and the loss when it is not.
LinkTitle(link) ==
    IF link.is = "node" /\ TitleOf(link.id) # "" /\ ~Bracketed(TitleOf(link.id))
    THEN TitleOf(link.id) ELSE ""
LinkLoss(link) ==
    CASE link.is = "node" -> IF LinkTitle(link) # "" THEN {}
                             ELSE IF TitleOf(link.id) = "" THEN {"link-target-missing"}
                             ELSE {"wikilink-title-unusable"}
      [] link.is = "path" -> {"link-to-file-dropped"}
      [] link.is = "unknown" -> {"link-target-unknown"}
      [] OTHER -> {}

Chars(text) == [c \in DOMAIN text |-> <<"char", text[c]>>]

\* The loop over the lines of a text piece: a line break flushes, a heading is a block of its own.
Line(acc, line, first, style) ==
    LET bs == IF first THEN acc ELSE [blocks |-> Flushed(acc.blocks, acc.para), para |-> <<>>]
        items == IF LinkTitle(style.link) # ""
                 THEN <<<<"link", LinkTitle(style.link)>>>> ELSE Chars(line)
    IN  IF line = <<>> THEN bs
        ELSE IF style.heading
        THEN [blocks |-> Append(Flushed(bs.blocks, bs.para), [is |-> "heading", items |-> items]),
              para |-> <<>>]
        ELSE [bs EXCEPT !.para = @ \o items]

Lines(text) ==
    LET breaks == SetToSortSeq({i \in DOMAIN text : text[i] = NewLine}, <)
        from(k) == IF k = 1 THEN 1 ELSE breaks[k - 1] + 1
        upto(k) == IF k > Len(breaks) THEN Len(text) ELSE breaks[k] - 1
    IN  [k \in 1..(Len(breaks) + 1) |-> SubSeq(text, from(k), upto(k))]

Rendered(text, style) ==
    LET ls == Lines(text)
    IN  FoldLeftDomain(LAMBDA acc, k : Line(acc, ls[k], k = 1, style),
                       [blocks |-> blocks, para |-> para], ls)

Piece == Head(pieces)
PageNumber == Len(nodes) + 1

RenderText ==
    /\ phase = "render" /\ pieces # <<>> /\ Piece.is = "text"
    /\ LET r == Rendered(Piece.text, Piece.style) IN blocks' = r.blocks /\ para' = r.para
    /\ LET fresh == {c \in LinkLoss(Piece.style.link) : [code |-> c, page |-> PageNumber] \notin Range(diags)}
       IN  diags' = diags \o SetToSeq({[code |-> c, page |-> PageNumber] : c \in fresh})
    /\ pieces' = Tail(pieces)
    /\ UNCHANGED <<ctd, pos, phase, sawRoot, walking, at, shape, nodes>>

\* What a widget becomes: a block, or a loss, or (a table without rows) nothing.
Decodes(w) == w.data # <<>> /\ NotBase64 \notin Range(w.data)
WidgetBlock(w) ==
    CASE w.kind = "codebox" -> <<[is |-> "codebox", of |-> w]>>
      [] w.kind \in {"image", "file"} /\ Decodes(w) -> <<[is |-> w.kind, of |-> w]>>
      [] w.kind = "table" /\ w.data # <<>> -> <<[is |-> "table", of |-> w]>>
      [] OTHER -> <<>>
WidgetLoss(w) ==
    CASE w.kind = "anchor" -> <<"anchor-dropped">>
      [] w.kind = "image" /\ ~Decodes(w) -> <<"image-decode-failed">>
      [] w.kind = "file" /\ ~Decodes(w) -> <<"embedded-file-decode-failed">>
      [] w.kind = "table" /\ \E r \in DOMAIN w.data : w.data[r] # <<>> -> <<"table-header-assumed">>
      [] OTHER -> <<>>

RenderWidget ==
    /\ phase = "render" /\ pieces # <<>> /\ Piece.is = "widget"
    /\ blocks' = Flushed(blocks, para) \o WidgetBlock(Piece.widget)
    /\ para' = <<>>
    /\ diags' = diags \o [i \in DOMAIN WidgetLoss(Piece.widget) |->
                             [code |-> WidgetLoss(Piece.widget)[i], page |-> PageNumber]]
    /\ pieces' = Tail(pieces)
    /\ UNCHANGED <<ctd, pos, phase, sawRoot, walking, at, shape, nodes>>

RenderCode ==
    /\ phase = "render" /\ pieces # <<>> /\ Piece.is = "code"
    /\ blocks' = <<[is |-> "fence", items |-> Chars(Piece.text)]>>
    /\ pieces' = <<>>
    /\ UNCHANGED <<ctd, pos, phase, sawRoot, walking, at, shape, para, nodes, diags>>

\* The node joins the model, at its place and below the same parent.
Finish ==
    /\ phase = "render" /\ pieces = <<>>
    /\ nodes' = Append(nodes, [id |-> Build.id, parent |-> Build.parent, position |-> Build.position,
                               title |-> Build.title, body |-> Flushed(blocks, para)])
    /\ phase' = "next"
    /\ blocks' = <<>> /\ para' = <<>> /\ shape' = "none"
    /\ UNCHANGED <<ctd, pos, sawRoot, walking, at, pieces, diags>>

Return ==
    /\ phase = "next" /\ Len(nodes) = Len(builds)
    /\ phase' = "returned"
    /\ UNCHANGED <<ctd, pos, sawRoot, walking, rendering, nodes, diags>>

ReaderInit ==
    /\ ctd \in Files
    /\ pos = 1 /\ phase = "import" /\ sawRoot = FALSE
    /\ builds = <<>> /\ stack = <<>> /\ siblings = <<0>>
    /\ cap = [what |-> "none", buf |-> <<>>, style |-> None, offset |-> 0, kind |-> "none"]
    /\ rows = <<>> /\ row = <<>>
    /\ at = None /\ pieces = <<>> /\ shape = "none" /\ blocks = <<>> /\ para = <<>>
    /\ nodes = <<>> /\ diags = <<>>

ReaderNext ==
    \/ Detect \/ Walk \/ Fault \/ EndOfFile \/ Identify
    \/ Begin \/ SpliceWidget \/ SpliceRest \/ SpliceEnds
    \/ RenderText \/ RenderWidget \/ RenderCode \/ Finish \/ Return

ReaderSpec == ReaderInit /\ [][ReaderNext]_readerVars

(***************************************************************************)
(* What the file says, read off its events and not by the walk.            *)
(***************************************************************************)

\* The values of a function on a finite set of numbers, in the order of the numbers.
Upto(S, i) == Cardinality({j \in S : j <= i})
Listed(f) ==
    LET S == DOMAIN f
    IN  [k \in 1..Cardinality(S) |-> f[CHOOSE i \in {j \in S : Upto(S, j) = k} : TRUE]]

\* What is said of the events es.  The event at k, and the nodes' starts or ends from k to p.
Is(es, k, is, tag) == es[k].is = is /\ es[k].tag = tag
NodesIn(es, k, p, is) == {i \in k..p : Is(es, i, is, "node")}

\* The nodes that position p is inside of, by the positions where they start.
Open(es, p) ==
    {k \in 1..(p - 1) :
        /\ Is(es, k, "start", "node")
        /\ \A j \in k..(p - 1) :
              Cardinality(NodesIn(es, k, j, "start")) > Cardinality(NodesIn(es, k, j, "end"))}
Holder(es, p) ==
    IF Open(es, p) = {} THEN 0 ELSE CHOOSE k \in Open(es, p) : \A j \in Open(es, p) : j <= k

NodeStarts == NodesIn(ctd.events, 1, pos - 1, "start")
Rank(es, k) == Cardinality(NodesIn(es, 1, k, "start"))

\* Where the element that starts at k ends, and the elements of a tag in it.
Closing(es, k) == CHOOSE e \in DOMAIN es : Element(es, k, e)
Within(es, k, tag) == {j \in k..Closing(es, k) : Is(es, j, "start", tag)}
TextIn(es, k) ==
    FlattenSeq(Listed([j \in {j \in k..Closing(es, k) : es[j].is = "text"} |-> es[j].text]))
TableIn(es, k) ==
    Listed([r \in Within(es, k, "row") |->
               Listed([c \in Within(es, r, "cell") |-> TextIn(es, c)])])

AnchorAt(es, k) == Is(es, k, "start", "encoded_png") /\ es[k].kind = "anchor"

\* The elements written directly in the node at n that end before p.
Direct(es, n, p, tags) ==
    {k \in 1..(p - 1) : /\ \E t \in tags : Is(es, k, "start", t)
                        /\ Holder(es, k) = n
                        /\ Closing(es, k) < p \/ AnchorAt(es, k)}
RunsAt(es, n, p) ==
    Listed([k \in {k \in Direct(es, n, p, {"rich_text"}) : TextIn(es, k) # <<>>} |->
               [text |-> TextIn(es, k), style |-> es[k].style]])
WidgetAt(es, k) ==
    [kind   |-> IF Is(es, k, "start", "table") THEN "table" ELSE es[k].kind,
     offset |-> es[k].offset,
     data   |-> IF AnchorAt(es, k) THEN <<>>
                ELSE IF Is(es, k, "start", "table") THEN TableIn(es, k) ELSE TextIn(es, k)]
WidgetsAt(es, n, p) ==
    Listed([k \in Direct(es, n, p, {"codebox", "encoded_png", "table"}) |-> WidgetAt(es, k)])

\* However far the file was read, and wherever it broke off, the walk's nodes are the file's:
\* each below the node it is written in, numbered among its siblings from 0 without a gap, with
\* the text runs and the widgets written directly in it, whole, in order and in no other node.
TreeAsWritten ==
    phase \in {"walk", "identify"} =>
        /\ Len(builds) = Cardinality(NodeStarts)
        /\ \A k \in NodeStarts :
              LET es == ctd.events
                  b == builds[Rank(es, k)]
              IN  /\ b.parent = (IF Holder(es, k) = 0 THEN 0 ELSE Rank(es, Holder(es, k)))
                  /\ b.position = Cardinality({j \in NodeStarts : j < k /\ Holder(es, j) = Holder(es, k)})
                  /\ b.runs = RunsAt(es, k, pos)
                  /\ b.widgets = WidgetsAt(es, k, pos)

(***************************************************************************)
(* What a page must hold of its node, place by place.                      *)
(***************************************************************************)
Carried(w) == \/ w.kind = "codebox"
              \/ w.kind = "table" /\ w.data # <<>>
              \/ w.kind \in {"image", "file"} /\ Decodes(w)

RunOf(b, c) == CHOOSE r \in DOMAIN b.runs :
                  LET before == Len(FlattenSeq([q \in 1..(r - 1) |-> b.runs[q].text]))
                  IN  before < c /\ c <= before + Len(b.runs[r].text)
CharItem(b, c) ==
    IF TextOf(b)[c] = NewLine THEN <<>>
    ELSE LET title == LinkTitle(b.runs[RunOf(b, c)].style.link)
         IN  IF title = "" THEN <<<<"char", TextOf(b)[c]>>>> ELSE <<<<"link", title>>>>
WidgetItems(b, place) ==
    LET here == SelectSeq(b.widgets, LAMBDA w : Carried(w) /\ Min2(w.offset, Len(TextOf(b))) = place)
    IN  [i \in DOMAIN here |-> <<here[i].kind, here[i].data>>]
Expected(b) ==
    IF b.lang = "code" THEN Chars(TextOf(b))
    ELSE WidgetItems(b, 0)
         \o FlattenSeq([c \in DOMAIN TextOf(b) |-> CharItem(b, c) \o WidgetItems(b, c)])

BlockItems(x) == IF x.is \in {"para", "heading", "fence"} THEN x.items ELSE <<<<x.of.kind, x.of.data>>>>
Written(body) == FlattenSeq([i \in DOMAIN body |-> BlockItems(body[i])])

\* One link shows its title once or, cut by a line or a widget, once per part.
Folded(items) ==
    LET kept == {i \in DOMAIN items : i = 1 \/ items[i] # items[i - 1] \/ items[i][1] # "link"}
    IN  Listed([i \in kept |-> items[i]])

Count(code, i) == Cardinality({d \in DOMAIN diags : diags[d] = [code |-> code, page |-> i]})

\* The widgets that are not in the page, and those of them the code drops without
\* a word: all of a code node, and a table without rows.
Lost(b) == {w \in DOMAIN b.widgets : b.lang = "code" \/ ~Carried(b.widgets[w])}
EmptyTable(w) == w.kind = "table" /\ w.data = <<>>
Silent(b) == {w \in DOMAIN b.widgets : b.lang = "code" \/ EmptyTable(b.widgets[w])}
LossCode == [image |-> "image-decode-failed", file |-> "embedded-file-decode-failed",
             anchor |-> "anchor-dropped"]
Told(b, code) == {w \in Lost(b) \ Silent(b) : LossCode[b.widgets[w].kind] = code}

LinkCodes == {"link-target-missing", "wikilink-title-unusable", "link-to-file-dropped",
              "link-target-unknown"}
LinksLost(b) ==
    IF b.lang = "code" THEN {} ELSE UNION {LinkLoss(b.runs[r].style.link) : r \in DOMAIN b.runs}

\* In a finished page every character of its node's text is there in order (a resolved link as
\* its target's title) and every widget is between the characters its offset names, counted in
\* characters.  What is not there is told, once for each widget and once in a page for each kind
\* of lost link, and nothing else is told; but for what the code drops without a word, against
\* ADR-0014's "Every row below is either carried or dropped with a named diagnostic": the widgets
\* and links of a code node, and a table without rows.
ContentInPlace ==
    \A i \in DOMAIN nodes :
        LET b == builds[i] IN
        /\ Folded(Written(nodes[i].body)) = Folded(Expected(b))
        /\ \A w \in Lost(b) \ Silent(b) : b.widgets[w].kind \in DOMAIN LossCode
        /\ \A code \in Range(LossCode) : Count(code, i) = Cardinality(Told(b, code))
        /\ \A code \in LinkCodes : Count(code, i) = IF code \in LinksLost(b) THEN 1 ELSE 0

=============================================================================
