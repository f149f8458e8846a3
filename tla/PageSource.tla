----------------------------- MODULE PageSource ------------------------------
(***************************************************************************)
(* A page's file and the hidden metadata block at its top, after           *)
(* crates/berrywiki-core/src/metadata.rs.                                  *)
(*                                                                         *)
(* The file is a sequence of lines.  A line has the shape the parser looks *)
(* for (an opening or closing marker, a blank, a list item, `key: value`,  *)
(* anything else), whether it is indented, and its text as a sequence of   *)
(* pieces: "x" for ordinary text, "ctl" for a control character, "-->" for *)
(* the closing marker, "-- >" for what it is defused to, and so on.  Line  *)
(* endings are left out.                                                   *)
(*                                                                         *)
(* A person edits the file with any editor; the program loads it, moves    *)
(* the page or saves its text and tags, and loads it again.                *)
(***************************************************************************)
EXTENDS Naturals, Sequences, FiniteSets, SequencesExt

CONSTANTS Piece,       \* the pieces of text, and
          Key,         \* the keys, that lines may hold
          Sources,     \* the files there may be to begin with
          Lines,       \* the lines a person may add
          Parents,     \* the parents the program may give the page
          TagLists,    \* the tags and
          Texts,       \* the bodies submitted with the edit form
          MaxChanges,  \* bound: changes by the program
          MaxEdits     \* bound: lines added or taken out by hand

VARIABLES file,      \* the lines of the file
          loaded,    \* the file as the store read it last
          written,   \* the page the last save meant to write, or NoPage
          byHand,    \* the file as a person last left it,
          text,      \* and the body, in an editor or in the form
          changes, edits

sourceVars == <<file, loaded, written, byHand, text, changes, edits>>

\* The keys the program has a rule for; one that holds a closing marker is dropped.
Keys == {"id", "parent", "position", "kind", "archived", "tags", "u-->"}

SourceLine == [is : {"open", "close", "blank", "item", "field", "text"},
               key : Key, value : Seq(Piece), indented : BOOLEAN]

\* The k-th of a set of line numbers.
Places(S) == [k \in 1..Cardinality(S) |-> CHOOSE i \in S : Cardinality({j \in S : j <= i}) = k]

(***************************************************************************)
(* Values.                                                                 *)
(***************************************************************************)
Pathological(v) == {"ctl", "-->"} \cap Range(v) # {}

Sanitised(v) == [i \in DOMAIN v |-> CASE v[i] = "ctl" -> "sp" [] v[i] = "-->" -> "-- >" [] OTHER -> v[i]]

Trimmed(v) ==
    LET ink == {i \in DOMAIN v : v[i] # "sp"}
    IN  IF ink = {} THEN <<>>
        ELSE SubSeq(v, CHOOSE i \in ink : \A j \in ink : i <= j, CHOOSE i \in ink : \A j \in ink : j <= i)

\* A value as a save will write it back.
Normalised(v) == IF Pathological(v) THEN Trimmed(Sanitised(v)) ELSE v

\* An unknown line as a save will write it back; a defused key is no key any more.
Preserved(line) ==
    [line EXCEPT !.value = [i \in DOMAIN @ |-> IF @[i] = "-->" THEN "-- >" ELSE @[i]],
                 !.key = IF @ = "u-->" THEN "u-- >" ELSE @]

\* A value that is read back as it is written.  The store refuses any other tag
\* (validate_tag), and a parent is the id of a page it has read.
Clean(v) == v \in Seq(Piece) /\ ~Pathological(v) /\ Trimmed(v) = v

ASSUME SourceAssumption ==
    /\ {"sp", "-- >", "[", "]", "0", "7", "null", "page", "true", "false"} \subseteq Piece
    /\ Keys \cup {"", "u-- >"} \subseteq Key
    /\ Sources \subseteq Seq(SourceLine) /\ Lines \subseteq SourceLine
    /\ Texts \subseteq Seq(SourceLine)
    /\ \A p \in Parents : Clean(p) /\ p # <<"null">>
    /\ \A tags \in TagLists : tags \in Seq(Seq(Piece)) /\ \A t \in DOMAIN tags : Clean(tags[t])
    /\ MaxChanges \in Nat /\ MaxEdits \in Nat

(***************************************************************************)
(* Reading: the fields of the block, one line after the other.  `list` is  *)
(* the open list, which a line may continue: "tags" or an unknown field.   *)
(***************************************************************************)
Fresh == [id |-> <<>>, parent |-> <<>>, position |-> <<"0">>, kind |-> <<"page">>,
          tags |-> <<>>, archived |-> FALSE, extra |-> <<>>]
NoPage == [managed |-> FALSE, meta |-> Fresh, body |-> <<>>]

IsField(line) == line.is = "field" /\ line.key # "u-- >"

\* Mutant: "null" is looked for before the value is normalised.
ParentNormalisedLate(v) == IF v = <<"null">> THEN <<>> ELSE Normalised(v)

\* A parent that is null or empty once normalised is no parent, which is <<>> here.
ParentValue(v) == IF Normalised(v) = <<"null">> THEN <<>> ELSE Normalised(v)

\* `[a, b]`: the parts between the commas, without the empty ones.
InlineTags(v) ==
    LET inner == SubSeq(v, 2, Len(v) - 1)
        commas == Places({i \in DOMAIN inner : inner[i] = ","})
        part(k) == SubSeq(inner, IF k = 1 THEN 1 ELSE commas[k - 1] + 1,
                                 IF k > Len(commas) THEN Len(inner) ELSE commas[k] - 1)
        tags == [k \in 1..(Len(commas) + 1) |-> Normalised(Trimmed(part(k)))]
        kept == Places({k \in DOMAIN tags : tags[k] # <<>>})
    IN  [k \in DOMAIN kept |-> tags[kept[k]]]

Bracketed(v) == Len(v) >= 2 /\ v[1] = "[" /\ v[Len(v)] = "]"

\* The numbers in use; any other value leaves the position as it was.
Positions == {<<"0">>, <<"7">>}

\* One `key: value` line outside every list.
Field(acc, line) ==
    LET v == Trimmed(line.value)
        with(m) == [meta |-> m, list |-> "none"]
    IN  CASE line.key = "id" -> with([acc.meta EXCEPT !.id = Normalised(v)])
          [] line.key = "parent" -> with([acc.meta EXCEPT !.parent = ParentValue(v)])
          [] line.key = "position" -> with([acc.meta EXCEPT !.position = IF v \in Positions THEN v ELSE @])
          [] line.key = "kind" -> with([acc.meta EXCEPT !.kind = Normalised(v)])
          [] line.key = "archived" ->
                with([acc.meta EXCEPT !.archived = IF v = <<"true">> THEN TRUE
                                                   ELSE IF v = <<"false">> THEN FALSE ELSE @])
          [] line.key = "tags" ->
                IF Bracketed(v) THEN with([acc.meta EXCEPT !.tags = InlineTags(v)])
                ELSE [meta |-> [acc.meta EXCEPT !.tags = <<>>], list |-> "tags"]
          [] line.key = "u-->" -> with(acc.meta)
          [] OTHER -> [meta |-> [acc.meta EXCEPT !.extra = Append(@, Preserved(line))], list |-> "extra"]

\* Mutant: only the line of an unknown field is kept, not what is indented below it.
ContinuesTags(list, line) == list = "tags" /\ line.is = "item"

\* Whether a line belongs to the list or the unknown field above it.
Continues(list, line) ==
    \/ list = "tags" /\ line.is = "item"
    \/ list = "extra" /\ line.indented /\ line.is # "blank"

\* `parse_block`, a line at a time; a line that is no field is ignored (and told).
BlockLine(acc, line) ==
    IF Continues(acc.list, line)
    THEN IF acc.list = "tags"
         THEN [acc EXCEPT !.meta.tags = Append(@, Normalised(Trimmed(line.value)))]
         ELSE [acc EXCEPT !.meta.extra = Append(@, Preserved(line))]
    ELSE IF IsField(line) THEN Field(acc, line) ELSE [acc EXCEPT !.list = "none"]

ParseBlock(lines) ==
    LET upto[k \in 0..Len(lines)] ==
            IF k = 0 THEN [meta |-> Fresh, list |-> "none"] ELSE BlockLine(upto[k - 1], lines[k])
    IN  upto[Len(lines)].meta

\* The first line that is not blank must open the block, and a line must close it.
Opening(lines) ==
    LET k == SelectInSeq(lines, LAMBDA l : l.is # "blank")
    IN  IF k > 0 /\ lines[k].is = "open" THEN k ELSE 0
Closing(lines) ==
    LET o == Opening(lines)
    IN  IF o = 0 THEN 0
        ELSE LET k == SelectInSubSeq(lines, o + 1, Len(lines), LAMBDA l : l.is = "close") IN k
BlockOf(lines) == SubSeq(lines, Opening(lines) + 1, Closing(lines) - 1)

\* The body is everything below the block, without one blank separator.
BodyOf(lines) ==
    LET after == SubSeq(lines, Closing(lines) + 1, Len(lines))
    IN  IF after # <<>> /\ after[1].is = "blank" THEN Tail(after) ELSE after

ParseSource(lines) ==
    IF Closing(lines) = 0 THEN [managed |-> FALSE, meta |-> Fresh, body |-> lines]
    ELSE [managed |-> TRUE, meta |-> ParseBlock(BlockOf(lines)), body |-> BodyOf(lines)]

(***************************************************************************)
(* Writing.                                                                *)
(***************************************************************************)
Line(is, key, value, indented) == [is |-> is, key |-> key, value |-> value, indented |-> indented]
Blank == Line("blank", "", <<>>, FALSE)

SerializeMetadata(m) ==
    <<Line("open", "", <<>>, FALSE),
      Line("field", "id", Sanitised(m.id), FALSE),
      Line("field", "parent", IF m.parent = <<>> THEN <<"null">> ELSE Sanitised(m.parent), FALSE),
      Line("field", "position", m.position, FALSE),
      Line("field", "kind", Sanitised(m.kind), FALSE)>>
    \o (IF m.tags = <<>> THEN <<Line("field", "tags", <<"[", "]">>, FALSE)>>
        ELSE <<Line("field", "tags", <<>>, FALSE)>>
             \o [t \in DOMAIN m.tags |-> Line("item", "", Sanitised(m.tags[t]), TRUE)])
    \o <<Line("field", "archived", <<IF m.archived THEN "true" ELSE "false">>, FALSE)>>
    \o [e \in DOMAIN m.extra |-> Preserved(m.extra[e])]
    \o <<Line("close", "", <<>>, FALSE)>>

SerializeSource(p) ==
    IF ~p.managed THEN p.body
    ELSE SerializeMetadata(p.meta) \o (IF p.body = <<>> THEN <<>> ELSE <<Blank>> \o p.body)

(***************************************************************************)
(* The file and the page.                                                  *)
(***************************************************************************)
WikiPage == ParseSource(loaded)

\* A person adds a line, or takes one out.
EditByHand ==
    /\ edits < MaxEdits
    /\ \/ \E k \in 1..(Len(file) + 1), l \in Lines : file' = InsertAt(file, k, l)
       \/ \E k \in DOMAIN file : file' = RemoveAt(file, k)
    /\ byHand' = file' /\ text' = ParseSource(file').body
    /\ edits' = edits + 1
    /\ UNCHANGED <<loaded, written, changes>>

Load ==
    /\ loaded' = file
    /\ UNCHANGED <<file, written, byHand, text, changes, edits>>

\* The file, if nobody changed it since, becomes this page's, and is read again.
Save(page) ==
    /\ file = loaded /\ changes < MaxChanges
    /\ written' = page
    /\ file' = SerializeSource(page) /\ loaded' = file'
    /\ changes' = changes + 1
    /\ UNCHANGED <<byHand, edits>>

\* plan_move: a page without a block stays where it is.
MovePage ==
    /\ WikiPage.managed
    /\ \E p \in Parents :
          Save([WikiPage EXCEPT !.meta.parent = p, !.meta.position = <<"7">>])
    /\ UNCHANGED text

\* write_body, with the tags of a page that has a block.
WriteBody ==
    \E body \in Texts :
        /\ \/ ~WikiPage.managed /\ Save([WikiPage EXCEPT !.body = body])
           \/ /\ WikiPage.managed
              /\ \E tags \in TagLists : Save([WikiPage EXCEPT !.body = body, !.meta.tags = tags])
        /\ text' = body

SourceInit ==
    /\ file \in Sources /\ loaded = file /\ written = NoPage
    /\ byHand = file /\ text = ParseSource(file).body
    /\ changes = 0 /\ edits = 0

SourceNext == EditByHand \/ Load \/ MovePage \/ WriteBody

SourceSpec == SourceInit /\ [][SourceNext]_sourceVars

(***************************************************************************)
(* Properties.                                                             *)
(***************************************************************************)
\* INV-1 of metadata.rs: the page a save wrote is the page that is read back, whatever a person
\* had put into the block, and writing that again changes nothing.
ReadAsSaved ==
    [][changes' # changes /\ written'.managed =>
          ParseSource(file') = written' /\ SerializeSource(ParseSource(file')) = file']_sourceVars

\* The lines the program does not know and keeps: an unknown field, and what is indented
\* below it.
Unknown(lines, k) ==
    \E j \in 1..k : /\ IsField(lines[j]) /\ lines[j].key \notin Keys
                    /\ \A i \in (j + 1)..k : lines[i].indented /\ lines[i].is # "blank"
UnknownLines(lines) ==
    LET b == BlockOf(lines)
        ks == Places({k \in DOMAIN b : Unknown(b, k)})
    IN  [i \in DOMAIN ks |-> Preserved(b[ks[i]])]

\* Whatever the program changes, however often: the unknown fields a person wrote, with the lines
\* indented below them, are in the file, in their order, and the body below the block is the one a
\* person wrote last.  Only those: list items that are not indented, which the comment in
\* parse_block means to keep too ("INCLUDING any block-list items or indented continuation
\* lines"), and lines that are no field go at the next save, with a warning (README).
UnknownLinesStay ==
    Closing(byHand) > 0 =>
        /\ UnknownLines(file) = UnknownLines(byHand)
        /\ BodyOf(file) = text
=============================================================================
