--------------------------- MODULE MCLocalStore ----------------------------
(***************************************************************************)
(* Small instances of LocalStore: a wiki of three or four pages in which   *)
(* every kind of move is possible.                                         *)
(***************************************************************************)
EXTENDS LocalStore

\* Segments 11, 12, ... are the id tails.
MCIdTail == [p \in PageId |-> 10 + p]

Folder(S) == [f \in {r.file : r \in S} |-> (CHOOSE r \in S : r.file = f).page]

AFile(name, p, parent, links) ==
    [file |-> name,
     page |-> [id |-> p, parent |-> parent, title |-> p, text |-> 1, links |-> links]]

\* Home (1), a section (2) below it and a page (3) of the section: a chain.
\* Home links to the page, and the page back to its section.
Chain == Folder({
    AFile(<<1>>, 1, 0, {[to |-> 3, stem |-> <<2, 3>>]}),
    AFile(<<2>>, 2, 1, {}),
    AFile(<<2, 3>>, 3, 2, {[to |-> 2, stem |-> <<2>>]})})

\* Home (1), two sections (2, 3) below it, a page (4) of the first one, and a
\* link to that page from the second.
Fan == Folder({
    AFile(<<1>>, 1, 0, {}),
    AFile(<<2>>, 2, 1, {}),
    AFile(<<3>>, 3, 1, {[to |-> 4, stem |-> <<2, 4>>]}),
    AFile(<<2, 4>>, 4, 2, {})})

MCInitialDisks == {Chain, Fan}

\* Their links name files of the pages they mean.
ASSUME LinksOfInstances == \A d \in MCInitialDisks : LinksResolve(d)
=============================================================================
