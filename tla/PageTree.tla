------------------------------ MODULE PageTree -------------------------------
(***************************************************************************)
(* The page tree: PageGraph::build and walk (berrywiki-core/src/graph.rs)  *)
(* and the sidebar's render (sidebar.rs), over every wiki of a few files.  *)
(* The two recursive descents are run as one machine with a stack: first   *)
(* walk, then render.                                                      *)
(***************************************************************************)
EXTENDS Naturals, FiniteSets, Sequences, Functions

CONSTANTS
    Files,        \* bound: how many page files, in the order of their names
    Id,           \* page ids, numbers in the order of their texts
    NoParent,
    Missing,      \* a parent id that no page has
    Position,     \* sort positions in use
    Archived,     \* values of the archived flag in use
    MaximumDepth  \* SidebarOptions::maximum_depth

ASSUME PageTreeAssumption ==
    /\ Files \in Nat \ {0} /\ MaximumDepth \in Nat \ {0}
    /\ Id \subseteq Nat /\ Position \subseteq Nat
    /\ NoParent \notin Id /\ Missing \notin Id /\ Missing # NoParent
    /\ Archived \subseteq BOOLEAN

VARIABLES
    pages,        \* the parsed files
    phase,        \* which descent is running
    stack,        \* what the descent still has to visit, next first
    walked,       \* what walk has listed
    listing       \* what the sidebar lists

vars == <<pages, phase, stack, walked, listing>>

Index == 1 .. Files
Page == [id : Id, parent : Id \cup {NoParent, Missing},
         position : Position, archived : Archived]
\* A visit to a page: its index, and the ids of the pages it was reached through.
Visit == [at : Index, above : Seq(Id)]
Depth(v) == Len(v.above)

-----------------------------------------------------------------------------
(* PageGraph::build *)

Known(id) == \E i \in Index : pages[i].id = id
HasParent(i) == pages[i].parent # NoParent /\ Known(pages[i].parent)

\* parent_of: of two files with one id, the later entry replaces the earlier.
ParentOf(id) ==
    LET with == {i \in Index : pages[i].id = id /\ HasParent(i)}
    IN IF with = {} THEN NoParent
       ELSE pages[CHOOSE i \in with : \A j \in with : j <= i].parent

\* The id n parents up from an id; past the top there is none.
Ancestor(id, n) ==
    LET up[k \in 0 .. n] == IF k = 0 THEN id ELSE ParentOf(up[k - 1]) IN up[n]

\* ancestry_loops: following parents meets an id again, that is, it does not
\* end within as many steps as there are files.
Loops(id) == Ancestor(id, Files) # NoParent

\* Mutant: ties are left to the order of the files.
BeforeByPosition(i, j) ==
    \/ pages[i].position < pages[j].position
    \/ pages[i].position = pages[j].position /\ i < j

\* sort_by_key on (position, title, id), stable; titles are left out.
Before(i, j) ==
    \/ pages[i].position < pages[j].position
    \/ /\ pages[i].position = pages[j].position
       /\ \/ pages[i].id < pages[j].id
          \/ pages[i].id = pages[j].id /\ i < j

\* The k-th of S is the one with k - 1 of S before it.
Sorted(S) ==
    [k \in 1 .. Cardinality(S) |->
        CHOOSE i \in S : Cardinality({j \in S : Before(j, i)}) = k - 1]

Roots == {i \in Index : ~HasParent(i) \/ Loops(pages[i].id)}

Children(id) ==
    {i \in Index : HasParent(i) /\ pages[i].parent = id /\ ~Loops(pages[i].id)}

-----------------------------------------------------------------------------
(* The descents *)

\* The pages of S, in order, below the pages `above`.
Visits(S, above) ==
    [k \in 1 .. Cardinality(S) |-> [at |-> Sorted(S)[k], above |-> above]]
Below(v) == Visits(Children(pages[v.at].id), Append(v.above, pages[v.at].id))

UniqueIds == \A i, j \in Index : pages[i].id = pages[j].id => i = j

Init ==
    /\ pages \in [Index -> Page]
    /\ UniqueIds
    /\ phase = "walk"
    /\ stack = Visits(Roots, <<>>)
    /\ walked = <<>> /\ listing = <<>>

\* walk_from: the page, then its children.
WalkFrom ==
    /\ phase = "walk" /\ stack # <<>>
    /\ walked' = Append(walked, Head(stack))
    /\ stack' = Below(Head(stack)) \o Tail(stack)
    /\ UNCHANGED <<pages, phase, listing>>

WalkEnds ==
    /\ phase = "walk" /\ stack = <<>>
    /\ phase' = "render"
    /\ stack' = Visits(Roots, <<>>)
    /\ UNCHANGED <<pages, walked, listing>>

\* Mutant: an archived page leaves its subtree behind.
PrunedByDepth(v) == Depth(v) >= MaximumDepth

\* Roots have depth 1 in the sidebar, and archived pages are not included.
Pruned(v) == Depth(v) + 1 > MaximumDepth \/ pages[v.at].archived

Render ==
    /\ phase = "render" /\ stack # <<>> /\ ~Pruned(Head(stack))
    /\ listing' = Append(listing, Head(stack))
    /\ stack' = Below(Head(stack)) \o Tail(stack)
    /\ UNCHANGED <<pages, phase, walked>>

Prune ==
    /\ phase = "render" /\ stack # <<>> /\ Pruned(Head(stack))
    /\ stack' = Tail(stack)
    /\ UNCHANGED <<pages, phase, walked, listing>>

RenderEnds ==
    /\ phase = "render" /\ stack = <<>>
    /\ phase' = "done"
    /\ UNCHANGED <<pages, stack, walked, listing>>

Done ==
    /\ phase = "done"
    /\ UNCHANGED vars

Next == WalkFrom \/ WalkEnds \/ Render \/ Prune \/ RenderEnds \/ Done

Spec == Init /\ [][Next]_vars

-----------------------------------------------------------------------------
(* Properties *)

SiblingBefore(i, j) ==
    \/ pages[i].position < pages[j].position
    \/ pages[i].position = pages[j].position /\ pages[i].id < pages[j].id

\* Walk ends, and lists every page once, those on a cycle and those with a
\* missing parent included.  It is a pre-order: a page is followed by its first
\* child, or by the next sibling of it or of a page above it; and siblings come
\* by position, then by id, so that two builds over the same pages, in whatever
\* order they were read, walk the tree in the same order (INV-2).
WalkIsPreOrder ==
    /\ Len(walked) <= Files
    /\ phase # "walk" => {v.at : v \in Range(walked)} = Index
    /\ \A k \in 2 .. Len(walked) :
       LET u == walked[k - 1]
           v == walked[k]
       IN /\ Depth(v) <= Depth(u) + 1
          /\ v.above = SubSeq(Append(u.above, pages[u.at].id), 1, Depth(v))
          /\ \A m \in 1 .. k - 1 :
                walked[m].above = v.above => SiblingBefore(walked[m].at, v.at)

\* The sidebar lists, in the order of walk, exactly the pages that lie within
\* the depth and have no archived page at or above them (INV-3).
Hidden(v) ==
    \/ Depth(v) >= MaximumDepth
    \/ \E i \in Index : /\ pages[i].archived
                        /\ i = v.at \/ pages[i].id \in Range(v.above)
SidebarIsVisiblePart ==
    phase = "done" =>
        /\ Range(listing) = {v \in Range(walked) : ~Hidden(v)}
        /\ \A p, q \in DOMAIN listing : p < q =>
              \E k, l \in DOMAIN walked :
                  k < l /\ walked[k] = listing[p] /\ walked[l] = listing[q]
=============================================================================
