---------------------------- MODULE StoreNaming ----------------------------
(***************************************************************************)
(* Page filenames (berrywiki-store, paths.rs and local.rs).  A filename    *)
(* encodes the titles on the path from below the root down to the page,    *)
(* joined by "--"; a collision is resolved by one more "--" segment, the   *)
(* tail of the page's id.  A name is therefore a sequence of segments.     *)
(* Segments are already slugged and lower-cased: two titles whose slugs    *)
(* differ only in case are one Title here, because every collision test of *)
(* the code compares lower-cased names.                                    *)
(***************************************************************************)
EXTENDS Integers, Sequences, FiniteSets

CONSTANTS
    PageId,   \* ids of pages, a set of positive numbers (ids are sorted strings)
    Title,    \* slugged titles, numbers too: filenames are sorted
    IdTail,   \* IdTail[p]: the segment with_id_suffix appends for page p
    MaxSegs,  \* longest valid name, in segments (200 bytes in the code)
    MaxHops   \* cap of the ancestry walks (64 in the code)

NoPage == 0

ASSUME NamingAssumption ==
    /\ PageId \subseteq Nat \ {NoPage}
    /\ IsFiniteSet(PageId)
    /\ Title \subseteq Nat
    /\ IdTail \in [PageId -> Nat]
    /\ MaxSegs \in Nat \ {0}
    /\ MaxHops \in Nat \ {0}

Parent == PageId \cup {NoPage}

Segment == Title \cup {IdTail[p] : p \in PageId}

\* The names validate_component accepts.
File == {n \in Seq(Segment) : Len(n) \in 1 .. MaxSegs}

-----------------------------------------------------------------------------

\* The page and its ancestors, nearest first, under the parent map `par`.
Ancestry(par, p) ==
    LET up[n \in 0 .. MaxHops] ==
          IF n = 0 THEN p
          ELSE IF up[n - 1] = NoPage THEN NoPage ELSE par[up[n - 1]]
    IN  up

\* Following parents from p never leaves the pages (MaxHops is at least the
\* number of pages): graph.rs calls this a cycle.
AncestryLoops(par, p) == Ancestry(par, p)[MaxHops] # NoPage

\* page_filename over the ancestor titles: a root page contributes no segment.
PageFilename(par, titleOf, p) ==
    LET up    == Ancestry(par, p)
        above == {n \in 1 .. MaxHops : up[n] # NoPage /\ par[up[n]] # NoPage}
        depth == Cardinality(above)
    IN  [i \in 1 .. depth + 1 |-> titleOf[up[depth + 1 - i]]]

WithIdSuffix(name, p) == Append(name, IdTail[p])

\* The order in which a reload lists the files: names are sorted, and a name
\* comes after those that go on with "--" where it ends with ".md".
Before(f, g) ==
    \E i \in 1 .. Len(f) :
        /\ \A j \in 1 .. i - 1 : j <= Len(g) /\ f[j] = g[j]
        /\ i > Len(g) \/ f[i] < g[i]
=============================================================================
