----------------------------- MODULE PageProofs ------------------------------
(***************************************************************************)
(* Proofs about the pages of berrywiki-core.                               *)
(*                                                                         *)
(* PageTree, for any number of pages, with any parents and positions: the  *)
(* walk is a pre-order over all of them, each once, and the sidebar is its *)
(* visible part.                                                           *)
(*                                                                         *)
(* PageSource, for any lines, tags, parents and bodies, and any number of  *)
(* changes: a page is read back as it was written, and the lines of its    *)
(* block that the program has no rule for stay.                            *)
(***************************************************************************)
EXTENDS PageTree, PageSource, FiniteSetTheorems, TLAPS

\* A set of numbers has a least one.
LEMMA LeastNumber ==
    ASSUME NEW T, T \subseteq Nat, T # {}
    PROVE  \E x \in T : \A y \in T : x <= y
  <1> DEFINE R == OpToRel(<, Nat)
  <1>1. PICK x \in T : \A y \in T : <<y, x>> \notin R
    BY WFMin, NatLessThanWellFounded, Zenon
  <1>2. ASSUME NEW y \in T PROVE ~(y < x)
    BY <1>1 DEF OpToRel
  <1> QED
    BY <1>2

-----------------------------------------------------------------------------
(* PageTree: the walk and the sidebar *)

PagesOK == pages \in [Index -> Page] /\ UniqueIds

-----------------------------------------------------------------------------
(* The order of siblings *)

\* The fields of a page are numbers, and its id is one of the ids there are.
LEMMA PageTypes ==
    ASSUME PagesOK, NEW i \in Index
    PROVE  /\ pages[i].position \in Nat /\ pages[i].id \in Nat /\ i \in Nat
           /\ pages[i].id \in Id
  <1>1. pages[i] \in Page
    BY DEF PagesOK
  <1>2. pages[i].position \in Position /\ pages[i].id \in Id
    BY <1>1 DEF Page
  <1>3. i \in Nat
    BY DEF Index
  <1> QED
    BY <1>2, <1>3, PageTreeAssumption, Zenon

\* The order of siblings is strict and total, and it refines the order the properties speak of.
LEMMA BeforeIsOrder ==
    ASSUME PagesOK
    PROVE  /\ \A i, j \in Index : i # j => Before(i, j) \/ Before(j, i)
           /\ \A i \in Index : ~Before(i, i)
           /\ \A i, j, k \in Index : Before(i, j) /\ Before(j, k) => Before(i, k)
           /\ \A i, j \in Index : Before(i, j) => SiblingBefore(i, j)
  <1>1. \A i \in Index : pages[i].position \in Nat /\ pages[i].id \in Nat /\ i \in Nat
    BY PageTypes
  <1>2. \A i, j \in Index : pages[i].id = pages[j].id => i = j
    BY DEF PagesOK, UniqueIds
  <1> QED
    BY <1>1, <1>2 DEF Before, SiblingBefore

\* Sorted lists every member of a set of pages, each before those it is Before.
LEMMA SortedLists ==
    ASSUME PagesOK, NEW S \in SUBSET Index
    PROVE  /\ Cardinality(S) \in Nat
           /\ \A k \in 1 .. Cardinality(S) : Sorted(S)[k] \in S
           /\ \A i \in S : \E k \in 1 .. Cardinality(S) : Sorted(S)[k] = i
           /\ \A k, l \in 1 .. Cardinality(S) : k < l => Before(Sorted(S)[k], Sorted(S)[l])
  <1> DEFINE N == Cardinality(S)
             Less(i) == {j \in S : Before(j, i)}
             rank(i) == Cardinality(Less(i))
  <1>1. IsFiniteSet(S) /\ N \in Nat
    <2>1. IsFiniteSet(1 .. Files)
      BY PageTreeAssumption, FS_Interval
    <2>2. IsFiniteSet(S)
      BY <2>1, FS_Subset DEF Index
    <2> QED
      BY <2>2, FS_CardinalityType
  <1>2. ASSUME NEW i \in S PROVE rank(i) \in 0 .. N - 1
    <2>1. Less(i) \in SUBSET S /\ i \notin Less(i)
      BY BeforeIsOrder
    <2>2. rank(i) \in Nat /\ rank(i) <= N /\ rank(i) # N
      BY <1>1, <2>1, FS_Subset, FS_CardinalityType
    <2> QED
      BY <1>1, <2>2
  <1>3. ASSUME NEW i \in S, NEW j \in S, Before(i, j) PROVE rank(i) < rank(j)
    <2>1. Less(i) \subseteq Less(j) /\ i \in Less(j) \ Less(i)
      BY <1>3, BeforeIsOrder
    <2>2. IsFiniteSet(Less(j))
      BY <1>1, FS_Subset
    <2>3. rank(i) <= rank(j) /\ rank(i) # rank(j)
      BY <2>1, <2>2, FS_Subset
    <2> QED
      BY <1>2, <2>3
  <1>4. ASSUME NEW i \in S, NEW j \in S, rank(i) = rank(j) PROVE i = j
    <2>1. ~Before(i, j) /\ ~Before(j, i)
      <3> HIDE DEF rank
      <3> QED
        BY <1>1, <1>2, <1>3, <1>4
    <2> QED
      BY <2>1, BeforeIsOrder
  <1> HIDE DEF rank, Less
  <1>5. ASSUME NEW r \in 0 .. N - 1 PROVE \E i \in S : rank(i) = r
    <2>1. SUFFICES ASSUME \A i \in S : rank(i) # r PROVE FALSE
      OBVIOUS
    <2> DEFINE T == (0 .. N - 1) \ {r}
               f == [i \in S |-> rank(i)]
    <2>2. IsFiniteSet(0 .. N - 1) /\ Cardinality(0 .. N - 1) = N
      BY <1>1, FS_Interval
    <2>3. IsFiniteSet(T) /\ Cardinality(T) < N
      <3>1. IsFiniteSet(T) /\ Cardinality(T) = Cardinality(0 .. N - 1) - 1
        BY <2>2, FS_RemoveElement
      <3> QED
        BY <1>1, <2>2, <3>1
    <2>4. f \in [S -> T]
      BY <1>2, <2>1
    <2> HIDE DEF f, T
    <2>5. PICK i \in S, j \in S : i # j /\ f[i] = f[j]
      BY <1>1, <2>3, <2>4, FS_PigeonHole
    <2> QED
      BY <1>4, <2>5 DEF f
  <1>6. ASSUME NEW k \in 1 .. N PROVE Sorted(S)[k] \in S /\ rank(Sorted(S)[k]) = k - 1
    <2>1. \E i \in S : rank(i) = k - 1
      BY <1>1, <1>5
    <2>2. Sorted(S)[k] = CHOOSE i \in S : rank(i) = k - 1
      BY DEF Sorted, rank, Less
    <2> QED
      BY <2>1, <2>2
  <1>7. ASSUME NEW i \in S PROVE \E k \in 1 .. N : Sorted(S)[k] = i
    <2>1. rank(i) + 1 \in 1 .. N
      BY <1>1, <1>2
    <2>2. Sorted(S)[rank(i) + 1] \in S /\ rank(Sorted(S)[rank(i) + 1]) = rank(i)
      BY <1>2, <1>6, <2>1
    <2> QED
      BY <1>4, <2>1, <2>2
  <1>8. ASSUME NEW k \in 1 .. N, NEW l \in 1 .. N, k < l
        PROVE  Before(Sorted(S)[k], Sorted(S)[l])
    <2>1. rank(Sorted(S)[k]) < rank(Sorted(S)[l])
      BY <1>1, <1>6, <1>8
    <2> QED
      BY <1>3, <1>6, <2>1, <1>2, BeforeIsOrder
  <1> QED
    BY <1>1, <1>6, <1>7, <1>8

-----------------------------------------------------------------------------
(* Following parents *)

\* Roots, children and order depend on the pages alone.
LEMMA SamePages ==
    ASSUME pages' = pages
    PROVE  /\ Roots' = Roots
           /\ \A id : Children(id)' = Children(id)
           /\ \A i, j : Before(i, j)' = Before(i, j)
  <1>1. \A id : ParentOf(id)' = ParentOf(id)
    BY DEF ParentOf, HasParent, Known, Index
  <1>2. \A id : Loops(id)' = Loops(id)
    BY <1>1 DEF Loops, Ancestor
  <1> QED
    BY <1>2 DEF Roots, Children, HasParent, Known, Index, Before

\* The parent of a page, as the map of parents has it.
LEMMA ParentOfPage ==
    ASSUME PagesOK
    PROVE  /\ \A i \in Index : ParentOf(pages[i].id) =
                                  IF HasParent(i) THEN pages[i].parent ELSE NoParent
           /\ ParentOf(NoParent) = NoParent
  <1>1. \A i, j \in Index : pages[i].id = pages[j].id => i = j
    BY DEF PagesOK, UniqueIds
  <1>2. ASSUME NEW i \in Index
        PROVE  ParentOf(pages[i].id) = IF HasParent(i) THEN pages[i].parent ELSE NoParent
    <2> DEFINE with == {j \in Index : pages[j].id = pages[i].id /\ HasParent(j)}
               last == CHOOSE j \in with : \A k \in with : k <= j
    <2>1. CASE HasParent(i)
      <3>1. with = {i}
        BY <1>1, <2>1
      <3>2. i \in Nat
        BY DEF Index
      <3>3. last = i
        BY <3>1, <3>2
      <3>4. ParentOf(pages[i].id) = IF with = {} THEN NoParent ELSE pages[last].parent
        BY DEF ParentOf
      <3> HIDE DEF with, last
      <3>5. with # {}
        BY <3>1
      <3> QED
        BY <2>1, <3>3, <3>4, <3>5
    <2>2. CASE ~HasParent(i)
      <3>1. with = {}
        BY <1>1, <2>2
      <3> QED
        BY <2>2, <3>1 DEF ParentOf
    <2> QED
      BY <2>1, <2>2
  <1>3. ParentOf(NoParent) = NoParent
    <2>1. \A i \in Index : pages[i].id # NoParent
      BY PageTreeAssumption DEF PagesOK, Page
    <2> QED
      BY <2>1 DEF ParentOf
  <1> QED
    BY <1>2, <1>3

\* What Ancestor defines: the first n ids up from an id.
Climbs(id, n, f) == f = [k \in 0 .. n |-> IF k = 0 THEN id ELSE ParentOf(f[k - 1])]

\* There is always a climb of n steps.
LEMMA ClimbExists ==
    ASSUME NEW id, NEW n \in Nat
    PROVE  \E f : Climbs(id, n, f)
  <1> DEFINE Bad == {m \in Nat : ~\E f : Climbs(id, m, f)}
  <1>1. ASSUME Bad # {} PROVE FALSE
    <2>1. PICK m \in Bad : \A y \in Bad : m <= y
      BY <1>1, LeastNumber
    <2>2. m # 0
      <3> DEFINE g == [k \in 0 .. 0 |-> id]
      <3>1. Climbs(id, 0, g)
        BY DEF Climbs
      <3> QED
        BY <3>1
    <2>3. m - 1 \in Nat /\ m - 1 \notin Bad
      BY <2>1, <2>2
    <2>4. PICK f : Climbs(id, m - 1, f)
      BY <2>3
    <2> DEFINE g == [k \in 0 .. m |-> IF k = 0 THEN id ELSE ParentOf(f[k - 1])]
    <2>5. \A k \in 0 .. m - 1 : g[k] = f[k]
      BY <2>3, <2>4 DEF Climbs
    <2>6. \A k \in 0 .. m : g[k] = IF k = 0 THEN id ELSE ParentOf(g[k - 1])
      <3> SUFFICES ASSUME NEW k \in 0 .. m, k # 0 PROVE g[k] = ParentOf(g[k - 1])
        OBVIOUS
      <3>1. k - 1 \in 0 .. m - 1
        BY <2>1
      <3> QED
        BY <3>1, <2>5
    <2>7. Climbs(id, m, g)
      <3> HIDE DEF g
      <3>1. g = [k \in 0 .. m |-> g[k]]
        BY DEF g
      <3> QED
        BY <2>6, <3>1 DEF Climbs
    <2> QED
      BY <2>7
  <1> QED
    BY <1>1

\* A shorter climb is the beginning of a longer one.
LEMMA ClimbsAgree ==
    ASSUME NEW id, NEW m \in Nat, NEW n \in Nat, NEW f, NEW g,
           Climbs(id, m, f), Climbs(id, n, g), NEW k \in 0 .. m, k <= n
    PROVE  f[k] = g[k]
  <1> DEFINE Bad == {i \in 0 .. k : f[i] # g[i]}
  <1>1. ASSUME Bad # {} PROVE FALSE
    <2>1. PICK i \in Bad : \A y \in Bad : i <= y
      <3>1. Bad \subseteq Nat
        OBVIOUS
      <3> QED
        BY <1>1, <3>1, LeastNumber
    <2>2. i # 0
      BY DEF Climbs
    <2>3. i - 1 \in 0 .. k /\ f[i - 1] = g[i - 1]
      BY <2>1, <2>2
    <2> QED
      BY <2>2, <2>3 DEF Climbs
  <1> QED
    BY <1>1

\* Ancestor climbs one step at a time.
LEMMA AncestorSteps ==
    ASSUME NEW id
    PROVE  /\ Ancestor(id, 0) = id
           /\ \A n \in Nat : Ancestor(id, n + 1) = ParentOf(Ancestor(id, n))
  <1>1. ASSUME NEW n \in Nat
        PROVE  \E f : Climbs(id, n, f) /\ Ancestor(id, n) = f[n]
    <2> DEFINE f == CHOOSE f : Climbs(id, n, f)
    <2>1. Climbs(id, n, f)
      BY ClimbExists
    <2>2. Ancestor(id, n) = f[n]
      BY DEF Ancestor, Climbs
    <2> QED
      BY <2>1, <2>2
  <1>2. Ancestor(id, 0) = id
    BY <1>1 DEF Climbs
  <1>3. ASSUME NEW n \in Nat PROVE Ancestor(id, n + 1) = ParentOf(Ancestor(id, n))
    <2>1. PICK f : Climbs(id, n, f) /\ Ancestor(id, n) = f[n]
      BY <1>1
    <2>2. PICK g : Climbs(id, n + 1, g) /\ Ancestor(id, n + 1) = g[n + 1]
      BY <1>1
    <2>3. f[n] = g[n]
      BY <2>1, <2>2, ClimbsAgree
    <2> QED
      BY <2>1, <2>2, <2>3 DEF Climbs
  <1> QED
    BY <1>2, <1>3

-----------------------------------------------------------------------------
(* Visits and splices *)

\* Following the ids of a visit down, its own last.
Trail(v, d) == IF d <= Depth(v) THEN v.above[d] ELSE pages[v.at].id
Path(v) == Append(v.above, pages[v.at].id)
Under(v, h) ==
    Depth(v) > Depth(h) /\ \A d \in 1 .. Depth(h) + 1 : v.above[d] = Trail(h, d)

\* The types of a visit and of the path it hands to its children.
LEMMA VisitFacts ==
    ASSUME PagesOK, NEW v \in Visit
    PROVE  /\ v.at \in Index /\ v.above \in Seq(Id) /\ Depth(v) \in Nat
           /\ pages[v.at].id \in Id
           /\ Path(v) \in Seq(Id) /\ Len(Path(v)) = Depth(v) + 1
           /\ \A d \in 1 .. Depth(v) + 1 : Path(v)[d] = Trail(v, d)
  <1>1. v.at \in Index /\ v.above \in Seq(Id) /\ Depth(v) \in Nat
    BY DEF Visit, Depth
  <1>2. pages[v.at].id \in Id
    BY <1>1 DEF PagesOK, Page
  <1> QED
    BY <1>1, <1>2 DEF Path, Trail, Depth

\* Sequences of ids with the same ids at the same places are one.
LEMMA SameIds ==
    ASSUME NEW a \in Seq(Id), NEW b \in Seq(Id), Len(a) = Len(b),
           \A d \in 1 .. Len(a) : a[d] = b[d]
    PROVE  a = b
  OBVIOUS

\* What Visits lists.
LEMMA VisitsFacts ==
    ASSUME PagesOK, NEW S \in SUBSET Index, NEW above \in Seq(Id),
           NEW b, b = Visits(S, above)
    PROVE  /\ b \in Seq(Visit)
           /\ \A k \in 1 .. Len(b) : b[k].at \in S /\ b[k].above = above
           /\ \A i \in S : \E k \in 1 .. Len(b) : b[k] = [at |-> i, above |-> above]
           /\ \A k, l \in 1 .. Len(b) : k < l => SiblingBefore(b[k].at, b[l].at)
  <1> DEFINE N == Cardinality(S)
  <1>1. /\ N \in Nat
        /\ \A k \in 1 .. N : Sorted(S)[k] \in S
        /\ \A i \in S : \E k \in 1 .. N : Sorted(S)[k] = i
        /\ \A k, l \in 1 .. N : k < l => Before(Sorted(S)[k], Sorted(S)[l])
    BY SortedLists
  <1>2. b = [k \in 1 .. N |-> [at |-> Sorted(S)[k], above |-> above]]
    BY DEF Visits
  <1> HIDE DEF N
  <1>3. b \in Seq(Visit) /\ Len(b) = N
    <2>1. \A k \in 1 .. N : [at |-> Sorted(S)[k], above |-> above] \in Visit
      BY <1>1 DEF Visit
    <2> QED
      BY <1>1, <1>2, <2>1
  <1>4. /\ \A k \in 1 .. N : b[k] = [at |-> Sorted(S)[k], above |-> above]
        /\ \A k \in 1 .. N : b[k].at = Sorted(S)[k] /\ b[k].above = above
    BY <1>2
  <1>5. \A k, l \in 1 .. N : k < l => SiblingBefore(Sorted(S)[k], Sorted(S)[l])
    BY <1>1, BeforeIsOrder
  <1>6. \A k \in 1 .. N : b[k].at \in S /\ b[k].above = above
    BY <1>1, <1>4
  <1>7. \A i \in S : \E k \in 1 .. N : b[k] = [at |-> i, above |-> above]
    BY <1>1, <1>4
  <1>8. \A k, l \in 1 .. N : k < l => SiblingBefore(b[k].at, b[l].at)
    BY <1>4, <1>5
  <1> QED
    BY <1>3, <1>6, <1>7, <1>8

\* The visits below a visit: one for each child, in order.
LEMMA BelowFacts ==
    ASSUME PagesOK, NEW h \in Visit, NEW b, b = Below(h)
    PROVE  /\ b \in Seq(Visit)
           /\ \A k \in 1 .. Len(b) : /\ b[k].at \in Children(pages[h.at].id)
                                     /\ b[k].above = Path(h)
           /\ \A i \in Children(pages[h.at].id) :
                 \E k \in 1 .. Len(b) : b[k] = [at |-> i, above |-> Path(h)]
           /\ \A k, l \in 1 .. Len(b) : k < l => SiblingBefore(b[k].at, b[l].at)
  <1>1. Path(h) \in Seq(Id)
    BY VisitFacts
  <1>2. Children(pages[h.at].id) \in SUBSET Index
    BY DEF Children
  <1>3. b = Visits(Children(pages[h.at].id), Path(h))
    BY DEF Below, Path
  <1> DEFINE C == Children(pages[h.at].id)
             P == Path(h)
  <1> HIDE DEF C, P
  <1>4. P \in Seq(Id) /\ C \in SUBSET Index /\ b = Visits(C, P)
    BY <1>1, <1>2, <1>3 DEF C, P
  <1>5. /\ b \in Seq(Visit)
        /\ \A k \in 1 .. Len(b) : b[k].at \in C /\ b[k].above = P
        /\ \A i \in C : \E k \in 1 .. Len(b) : b[k] = [at |-> i, above |-> P]
        /\ \A k, l \in 1 .. Len(b) : k < l => SiblingBefore(b[k].at, b[l].at)
    BY <1>4, VisitsFacts
  <1> QED
    BY <1>5 DEF C, P

\* t is s with the children of its entry n + 1 put in after it.
Grown(s, n, t, c) ==
    /\ s \in Seq(Visit) /\ t \in Seq(Visit)
    /\ n \in Nat /\ c \in Nat /\ n < Len(s) /\ Len(t) = Len(s) + c
    /\ \A k \in 1 .. n + 1 : t[k] = s[k]
    /\ \A k \in n + 2 .. Len(s) : t[k + c] = s[k]
    /\ \A k \in n + 2 .. n + 1 + c :
          /\ t[k].at \in Children(pages[s[n + 1].at].id)
          /\ t[k].above = Path(s[n + 1])
    /\ \A i \in Children(pages[s[n + 1].at].id) :
          \E k \in n + 2 .. n + 1 + c : t[k] = [at |-> i, above |-> Path(s[n + 1])]
    /\ \A k, l \in n + 2 .. n + 1 + c : k < l => SiblingBefore(t[k].at, t[l].at)

\* Listing the head of the stack and putting its children in its place is such a splice.
LEMMA Splices ==
    ASSUME PagesOK, NEW w \in Seq(Visit), NEW r \in Seq(Visit), r # <<>>
    PROVE  \E c : Grown(w \o r, Len(w), Append(w, Head(r)) \o (Below(Head(r)) \o Tail(r)), c)
  <1> DEFINE h == Head(r)
             b == Below(h)
             s == w \o r
             t == Append(w, h) \o (b \o Tail(r))
             n == Len(w)
             c == Len(b)
             S == Children(pages[h.at].id)
  <1>1. h \in Visit /\ Tail(r) \in Seq(Visit) /\ Len(Tail(r)) = Len(r) - 1 /\ Len(r) \in Nat \ {0}
    OBVIOUS
  <1>2. /\ b \in Seq(Visit)
        /\ \A k \in 1 .. Len(b) : b[k].at \in S /\ b[k].above = Path(h)
        /\ \A i \in S : \E k \in 1 .. Len(b) : b[k] = [at |-> i, above |-> Path(h)]
        /\ \A k, l \in 1 .. Len(b) : k < l => SiblingBefore(b[k].at, b[l].at)
    <2> HIDE DEF b, h
    <2> QED
      BY <1>1, BelowFacts DEF b
  <1> HIDE DEF b, S
  <1>3. s \in Seq(Visit) /\ Len(s) = n + Len(r) /\ s[n + 1] = h /\ n \in Nat /\ c \in Nat
    BY <1>1, <1>2
  <1>4. t \in Seq(Visit) /\ Len(t) = Len(s) + c
    BY <1>1, <1>2
  <1>5. \A k \in 1 .. n + 1 : t[k] = s[k]
    <2>1. \A k \in 1 .. n : t[k] = w[k] /\ s[k] = w[k]
      BY <1>1, <1>2
    <2>2. t[n + 1] = h
      BY <1>1, <1>2
    <2> QED
      BY <1>3, <2>1, <2>2
  <1>6. \A k \in 1 .. c : t[n + 1 + k] = b[k]
    BY <1>1, <1>2
  <1>7. \A k \in n + 2 .. Len(s) : t[k + c] = s[k]
    <2> SUFFICES ASSUME NEW k \in n + 2 .. Len(s) PROVE t[k + c] = s[k]
      OBVIOUS
    <2>1. k - n \in 2 .. Len(r) /\ k - n - 1 \in 1 .. Len(Tail(r))
      BY <1>1, <1>3
    <2>2. s[k] = r[k - n]
      BY <1>1, <1>3, <2>1
    <2>3. Tail(r)[k - n - 1] = r[k - n]
      BY <1>1, <2>1
    <2>4. t[k + c] = (b \o Tail(r))[k + c - (n + 1)]
      BY <1>1, <1>2, <1>3, <2>1
    <2>5. (b \o Tail(r))[k + c - (n + 1)] = Tail(r)[k - n - 1]
      BY <1>1, <1>2, <1>3, <2>1
    <2> QED
      BY <2>2, <2>3, <2>4, <2>5
  <1> HIDE DEF s, t, n, c, h
  <1>8. \A k \in n + 2 .. n + 1 + c : k - n - 1 \in 1 .. c /\ t[k] = b[k - n - 1]
    <2> SUFFICES ASSUME NEW k \in n + 2 .. n + 1 + c
                 PROVE  k - n - 1 \in 1 .. c /\ t[k] = b[k - n - 1]
      OBVIOUS
    <2>1. k - n - 1 \in 1 .. c /\ n + 1 + (k - n - 1) = k
      BY <1>3
    <2> QED
      BY <1>6, <2>1
  <1>9. c = Len(b)
    BY DEF c
  <1>10. \A k \in n + 2 .. n + 1 + c : t[k].at \in S /\ t[k].above = Path(h)
    BY <1>2, <1>8, <1>9
  <1>11. \A i \in S : \E k \in n + 2 .. n + 1 + c : t[k] = [at |-> i, above |-> Path(h)]
    <2> SUFFICES ASSUME NEW i \in S
                 PROVE  \E k \in n + 2 .. n + 1 + c : t[k] = [at |-> i, above |-> Path(h)]
      OBVIOUS
    <2>1. PICK k \in 1 .. c : b[k] = [at |-> i, above |-> Path(h)]
      BY <1>2, <1>9
    <2>2. n + 1 + k \in n + 2 .. n + 1 + c
      BY <1>3
    <2> QED
      BY <1>6, <2>1, <2>2
  <1>12. \A k, l \in n + 2 .. n + 1 + c : k < l => SiblingBefore(t[k].at, t[l].at)
    <2> SUFFICES ASSUME NEW k \in n + 2 .. n + 1 + c, NEW l \in n + 2 .. n + 1 + c, k < l
                 PROVE  SiblingBefore(t[k].at, t[l].at)
      OBVIOUS
    <2>1. k - n - 1 < l - n - 1
      BY <1>3
    <2> QED
      BY <1>2, <1>8, <1>9, <2>1
  <1>13. n < Len(s)
    BY <1>1, <1>3
  <1>14. Grown(s, n, t, c)
    BY <1>3, <1>4, <1>5, <1>7, <1>10, <1>11, <1>12, <1>13 DEF Grown, S
  <1> QED
    BY <1>14 DEF s, t, n, h, b

-----------------------------------------------------------------------------
(* A walk under way: s is what is listed and what is still to visit, n how *)
(* much of it is listed.                                                   *)

Once(s) == \A k, l \in 1 .. Len(s) : s[k].at = s[l].at => k = l

\* The pages a visit was reached through are listed, and before it.
Reached(s, n) ==
    \A k \in 1 .. Len(s) : \A d \in 1 .. Depth(s[k]) :
       \E j \in 1 .. n : /\ j < k /\ Depth(s[j]) = d - 1
                         /\ \A e \in 1 .. d : s[k].above[e] = Trail(s[j], e)

Placed(s) ==
    \A k \in 1 .. Len(s) :
       IF Depth(s[k]) = 0 THEN s[k].at \in Roots
       ELSE s[k].at \in Children(s[k].above[Depth(s[k])])

\* Every root is there, and every child of what is listed.
Full(s, n) ==
    /\ \A i \in Roots : \E k \in 1 .. Len(s) : s[k] = [at |-> i, above |-> <<>>]
    /\ \A m \in 1 .. n : \A i \in Children(pages[s[m].at].id) :
          \E k \in 1 .. Len(s) : s[k] = [at |-> i, above |-> Path(s[m])]

Siblings(s) ==
    \A k, l \in 1 .. Len(s) :
       k < l /\ s[k].above = s[l].above => SiblingBefore(s[k].at, s[l].at)

\* A visit goes down from the one before it, at most one level, or goes up.
Follows(s, n) ==
    \A k \in 2 .. Len(s) :
       /\ Depth(s[k]) <= Depth(s[k - 1]) + 1
       /\ k - 1 > n => Depth(s[k]) <= Depth(s[k - 1])
       /\ \A d \in 1 .. Depth(s[k]) : s[k].above[d] = Trail(s[k - 1], d)

Walking(s, n) ==
    /\ s \in Seq(Visit) /\ n \in 0 .. Len(s)
    /\ Once(s) /\ Reached(s, n) /\ Placed(s) /\ Full(s, n) /\ Siblings(s) /\ Follows(s, n)

\* VisitFacts, for a place in a sequence of visits.
LEMMA At ==
    ASSUME PagesOK, NEW s \in Seq(Visit), NEW k \in 1 .. Len(s)
    PROVE  /\ s[k] \in Visit /\ s[k].at \in Index /\ s[k].above \in Seq(Id)
           /\ Depth(s[k]) \in Nat /\ Len(s[k].above) = Depth(s[k])
           /\ pages[s[k].at].id \in Id
           /\ Path(s[k]) \in Seq(Id) /\ Len(Path(s[k])) = Depth(s[k]) + 1
           /\ \A d \in 1 .. Depth(s[k]) + 1 : Path(s[k])[d] = Trail(s[k], d)
  <1>1. s[k] \in Visit
    OBVIOUS
  <1> QED
    BY <1>1, VisitFacts DEF Depth

\* The places of a grown walk: those of the walk, and the new ones.
LEMMA GrownSizes ==
    ASSUME NEW s, NEW n, NEW t, NEW c, Grown(s, n, t, c)
    PROVE  /\ n \in Nat /\ c \in Nat /\ Len(s) \in Nat /\ Len(t) = Len(s) + c
           /\ n + 1 \in 1 .. Len(s)
           /\ \A k \in n + 2 .. n + 1 + c : k \in 1 .. Len(t) /\ k > n + 1
  <1>1. /\ n \in Nat /\ c \in Nat /\ Len(s) \in Nat /\ Len(t) = Len(s) + c
        /\ n + 1 \in 1 .. Len(s)
    BY DEF Grown
  <1> QED
    BY <1>1

\* A place after a splice is an old one before it, a new one, or an old one moved on by c.
LEMMA PlaceOf ==
    ASSUME NEW s, NEW n, NEW t, NEW c, Grown(s, n, t, c), NEW k \in 1 .. Len(t)
    PROVE  \/ k \in 1 .. Len(s) /\ k <= n + 1 /\ t[k] = s[k]
           \/ k \in n + 2 .. n + 1 + c
           \/ k - c \in 1 .. Len(s) /\ k - c > n + 1 /\ t[k] = s[k - c]
  <1>1. /\ n \in Nat /\ c \in Nat /\ Len(s) \in Nat /\ Len(t) = Len(s) + c
        /\ n + 1 \in 1 .. Len(s)
    BY GrownSizes
  <1>2. CASE k <= n + 1
    <2>1. k \in 1 .. n + 1 /\ k \in 1 .. Len(s)
      BY <1>1, <1>2
    <2> QED
      BY <1>2, <2>1 DEF Grown
  <1>3. CASE k > n + 1 + c
    <2>1. k - c \in n + 2 .. Len(s) /\ (k - c) + c = k /\ k - c \in 1 .. Len(s) /\ k - c > n + 1
      BY <1>1, <1>3
    <2>2. \A l \in n + 2 .. Len(s) : t[l + c] = s[l]
      BY DEF Grown
    <2>3. t[(k - c) + c] = s[k - c]
      BY <2>1, <2>2
    <2> QED
      BY <2>1, <2>3
  <1> QED
    BY <1>1, <1>2, <1>3

\* The third case of PlaceOf.
LEMMA PlaceAfter ==
    ASSUME NEW s, NEW n, NEW t, NEW c, Grown(s, n, t, c),
           NEW k \in 1 .. Len(t), k > n + 1, k \notin n + 2 .. n + 1 + c
    PROVE  k - c \in 1 .. Len(s) /\ k - c > n + 1 /\ t[k] = s[k - c]
  <1>1. n \in Nat /\ ~(k <= n + 1)
    BY GrownSizes
  <1> QED
    BY <1>1, PlaceOf

\* A splice loses no visit,
LEMMA PlaceKept ==
    ASSUME NEW s, NEW n, NEW t, NEW c, Grown(s, n, t, c), NEW k \in 1 .. Len(s)
    PROVE  \E l \in 1 .. Len(t) : t[l] = s[k]
  <1>1. n \in Nat /\ c \in Nat /\ Len(s) \in Nat /\ Len(t) = Len(s) + c
    BY GrownSizes
  <1>2. CASE k <= n + 1
    <2>1. k \in 1 .. n + 1 /\ k \in 1 .. Len(t)
      BY <1>1, <1>2
    <2> QED
      BY <2>1 DEF Grown
  <1>3. CASE k > n + 1
    <2>1. k \in n + 2 .. Len(s) /\ k + c \in 1 .. Len(t)
      BY <1>1, <1>3
    <2> QED
      BY <2>1 DEF Grown
  <1> QED
    BY <1>1, <1>2, <1>3

\* and what is not new in it was there before, no later,
LEMMA OldPlace ==
    ASSUME NEW s, NEW n, NEW t, NEW c, Grown(s, n, t, c),
           NEW k \in 1 .. Len(t), k \notin n + 2 .. n + 1 + c
    PROVE  \E i \in 1 .. Len(s) : i <= k /\ t[k] = s[i]
  <1>1. CASE k \in 1 .. Len(s) /\ t[k] = s[k]
    BY <1>1
  <1>2. CASE k - c \in 1 .. Len(s) /\ t[k] = s[k - c]
    <2>1. k - c <= k
      BY GrownSizes
    <2> QED
      BY <1>2, <2>1
  <1> QED
    BY <1>1, <1>2, PlaceOf

\* in the order it had.
LEMMA OldPlaces ==
    ASSUME NEW s, NEW n, NEW t, NEW c, Grown(s, n, t, c),
           NEW k \in 1 .. Len(t), k \notin n + 2 .. n + 1 + c,
           NEW l \in 1 .. Len(t), l \notin n + 2 .. n + 1 + c, k < l
    PROVE  \E i, j \in 1 .. Len(s) : i < j /\ t[k] = s[i] /\ t[l] = s[j]
  <1>1. n \in Nat /\ c \in Nat
    BY GrownSizes
  <1>2. \/ k \in 1 .. Len(s) /\ k <= n + 1 /\ t[k] = s[k]
        \/ k - c \in 1 .. Len(s) /\ k - c > n + 1 /\ t[k] = s[k - c]
    BY PlaceOf
  <1>3. \/ l \in 1 .. Len(s) /\ l <= n + 1 /\ t[l] = s[l]
        \/ l - c \in 1 .. Len(s) /\ l - c > n + 1 /\ t[l] = s[l - c]
    BY PlaceOf
  <1>4. CASE k \in 1 .. Len(s) /\ k <= n + 1 /\ t[k] = s[k]
    <2>1. CASE l \in 1 .. Len(s) /\ t[l] = s[l]
      BY <1>4, <2>1
    <2>2. CASE l - c \in 1 .. Len(s) /\ l - c > n + 1 /\ t[l] = s[l - c]
      <3>1. k < l - c
        BY <1>1, <1>4, <2>2
      <3> QED
        BY <1>4, <2>2, <3>1
    <2> QED
      BY <1>3, <2>1, <2>2
  <1>5. CASE k - c \in 1 .. Len(s) /\ k - c > n + 1 /\ t[k] = s[k - c]
    <2>1. ~(l <= n + 1) /\ k - c < l - c
      BY <1>1, <1>5
    <2>2. l - c \in 1 .. Len(s) /\ t[l] = s[l - c]
      BY <1>3, <2>1
    <2> QED
      BY <1>5, <2>1, <2>2
  <1> QED
    BY <1>2, <1>4, <1>5

\* The children of the page to visit next are nowhere in the walk yet.
LEMMA ChildrenAreNew ==
    ASSUME PagesOK, NEW s \in Seq(Visit), NEW n \in Nat, n < Len(s),
           Once(s), Reached(s, n), Placed(s), NEW k \in 1 .. Len(s)
    PROVE  /\ s[k].at \notin Children(pages[s[n + 1].at].id)
           /\ s[k].above # Path(s[n + 1])
  <1> DEFINE D == Depth(s[k])
             h == s[n + 1]
  <1>1. n + 1 \in 1 .. Len(s)
    OBVIOUS
  <1>2. ASSUME D # 0, s[k].above[D] = pages[h.at].id PROVE FALSE
    <2>1. D \in 1 .. Depth(s[k])
      BY <1>2, At
    <2>2. PICK j \in 1 .. n : /\ Depth(s[j]) = D - 1
                              /\ \A e \in 1 .. D : s[k].above[e] = Trail(s[j], e)
      BY <2>1 DEF Reached
    <2>3. s[k].above[D] = Trail(s[j], D)
      BY <2>1, <2>2
    <2>4. Trail(s[j], D) = pages[s[j].at].id
      BY <2>1, <2>2 DEF Trail
    <2>5. s[j].at \in Index /\ h.at \in Index /\ j \in 1 .. Len(s) /\ j # n + 1
      BY <1>1, At
    <2>6. s[j].at = h.at
      BY <1>2, <2>3, <2>4, <2>5 DEF PagesOK, UniqueIds
    <2> QED
      BY <1>1, <2>5, <2>6 DEF Once
  <1>3. ASSUME s[k].at \in Children(pages[h.at].id) PROVE FALSE
    <2>1. s[k].at \notin Roots /\ pages[s[k].at].parent = pages[h.at].id
      BY <1>3 DEF Roots, Children
    <2>2. D # 0 /\ s[k].at \in Children(s[k].above[D])
      BY <2>1 DEF Placed
    <2>3. s[k].above[D] = pages[h.at].id
      BY <2>1, <2>2 DEF Children
    <2> QED
      BY <1>2, <2>2, <2>3
  <1>4. ASSUME s[k].above = Path(h) PROVE FALSE
    <2>1. D = Depth(h) + 1 /\ Depth(h) \in Nat
      <3>1. Len(Path(h)) = Depth(h) + 1 /\ Depth(h) \in Nat
        BY <1>1, At
      <3>2. D = Len(Path(h))
        BY <1>4 DEF Depth
      <3> HIDE DEF D, h
      <3> QED
        BY <3>1, <3>2
    <2>2. Path(h)[Depth(h) + 1] = Trail(h, Depth(h) + 1)
      <3>1. \A d \in 1 .. Depth(h) + 1 : Path(h)[d] = Trail(h, d)
        BY <1>1, At
      <3>2. Depth(h) + 1 \in 1 .. Depth(h) + 1
        BY <2>1
      <3> QED
        BY <3>1, <3>2
    <2>3. Trail(h, Depth(h) + 1) = pages[h.at].id
      BY <2>1 DEF Trail
    <2> QED
      BY <1>2, <1>4, <2>1, <2>2, <2>3
  <1> QED
    BY <1>3, <1>4

\* Listing the next page and putting its children first keeps each part.
LEMMA OnceGrows ==
    ASSUME PagesOK, NEW s, NEW n, NEW t, NEW c, Grown(s, n, t, c),
           Once(s), Reached(s, n), Placed(s)
    PROVE  Once(t)
  <1> DEFINE C == Children(pages[s[n + 1].at].id)
  <1>1. s \in Seq(Visit) /\ n \in Nat /\ n < Len(s)
    BY DEF Grown
  <1>2. \A k \in 1 .. Len(s) : s[k].at \notin C
    BY <1>1, ChildrenAreNew
  <1>3. \A k \in n + 2 .. n + 1 + c : t[k].at \in C
    BY DEF Grown
  <1>4. \A k, l \in n + 2 .. n + 1 + c : k < l => t[k].at # t[l].at
    <2>1. SUFFICES ASSUME NEW k \in n + 2 .. n + 1 + c, NEW l \in n + 2 .. n + 1 + c, k < l
                   PROVE  t[k].at # t[l].at
      OBVIOUS
    <2>2. SiblingBefore(t[k].at, t[l].at)
      BY <2>1 DEF Grown
    <2>3. t[k].at \in Index
      BY <1>3 DEF Children
    <2>4. pages[t[k].at].id \in Nat /\ pages[t[k].at].position \in Nat
      BY <2>3, PageTypes
    <2> QED
      BY <2>2, <2>4 DEF SiblingBefore
  <1> HIDE DEF C
  <1>5. ASSUME NEW k \in 1 .. Len(t), NEW l \in 1 .. Len(t), k < l
        PROVE  t[k].at # t[l].at
    <2>1. CASE k \in n + 2 .. n + 1 + c /\ l \in n + 2 .. n + 1 + c
      BY <1>4, <1>5, <2>1
    <2>2. CASE k \notin n + 2 .. n + 1 + c /\ l \notin n + 2 .. n + 1 + c
      <3>1. PICK i \in 1 .. Len(s), j \in 1 .. Len(s) : i < j /\ t[k] = s[i] /\ t[l] = s[j]
        BY <1>5, <2>2, OldPlaces
      <3> QED
        BY <3>1 DEF Once
    <2>3. CASE k \in n + 2 .. n + 1 + c /\ l \notin n + 2 .. n + 1 + c
      <3>1. PICK j \in 1 .. Len(s) : t[l] = s[j]
        BY <2>3, OldPlace
      <3> QED
        BY <1>2, <1>3, <2>3, <3>1
    <2>4. CASE k \notin n + 2 .. n + 1 + c /\ l \in n + 2 .. n + 1 + c
      <3>1. PICK i \in 1 .. Len(s) : t[k] = s[i]
        BY <2>4, OldPlace
      <3> QED
        BY <1>2, <1>3, <2>4, <3>1
    <2> QED
      BY <2>1, <2>2, <2>3, <2>4
  <1>6. ASSUME NEW k \in 1 .. Len(t), NEW l \in 1 .. Len(t), t[k].at = t[l].at
        PROVE  k = l
    <2>1. ~(k < l) /\ ~(l < k)
      BY <1>5, <1>6
    <2> QED
      BY <2>1
  <1> QED
    BY <1>6 DEF Once

\* A splice keeps Reached: the new visits were reached through the one just listed.
LEMMA ReachedGrows ==
    ASSUME PagesOK, NEW s, NEW n, NEW t, NEW c, Grown(s, n, t, c), Reached(s, n)
    PROVE  Reached(t, n + 1)
  <1> DEFINE h == s[n + 1]
  <1>1. /\ s \in Seq(Visit) /\ t \in Seq(Visit) /\ n \in Nat /\ c \in Nat
        /\ n + 1 \in 1 .. Len(s) /\ \A k \in 1 .. n + 1 : t[k] = s[k]
    BY DEF Grown
  <1>2. ASSUME NEW k \in 1 .. Len(s), NEW l \in Nat, k <= l, NEW d \in 1 .. Depth(s[k])
        PROVE  \E j \in 1 .. n + 1 : /\ j < l /\ Depth(t[j]) = d - 1
                                     /\ \A e \in 1 .. d : s[k].above[e] = Trail(t[j], e)
    <2>1. PICK j \in 1 .. n : /\ j < k /\ Depth(s[j]) = d - 1
                              /\ \A e \in 1 .. d : s[k].above[e] = Trail(s[j], e)
      BY DEF Reached
    <2>2. j \in 1 .. n + 1 /\ j < l /\ t[j] = s[j]
      BY <1>1, <1>2, <2>1
    <2> QED
      BY <2>1, <2>2
  <1>3. SUFFICES ASSUME NEW k \in 1 .. Len(t), NEW d \in 1 .. Depth(t[k])
                 PROVE  \E j \in 1 .. n + 1 :
                           /\ j < k /\ Depth(t[j]) = d - 1
                           /\ \A e \in 1 .. d : t[k].above[e] = Trail(t[j], e)
    BY DEF Reached
  <1>4. CASE k \in n + 2 .. n + 1 + c
    <2>1. t[k].above = Path(h)
      BY <1>4 DEF Grown
    <2>2. Depth(t[k]) = Depth(h) + 1 /\ Depth(h) \in Nat
      BY <1>1, <2>1, At DEF Depth
    <2>3. \A e \in 1 .. Depth(h) + 1 : t[k].above[e] = Trail(h, e)
      BY <1>1, <2>1, At
    <2>4. CASE d = Depth(h) + 1
      <3>1. t[n + 1] = h /\ n + 1 < k /\ n + 1 \in 1 .. n + 1
        BY <1>1, <1>4
      <3>2. Depth(t[n + 1]) = d - 1 /\ \A e \in 1 .. d : t[k].above[e] = Trail(t[n + 1], e)
        BY <2>2, <2>3, <2>4, <3>1
      <3> QED
        BY <3>1, <3>2
    <2>5. CASE d <= Depth(h)
      <3>1. d \in 1 .. Depth(h) /\ \A e \in 1 .. d : e \in 1 .. Depth(h) + 1 /\ e <= Depth(h)
        BY <2>2, <2>5
      <3>2. \A e \in 1 .. d : t[k].above[e] = h.above[e]
        BY <2>3, <3>1 DEF Trail
      <3>3. PICK j \in 1 .. n : /\ j < n + 1 /\ Depth(s[j]) = d - 1
                                /\ \A e \in 1 .. d : h.above[e] = Trail(s[j], e)
        BY <1>1, <3>1 DEF Reached
      <3>4. j < k /\ j \in 1 .. n + 1 /\ t[j] = s[j]
        BY <1>1, <1>4, SMTT(20)
      <3> QED
        BY <3>2, <3>3, <3>4
    <2> QED
      BY <2>2, <2>4, <2>5
  <1>5. CASE k \notin n + 2 .. n + 1 + c
    <2>1. PICK i \in 1 .. Len(s) : i <= k /\ t[k] = s[i]
      BY <1>5, OldPlace
    <2>2. k \in Nat /\ d \in 1 .. Depth(s[i])
      BY <1>3, <2>1
    <2>3. \E j \in 1 .. n + 1 : /\ j < k /\ Depth(t[j]) = d - 1
                                /\ \A e \in 1 .. d : s[i].above[e] = Trail(t[j], e)
      BY <1>2, <2>1, <2>2
    <2> QED
      BY <2>1, <2>3
  <1> QED
    BY <1>4, <1>5

\* A splice keeps Placed: what is new are children of a listed page.
LEMMA PlacedGrows ==
    ASSUME PagesOK, NEW s, NEW n, NEW t, NEW c, Grown(s, n, t, c), Placed(s)
    PROVE  Placed(t)
  <1> DEFINE h == s[n + 1]
  <1>1. s \in Seq(Visit) /\ n + 1 \in 1 .. Len(s)
    BY DEF Grown
  <1>2. SUFFICES ASSUME NEW k \in 1 .. Len(t)
                 PROVE  IF Depth(t[k]) = 0 THEN t[k].at \in Roots
                        ELSE t[k].at \in Children(t[k].above[Depth(t[k])])
    BY DEF Placed
  <1>3. CASE k \in n + 2 .. n + 1 + c
    <2>1. t[k].above = Path(h) /\ t[k].at \in Children(pages[h.at].id)
      BY <1>3 DEF Grown
    <2>2. Depth(t[k]) = Depth(h) + 1 /\ Depth(h) \in Nat
      BY <1>1, <2>1, At DEF Depth
    <2>3. t[k].above[Depth(t[k])] = Trail(h, Depth(h) + 1)
      BY <1>1, <2>1, <2>2, At, SMTT(20)
    <2>4. Trail(h, Depth(h) + 1) = pages[h.at].id
      BY <2>2 DEF Trail
    <2> QED
      BY <2>1, <2>2, <2>3, <2>4
  <1>4. CASE k \notin n + 2 .. n + 1 + c
    <2>1. PICK i \in 1 .. Len(s) : t[k] = s[i]
      BY <1>4, OldPlace
    <2> QED
      BY <2>1 DEF Placed
  <1> QED
    BY <1>3, <1>4

\* A splice keeps Full: all children of the page just listed are in it.
LEMMA FullGrows ==
    ASSUME PagesOK, NEW s, NEW n, NEW t, NEW c, Grown(s, n, t, c), Full(s, n)
    PROVE  Full(t, n + 1)
  <1>1. \A k \in 1 .. Len(s) : \E l \in 1 .. Len(t) : t[l] = s[k]
    BY PlaceKept
  <1>2. \A i \in Roots : \E k \in 1 .. Len(t) : t[k] = [at |-> i, above |-> <<>>]
    <2> SUFFICES ASSUME NEW i \in Roots
                 PROVE  \E k \in 1 .. Len(t) : t[k] = [at |-> i, above |-> <<>>]
      OBVIOUS
    <2>1. PICK k \in 1 .. Len(s) : s[k] = [at |-> i, above |-> <<>>]
      BY DEF Full
    <2> QED
      BY <1>1, <2>1
  <1>3. ASSUME NEW m \in 1 .. n + 1, NEW i \in Children(pages[t[m].at].id)
        PROVE  \E k \in 1 .. Len(t) : t[k] = [at |-> i, above |-> Path(t[m])]
    <2>1. t[m] = s[m] /\ n \in Nat
      BY DEF Grown
    <2>2. CASE m = n + 1
      <3>1. PICK k \in n + 2 .. n + 1 + c : t[k] = [at |-> i, above |-> Path(s[n + 1])]
        BY <1>3, <2>1, <2>2 DEF Grown
      <3> QED
        BY <2>1, <2>2, <3>1, GrownSizes
    <2>3. CASE m \in 1 .. n
      <3>1. PICK k \in 1 .. Len(s) : s[k] = [at |-> i, above |-> Path(s[m])]
        BY <1>3, <2>1, <2>3 DEF Full
      <3> QED
        BY <1>1, <2>1, <3>1
    <2> QED
      BY <2>1, <2>2, <2>3
  <1> QED
    BY <1>2, <1>3 DEF Full

\* A splice keeps siblings in order: old and new visits are never siblings.
LEMMA SiblingsGrow ==
    ASSUME PagesOK, NEW s, NEW n, NEW t, NEW c, Grown(s, n, t, c),
           Once(s), Reached(s, n), Placed(s), Siblings(s)
    PROVE  Siblings(t)
  <1> DEFINE P == Path(s[n + 1])
  <1>1. s \in Seq(Visit) /\ n \in Nat /\ n < Len(s) /\ c \in Nat
    BY DEF Grown
  <1>2. \A k \in 1 .. Len(s) : s[k].above # P
    BY <1>1, ChildrenAreNew
  <1>3. \A k \in n + 2 .. n + 1 + c : t[k].above = P
    BY DEF Grown
  <1>4. \A k, l \in n + 2 .. n + 1 + c : k < l => SiblingBefore(t[k].at, t[l].at)
    BY DEF Grown
  <1> HIDE DEF P
  <1>5. SUFFICES ASSUME NEW k \in 1 .. Len(t), NEW l \in 1 .. Len(t), k < l,
                        t[k].above = t[l].above
                 PROVE  SiblingBefore(t[k].at, t[l].at)
    BY DEF Siblings
  <1>6. CASE k \in n + 2 .. n + 1 + c /\ l \in n + 2 .. n + 1 + c
    BY <1>4, <1>5, <1>6
  <1>7. CASE k \notin n + 2 .. n + 1 + c /\ l \notin n + 2 .. n + 1 + c
    <2>1. PICK i \in 1 .. Len(s), j \in 1 .. Len(s) : i < j /\ t[k] = s[i] /\ t[l] = s[j]
      BY <1>5, <1>7, OldPlaces
    <2> QED
      BY <1>5, <2>1 DEF Siblings
  <1>8. CASE k \in n + 2 .. n + 1 + c /\ l \notin n + 2 .. n + 1 + c
    <2>1. PICK j \in 1 .. Len(s) : t[l] = s[j]
      BY <1>8, OldPlace
    <2> QED
      BY <1>2, <1>3, <1>5, <1>8, <2>1
  <1>9. CASE k \notin n + 2 .. n + 1 + c /\ l \in n + 2 .. n + 1 + c
    <2>1. PICK i \in 1 .. Len(s) : t[k] = s[i]
      BY <1>9, OldPlace
    <2> QED
      BY <1>2, <1>3, <1>5, <1>9, <2>1
  <1> QED
    BY <1>6, <1>7, <1>8, <1>9

\* A splice keeps Follows: the new visits go one level down from the one just listed.
LEMMA FollowsGrows ==
    ASSUME PagesOK, NEW s, NEW n, NEW t, NEW c, Grown(s, n, t, c), Follows(s, n)
    PROVE  Follows(t, n + 1)
  <1> DEFINE h == s[n + 1]
  <1>1. /\ s \in Seq(Visit) /\ t \in Seq(Visit) /\ n \in Nat /\ c \in Nat /\ Len(s) \in Nat
        /\ n + 1 \in 1 .. Len(s) /\ Len(t) = Len(s) + c
        /\ \A k \in 1 .. n + 1 : t[k] = s[k]
        /\ \A k \in n + 2 .. Len(s) : t[k + c] = s[k]
    BY DEF Grown
  <1>2. Depth(h) \in Nat
    BY <1>1, At
  <1>3. ASSUME NEW k \in n + 2 .. n + 1 + c
        PROVE  /\ Depth(t[k]) = Depth(h) + 1
               /\ \A d \in 1 .. Depth(h) + 1 : t[k].above[d] = Trail(h, d) /\ Trail(t[k], d) = Trail(h, d)
    <2>1. t[k].above = Path(h)
      BY DEF Grown
    <2>2. Len(Path(h)) = Depth(h) + 1 /\ \A d \in 1 .. Depth(h) + 1 : Path(h)[d] = Trail(h, d)
      BY <1>1, At
    <2>3. Depth(t[k]) = Depth(h) + 1
      BY <2>1, <2>2 DEF Depth
    <2>4. \A d \in 1 .. Depth(h) + 1 : Trail(t[k], d) = t[k].above[d]
      BY <1>2, <2>3 DEF Trail
    <2> QED
      BY <2>1, <2>2, <2>3, <2>4
  <1>4. SUFFICES ASSUME NEW k \in 2 .. Len(t)
                 PROVE  /\ Depth(t[k]) <= Depth(t[k - 1]) + 1
                        /\ k - 1 > n + 1 => Depth(t[k]) <= Depth(t[k - 1])
                        /\ \A d \in 1 .. Depth(t[k]) : t[k].above[d] = Trail(t[k - 1], d)
    BY DEF Follows
  <1>5. CASE k <= n + 1
    <2>1. k \in 2 .. Len(s) /\ t[k] = s[k] /\ t[k - 1] = s[k - 1] /\ ~(k - 1 > n + 1)
      BY <1>1, <1>5
    <2>2. /\ Depth(s[k]) <= Depth(s[k - 1]) + 1
          /\ \A d \in 1 .. Depth(s[k]) : s[k].above[d] = Trail(s[k - 1], d)
      BY <2>1 DEF Follows
    <2> QED
      BY <2>1, <2>2
  <1>6. CASE k \in n + 2 .. n + 1 + c /\ k = n + 2
    <2>1. n + 1 \in 1 .. n + 1 /\ k - 1 = n + 1
      BY <1>1, <1>6
    <2>2. t[k - 1] = h /\ ~(k - 1 > n + 1)
      BY <1>1, <2>1
    <2> QED
      BY <1>2, <1>3, <1>6, <2>2
  <1>7. CASE k \in n + 2 .. n + 1 + c /\ k # n + 2
    <2>1. k - 1 \in n + 2 .. n + 1 + c
      BY <1>1, <1>7
    <2>2. Depth(t[k - 1]) = Depth(h) + 1 /\ \A d \in 1 .. Depth(h) + 1 : Trail(t[k - 1], d) = Trail(h, d)
      BY <1>3, <2>1
    <2> QED
      BY <1>2, <1>3, <1>7, <2>2
  <1>8. CASE k = n + 2 + c
    <2>1. n + 2 \in 2 .. Len(s) /\ n + 2 \in n + 2 .. Len(s) /\ (n + 2) - 1 > n
          /\ (n + 2) - 1 = n + 1 /\ n + 2 \in 1 .. Len(s)
      BY <1>1, <1>8
    <2>2. t[k] = s[n + 2]
      BY <1>1, <1>8, <2>1
    <2>3. /\ Depth(s[n + 2]) <= Depth(h)
          /\ \A d \in 1 .. Depth(s[n + 2]) : s[n + 2].above[d] = Trail(h, d)
      BY <2>1 DEF Follows
    <2>4. Depth(s[n + 2]) \in Nat
      BY <1>1, <2>1, At
    <2>5. CASE c = 0
      <3>1. t[k - 1] = h
        BY <1>1, <1>8, <2>5
      <3> QED
        BY <1>2, <2>2, <2>3, <2>4, <3>1
    <2>6. CASE c # 0
      <3>1. k - 1 \in n + 2 .. n + 1 + c
        BY <1>1, <1>8, <2>6
      <3>2. /\ Depth(t[k - 1]) = Depth(h) + 1
            /\ \A d \in 1 .. Depth(h) + 1 : Trail(t[k - 1], d) = Trail(h, d)
        BY <1>3, <3>1
      <3>3. \A d \in 1 .. Depth(s[n + 2]) : d \in 1 .. Depth(h) + 1
        BY <1>2, <2>3, <2>4
      <3> QED
        BY <1>2, <2>2, <2>3, <2>4, <3>2, <3>3
    <2> QED
      BY <2>5, <2>6
  <1>9. CASE k > n + 2 + c
    <2>1. /\ k - c \in 2 .. Len(s) /\ k - c \in n + 2 .. Len(s) /\ k - c - 1 \in n + 2 .. Len(s)
          /\ (k - c) + c = k /\ (k - c - 1) + c = k - 1 /\ (k - c) - 1 > n /\ (k - c) - 1 = k - c - 1
      BY <1>1, <1>9
    <2>2. t[k] = s[k - c] /\ t[k - 1] = s[(k - c) - 1]
      BY <1>1, <2>1
    <2>3. /\ Depth(s[k - c]) <= Depth(s[(k - c) - 1]) + 1
          /\ Depth(s[k - c]) <= Depth(s[(k - c) - 1])
          /\ \A d \in 1 .. Depth(s[k - c]) : s[k - c].above[d] = Trail(s[(k - c) - 1], d)
      BY <2>1 DEF Follows
    <2> QED
      BY <2>2, <2>3
  <1>10. n \in Nat /\ c \in Nat /\ k \in Nat
    BY <1>1
  <1>11. k <= n + 1 \/ k \in n + 2 .. n + 1 + c \/ k = n + 2 + c \/ k > n + 2 + c
    BY <1>10
  <1> QED
    BY <1>5, <1>6, <1>7, <1>8, <1>9, <1>11

\* Listing the next page of a walk, and putting its children first, is a walk.
LEMMA WalkOne ==
    ASSUME PagesOK, NEW w \in Seq(Visit), NEW r \in Seq(Visit), r # <<>>,
           Walking(w \o r, Len(w))
    PROVE  Walking(Append(w, Head(r)) \o (Below(Head(r)) \o Tail(r)), Len(w) + 1)
  <1> DEFINE s == w \o r
             t == Append(w, Head(r)) \o (Below(Head(r)) \o Tail(r))
             n == Len(w)
  <1>1. PICK c : Grown(s, n, t, c)
    BY Splices
  <1>2. Walking(s, n)
    OBVIOUS
  <1> HIDE DEF s, t, n
  <1>3. Once(s) /\ Reached(s, n) /\ Placed(s) /\ Full(s, n) /\ Siblings(s) /\ Follows(s, n)
    BY <1>2 DEF Walking
  <1>4. Once(t) /\ Reached(t, n + 1) /\ Placed(t)
    BY <1>1, <1>3, OnceGrows, ReachedGrows, PlacedGrows
  <1>5. Full(t, n + 1) /\ Siblings(t) /\ Follows(t, n + 1)
    BY <1>1, <1>3, FullGrows, SiblingsGrow, FollowsGrows
  <1>6. t \in Seq(Visit) /\ n + 1 \in 0 .. Len(t)
    BY <1>1 DEF Grown
  <1>7. Walking(t, n + 1)
    BY <1>4, <1>5, <1>6 DEF Walking
  <1> QED
    BY <1>7 DEF t, n

\* The visits a walk starts with: one for each root, in order.
LEMMA RootsListed ==
    ASSUME PagesOK, NEW s, s = Visits(Roots, <<>>)
    PROVE  /\ s \in Seq(Visit)
           /\ \A k \in 1 .. Len(s) : s[k].at \in Roots /\ s[k].above = <<>>
           /\ \A i \in Roots : \E k \in 1 .. Len(s) : s[k] = [at |-> i, above |-> <<>>]
           /\ \A k, l \in 1 .. Len(s) : k < l => SiblingBefore(s[k].at, s[l].at)
  <1> DEFINE above == <<>>
  <1>1. Roots \in SUBSET Index /\ above \in Seq(Id) /\ s = Visits(Roots, above)
    BY DEF Roots
  <1> HIDE DEF above
  <1>2. /\ s \in Seq(Visit)
        /\ \A k \in 1 .. Len(s) : s[k].at \in Roots /\ s[k].above = above
        /\ \A i \in Roots : \E k \in 1 .. Len(s) : s[k] = [at |-> i, above |-> above]
        /\ \A k, l \in 1 .. Len(s) : k < l => SiblingBefore(s[k].at, s[l].at)
    BY <1>1, VisitsFacts
  <1> QED
    BY <1>2 DEF above

\* The roots, with nothing listed, are a walk.
LEMMA WalkStarts ==
    ASSUME PagesOK, NEW s, s = Visits(Roots, <<>>)
    PROVE  Walking(s, 0)
  <1>1. Roots \in SUBSET Index
    BY DEF Roots
  <1>2. /\ s \in Seq(Visit)
        /\ \A k \in 1 .. Len(s) : s[k].at \in Roots /\ s[k].above = <<>>
        /\ \A i \in Roots : \E k \in 1 .. Len(s) : s[k] = [at |-> i, above |-> <<>>]
        /\ \A k, l \in 1 .. Len(s) : k < l => SiblingBefore(s[k].at, s[l].at)
    BY RootsListed
  <1>3. \A k \in 1 .. Len(s) : Depth(s[k]) = 0
    BY <1>2 DEF Depth
  <1>4. Once(s)
    <2>1. ASSUME NEW k \in 1 .. Len(s), NEW l \in 1 .. Len(s), k < l
          PROVE  s[k].at # s[l].at
      <3>1. SiblingBefore(s[k].at, s[l].at)
        BY <1>2, <2>1
      <3>2. s[k].at \in Index
        BY <1>1, <1>2
      <3>3. pages[s[k].at].id \in Nat /\ pages[s[k].at].position \in Nat
        BY <3>2, PageTypes
      <3> QED
        BY <3>1, <3>3 DEF SiblingBefore
    <2>2. ASSUME NEW k \in 1 .. Len(s), NEW l \in 1 .. Len(s), s[k].at = s[l].at
          PROVE  k = l
      <3>1. ~(k < l) /\ ~(l < k)
        BY <2>1, <2>2
      <3> QED
        BY <3>1
    <2> QED
      BY <2>2 DEF Once
  <1>5. Reached(s, 0)
    BY <1>3 DEF Reached
  <1>6. Placed(s)
    BY <1>2, <1>3 DEF Placed
  <1>7. Full(s, 0)
    BY <1>2 DEF Full
  <1>8. Siblings(s)
    BY <1>2 DEF Siblings
  <1>9. Follows(s, 0)
    <2>1. \A k \in 2 .. Len(s) : k \in 1 .. Len(s) /\ k - 1 \in 1 .. Len(s)
      OBVIOUS
    <2>2. \A k \in 2 .. Len(s) : Depth(s[k]) = 0 /\ Depth(s[k - 1]) = 0
      BY <1>3, <2>1
    <2> QED
      BY <2>2 DEF Follows
  <1>10. 0 \in 0 .. Len(s)
    BY <1>2
  <1> QED
    BY <1>2, <1>4, <1>5, <1>6, <1>7, <1>8, <1>9, <1>10 DEF Walking

\* A walk with nothing left to visit has listed every page.
LEMMA WalkIsWhole ==
    ASSUME PagesOK, NEW s, Walking(s, Len(s)), NEW i \in Index
    PROVE  \E k \in 1 .. Len(s) : s[k].at = i
  <1> DEFINE Listed == {s[k].at : k \in 1 .. Len(s)}
             id == pages[i].id
  <1>1. \A r \in Roots : r \in Listed
    <2> SUFFICES ASSUME NEW r \in Roots PROVE r \in Listed
      OBVIOUS
    <2>1. PICK k \in 1 .. Len(s) : s[k] = [at |-> r, above |-> <<>>]
      BY DEF Walking, Full
    <2>2. s[k].at = r
      BY <2>1
    <2> QED
      BY <2>2
  <1>2. ASSUME NEW m \in Listed, NEW j \in Children(pages[m].id) PROVE j \in Listed
    <2>1. PICK l \in 1 .. Len(s) : s[l].at = m
      OBVIOUS
    <2>2. PICK k \in 1 .. Len(s) : s[k] = [at |-> j, above |-> Path(s[l])]
      BY <1>2, <2>1 DEF Walking, Full
    <2>3. s[k].at = j
      BY <2>2
    <2> QED
      BY <2>3
  <1> HIDE DEF Listed
  \* A page that is not listed has a parent, and that is not listed either.
  <1>3. ASSUME NEW j \in Index, j \notin Listed
        PROVE  \E p \in Index : p \notin Listed /\ ParentOf(pages[j].id) = pages[p].id
    <2>1. HasParent(j) /\ ~Loops(pages[j].id)
      BY <1>1, <1>3 DEF Roots
    <2>2. PICK p \in Index : pages[p].id = pages[j].parent
      BY <2>1 DEF HasParent, Known
    <2>3. j \in Children(pages[p].id)
      BY <2>1, <2>2 DEF Children
    <2>4. ParentOf(pages[j].id) = pages[p].id
      BY <2>1, <2>2, ParentOfPage
    <2> QED
      BY <1>2, <1>3, <2>3, <2>4
  <1>4. ASSUME i \notin Listed PROVE FALSE
    <2> DEFINE Bad == {n \in Nat : ~\E p \in Index : p \notin Listed /\ Ancestor(id, n) = pages[p].id}
    <2>1. ASSUME Bad # {} PROVE FALSE
      <3>1. PICK n \in Bad : \A y \in Bad : n <= y
        BY <2>1, LeastNumber
      <3>2. n # 0
        <4>1. Ancestor(id, 0) = pages[i].id
          BY AncestorSteps
        <4> QED
          BY <1>4, <4>1
      <3>3. n - 1 \in Nat /\ n - 1 \notin Bad
        BY <3>1, <3>2
      <3>4. PICK q \in Index : q \notin Listed /\ Ancestor(id, n - 1) = pages[q].id
        BY <3>3
      <3>5. Ancestor(id, (n - 1) + 1) = ParentOf(Ancestor(id, n - 1))
        BY <3>3, AncestorSteps
      <3>6. Ancestor(id, n) = ParentOf(pages[q].id)
        BY <3>3, <3>4, <3>5
      <3> QED
        BY <1>3, <3>4, <3>6
    <2>2. Files \in Nat /\ Files \notin Bad
      BY <2>1, PageTreeAssumption
    <2>3. PICK p \in Index : Ancestor(id, Files) = pages[p].id
      BY <2>2
    <2>4. pages[p].id # NoParent
      BY PageTypes, PageTreeAssumption
    <2>5. Loops(id)
      BY <2>3, <2>4 DEF Loops
    <2>6. i \in Roots
      BY <2>5 DEF Roots
    <2> QED
      BY <1>1, <1>4, <2>6
  <1> QED
    BY <1>4 DEF Listed

\* A walk is no longer than the pages are many.
LEMMA WalkFits ==
    ASSUME PagesOK, NEW s \in Seq(Visit), Once(s)
    PROVE  Len(s) <= Files
  <1> SUFFICES ASSUME Files < Len(s) PROVE FALSE
    BY PageTreeAssumption
  <1> DEFINE f == [k \in 1 .. Len(s) |-> s[k].at]
  <1>1. IsFiniteSet(1 .. Len(s)) /\ Cardinality(1 .. Len(s)) = Len(s)
    <2> DEFINE N == Len(s)
    <2>1. N \in Nat
      OBVIOUS
    <2> HIDE DEF N, f
    <2>2. IsFiniteSet(1 .. N) /\ Cardinality(1 .. N) = N
      BY <2>1, FS_Interval
    <2> QED
      BY <2>2 DEF N
  <1>2. IsFiniteSet(Index) /\ Cardinality(Index) = Files
    BY FS_Interval, PageTreeAssumption DEF Index
  <1>3. f \in [1 .. Len(s) -> Index]
    BY At
  <1> HIDE DEF f
  <1>4. PICK k \in 1 .. Len(s), l \in 1 .. Len(s) : k # l /\ f[k] = f[l]
    BY <1>1, <1>2, <1>3, FS_PigeonHole
  <1> QED
    BY <1>4 DEF f, Once

\* What is listed of a walk is a pre-order.
LEMMA WalkIsOrdered ==
    ASSUME PagesOK, NEW s, NEW n, Walking(s, n), NEW k \in 2 .. n
    PROVE  /\ Depth(s[k]) <= Depth(s[k - 1]) + 1
           /\ s[k].above = SubSeq(Path(s[k - 1]), 1, Depth(s[k]))
           /\ \A m \in 1 .. k - 1 :
                 s[m].above = s[k].above => SiblingBefore(s[m].at, s[k].at)
  <1>1. s \in Seq(Visit) /\ n \in 0 .. Len(s)
    BY DEF Walking
  <1>2. k \in 2 .. Len(s) /\ k \in 1 .. Len(s) /\ k - 1 \in 1 .. Len(s)
    BY <1>1
  <1>3. /\ Depth(s[k]) <= Depth(s[k - 1]) + 1
        /\ \A d \in 1 .. Depth(s[k]) : s[k].above[d] = Trail(s[k - 1], d)
    BY <1>2 DEF Walking, Follows
  <1>4. /\ s[k].above \in Seq(Id) /\ Depth(s[k]) \in Nat /\ Len(s[k].above) = Depth(s[k])
        /\ Path(s[k - 1]) \in Seq(Id) /\ Len(Path(s[k - 1])) = Depth(s[k - 1]) + 1
        /\ Depth(s[k - 1]) \in Nat
        /\ \A d \in 1 .. Depth(s[k - 1]) + 1 : Path(s[k - 1])[d] = Trail(s[k - 1], d)
    BY <1>1, <1>2, At
  <1>5. s[k].above = SubSeq(Path(s[k - 1]), 1, Depth(s[k]))
    <2> DEFINE p == Path(s[k - 1])
               a == s[k].above
               D == Depth(s[k])
    <2>1. p \in Seq(Id) /\ D \in Nat /\ D <= Len(p)
      BY <1>3, <1>4
    <2>2. \A d \in 1 .. D : a[d] = p[d]
      BY <1>3, <1>4
    <2>3. a \in Seq(Id) /\ Len(a) = D
      BY <1>4
    <2> HIDE DEF p, a, D
    <2>4. SubSeq(p, 1, D) \in Seq(Id) /\ Len(SubSeq(p, 1, D)) = D
          /\ \A d \in 1 .. D : SubSeq(p, 1, D)[d] = p[d]
      BY <2>1
    <2>5. a = SubSeq(p, 1, D)
      BY <2>2, <2>3, <2>4, SameIds
    <2> QED
      BY <2>5 DEF p, a, D
  <1>6. \A m \in 1 .. k - 1 : m \in 1 .. Len(s) /\ m < k
    BY <1>1, <1>2
  <1>7. \A m \in 1 .. k - 1 : s[m].above = s[k].above => SiblingBefore(s[m].at, s[k].at)
    BY <1>2, <1>6 DEF Walking, Siblings
  <1> QED
    BY <1>3, <1>5, <1>7

-----------------------------------------------------------------------------
(* The walk of the machine *)

TypeOK ==
    /\ PagesOK
    /\ phase \in {"walk", "render", "done"}
    /\ stack \in Seq(Visit) /\ walked \in Seq(Visit) /\ listing \in Seq(Visit)

\* What is listed and what is still to visit; after the walk, what is listed.
Seen == IF phase = "walk" THEN walked \o stack ELSE walked

WalkInv == TypeOK /\ Walking(Seen, Len(walked))

\* The type of what a page puts on the stack,
LEMMA BelowIsVisits ==
    ASSUME PagesOK, NEW h \in Visit
    PROVE  Below(h) \in Seq(Visit)
  BY BelowFacts

\* and of what the stack starts with.
LEMMA RootVisits ==
    ASSUME PagesOK
    PROVE  Visits(Roots, <<>>) \in Seq(Visit)
  BY WalkStarts DEF Walking

\* The walk starts with the roots still to visit.
LEMMA InitWalks == Init => WalkInv
  <1> SUFFICES ASSUME Init PROVE WalkInv
    OBVIOUS
  <1>1. PagesOK
    BY DEF Init, PagesOK
  <1>2. stack \in Seq(Visit)
    BY <1>1, RootVisits DEF Init
  <1>3. TypeOK
    BY <1>1, <1>2 DEF Init, TypeOK
  <1>4. Seen = stack /\ Len(walked) = 0
    BY <1>2 DEF Init, Seen
  <1>5. stack = Visits(Roots, <<>>)
    BY DEF Init
  <1>6. Walking(stack, 0)
    BY <1>1, <1>5, WalkStarts
  <1> QED
    BY <1>3, <1>4, <1>6 DEF WalkInv

\* No step changes a type, and none changes the pages.
LEMMA TypesKept == ASSUME TypeOK, [Next]_vars PROVE TypeOK' /\ pages' = pages
  <1>1. pages' = pages
    BY DEF Next, WalkFrom, WalkEnds, Render, Prune, RenderEnds, Done, vars
  <1>2. PagesOK'
    BY <1>1 DEF TypeOK, PagesOK, UniqueIds, Index
  <1>3. ASSUME stack # <<>>
        PROVE  /\ Head(stack) \in Visit /\ Tail(stack) \in Seq(Visit)
               /\ Below(Head(stack)) \o Tail(stack) \in Seq(Visit)
               /\ Append(walked, Head(stack)) \in Seq(Visit)
               /\ Append(listing, Head(stack)) \in Seq(Visit)
    <2>1. Head(stack) \in Visit /\ Tail(stack) \in Seq(Visit)
      BY <1>3 DEF TypeOK
    <2>2. Below(Head(stack)) \in Seq(Visit)
      BY <2>1, BelowIsVisits DEF TypeOK
    <2> QED
      BY <2>1, <2>2 DEF TypeOK
  <1>4. /\ phase' \in {"walk", "render", "done"}
        /\ stack' \in Seq(Visit) /\ walked' \in Seq(Visit) /\ listing' \in Seq(Visit)
    <2>1. CASE WalkFrom
      BY <1>3, <2>1 DEF WalkFrom, TypeOK
    <2>2. CASE WalkEnds
      BY <2>2, RootVisits DEF WalkEnds, TypeOK
    <2>3. CASE Render
      BY <1>3, <2>3 DEF Render, TypeOK
    <2>4. CASE Prune
      BY <1>3, <2>4 DEF Prune, TypeOK
    <2>5. CASE RenderEnds
      BY <2>5 DEF RenderEnds, TypeOK
    <2>6. CASE UNCHANGED vars
      BY <2>6 DEF vars, TypeOK
    <2> QED
      BY <2>1, <2>2, <2>3, <2>4, <2>5, <2>6 DEF Next, Done
  <1> QED
    BY <1>1, <1>2, <1>4 DEF TypeOK

\* A walk over the same pages is one before and after a step.
LEMMA WalkingKept ==
    ASSUME pages' = pages, NEW s, NEW n, Walking(s, n), Seen' = s, Len(walked)' = n
    PROVE  Walking(Seen, Len(walked))'
  <1>1. /\ s \in Seq(Visit) /\ n \in 0 .. Len(s)
        /\ Once(s) /\ Reached(s, n) /\ Placed(s) /\ Full(s, n) /\ Siblings(s) /\ Follows(s, n)
    BY DEF Walking
  <1>2. Once(Seen)'
    BY <1>1 DEF Once
  <1>3. \A v, d : Trail(v, d)' = Trail(v, d) /\ Depth(v)' = Depth(v)
    BY DEF Trail, Depth
  <1>4. Reached(Seen, Len(walked))'
    BY <1>1, <1>3 DEF Reached
  <1>5. Placed(Seen)'
    BY <1>1, SamePages DEF Placed, Depth
  <1>6. Full(Seen, Len(walked))'
    BY <1>1, SamePages DEF Full, Path
  <1>7. Siblings(Seen)'
    BY <1>1 DEF Siblings, SiblingBefore
  <1>8. Follows(Seen, Len(walked))'
    BY <1>1, <1>3 DEF Follows
  <1> QED
    BY <1>1, <1>2, <1>4, <1>5, <1>6, <1>7, <1>8 DEF Walking

\* Every step keeps what is said of the walk.
LEMMA StepWalks == WalkInv /\ [Next]_vars => WalkInv'
  <1> SUFFICES ASSUME WalkInv, [Next]_vars PROVE WalkInv'
    OBVIOUS
  <1>1. TypeOK /\ Walking(Seen, Len(walked))
    BY DEF WalkInv
  <1>2. TypeOK' /\ pages' = pages
    BY <1>1, TypesKept
  <1>3. CASE WalkFrom
    <2> DEFINE w == walked
               r == stack
               t == Append(w, Head(r)) \o (Below(Head(r)) \o Tail(r))
    <2>1. w \in Seq(Visit) /\ r \in Seq(Visit) /\ r # <<>> /\ PagesOK
      BY <1>1, <1>3 DEF WalkFrom, TypeOK
    <2>2. Walking(w \o r, Len(w))
      BY <1>1, <1>3 DEF WalkFrom, Seen
    <2>3. Walking(t, Len(w) + 1)
      BY <2>1, <2>2, WalkOne
    <2>4. Seen' = t /\ Len(walked)' = Len(w) + 1
      BY <1>3, <2>1 DEF WalkFrom, Seen
    <2> HIDE DEF t, w
    <2>5. Walking(Seen, Len(walked))'
      BY <1>2, <2>3, <2>4, WalkingKept
    <2> QED
      BY <1>2, <2>5 DEF WalkInv
  <1>4. CASE ~WalkFrom
    <2>1. Seen' = Seen /\ walked' = walked
      <3>1. CASE WalkEnds
        <4>1. walked \in Seq(Visit) /\ stack = <<>> /\ phase = "walk" /\ phase' = "render" /\ walked' = walked
          BY <1>1, <3>1 DEF WalkEnds, TypeOK
        <4>2. walked \o <<>> = walked
          BY <4>1
        <4> QED
          BY <4>1, <4>2 DEF Seen
      <3>2. CASE Render \/ Prune \/ RenderEnds
        BY <3>2 DEF Render, Prune, RenderEnds, Seen
      <3>3. CASE UNCHANGED vars
        BY <3>3 DEF vars, Seen
      <3> QED
        BY <1>4, <3>1, <3>2, <3>3 DEF Next, Done
    <2>2. Len(walked)' = Len(walked)
      BY <2>1
    <2>3. Walking(Seen, Len(walked))'
      BY <1>1, <1>2, <2>1, <2>2, WalkingKept
    <2> QED
      BY <1>2, <2>3 DEF WalkInv
  <1> QED
    BY <1>3, <1>4

\* The invariant of the walk.
LEMMA WalkAlways == Spec => []WalkInv
  BY InitWalks, StepWalks, PTL DEF Spec

\* A walk in this state is in the order of WalkIsPreOrder.
LEMMA WalkShown == WalkInv => WalkIsPreOrder
  <1> SUFFICES ASSUME WalkInv PROVE WalkIsPreOrder
    OBVIOUS
  <1>1. TypeOK /\ Walking(Seen, Len(walked)) /\ PagesOK
    BY DEF WalkInv, TypeOK
  <1>2. /\ walked \in Seq(Visit) /\ stack \in Seq(Visit)
        /\ Seen \in Seq(Visit) /\ Once(Seen) /\ Len(walked) \in 0 .. Len(Seen)
    BY <1>1 DEF TypeOK, Walking
  <1>3. \A k \in 1 .. Len(walked) : Seen[k] = walked[k]
    BY <1>2 DEF Seen
  <1>4. Len(walked) <= Files
    <2>1. Len(Seen) <= Files
      BY <1>1, <1>2, WalkFits
    <2> QED
      BY <1>2, <2>1, PageTreeAssumption
  <1>5. ASSUME phase # "walk" PROVE {v.at : v \in Range(walked)} = Index
    <2>1. Seen = walked
      BY <1>5 DEF Seen
    <2>2. Walking(walked, Len(walked))
      BY <1>1, <2>1
    <2>3. \A i \in Index : \E k \in 1 .. Len(walked) : walked[k].at = i
      BY <1>1, <2>2, WalkIsWhole
    <2>4. Range(walked) = {walked[k] : k \in 1 .. Len(walked)}
      BY <1>2 DEF Range
    <2>5. \A k \in 1 .. Len(walked) : walked[k].at \in Index
      BY <1>1, <1>2, At
    <2> QED
      BY <2>3, <2>4, <2>5
  <1>6. ASSUME NEW k \in 2 .. Len(walked)
        PROVE  /\ Depth(walked[k]) <= Depth(walked[k - 1]) + 1
               /\ walked[k].above = SubSeq(Path(walked[k - 1]), 1, Depth(walked[k]))
               /\ \A m \in 1 .. k - 1 :
                     walked[m].above = walked[k].above => SiblingBefore(walked[m].at, walked[k].at)
    <2>1. /\ Depth(Seen[k]) <= Depth(Seen[k - 1]) + 1
          /\ Seen[k].above = SubSeq(Path(Seen[k - 1]), 1, Depth(Seen[k]))
          /\ \A m \in 1 .. k - 1 :
                Seen[m].above = Seen[k].above => SiblingBefore(Seen[m].at, Seen[k].at)
      BY <1>1, WalkIsOrdered
    <2>2. k \in 1 .. Len(walked) /\ k - 1 \in 1 .. Len(walked)
          /\ \A m \in 1 .. k - 1 : m \in 1 .. Len(walked)
      BY <1>2
    <2> QED
      BY <1>3, <2>1, <2>2
  <1> QED
    BY <1>4, <1>5, <1>6 DEF WalkIsPreOrder, Path

\* The walk is a pre-order over every page, each once: however many pages there
\* are, and whatever parents and positions they name (graph.rs, walk; INV-2).
THEOREM WalkKept == Spec => []WalkIsPreOrder
  BY WalkAlways, WalkShown, PTL

-----------------------------------------------------------------------------
(* The shape of a finished walk *)

Whole(W) == PagesOK /\ Walking(W, Len(W))

\* What is known of a finished walk.
LEMMA WholeFacts ==
    ASSUME NEW W, Whole(W)
    PROVE  /\ PagesOK /\ W \in Seq(Visit)
           /\ Once(W) /\ Reached(W, Len(W)) /\ Placed(W) /\ Full(W, Len(W))
           /\ Siblings(W) /\ Follows(W, Len(W))
  BY DEF Whole, Walking

\* A visit is one page reached one way.
LEMMA SameVisit ==
    ASSUME NEW u \in Visit, NEW v \in Visit, u.at = v.at, u.above = v.above
    PROVE  u = v
  BY DEF Visit

\* Right below a visit: reached through it and no further.
LEMMA RightBelow ==
    ASSUME PagesOK, NEW v \in Visit, NEW h \in Visit
    PROVE  /\ v.above = Path(h) => Under(v, h) /\ Depth(v) = Depth(h) + 1
           /\ Under(v, h) /\ Depth(v) = Depth(h) + 1 => v.above = Path(h)
           /\ v.above = Path(h) => v.above[Depth(v)] = pages[h.at].id
  <1>1. /\ v.above \in Seq(Id) /\ Depth(v) \in Nat /\ Depth(h) \in Nat
        /\ Path(h) \in Seq(Id) /\ Len(Path(h)) = Depth(h) + 1
        /\ \A d \in 1 .. Depth(h) + 1 : Path(h)[d] = Trail(h, d)
    BY VisitFacts
  <1>2. ASSUME v.above = Path(h)
        PROVE  Under(v, h) /\ Depth(v) = Depth(h) + 1 /\ v.above[Depth(v)] = pages[h.at].id
    <2>1. Depth(v) = Len(Path(h))
      BY <1>2 DEF Depth
    <2>2. Depth(v) = Depth(h) + 1
      BY <1>1, <2>1
    <2>3. Under(v, h)
      BY <1>1, <1>2, <2>2 DEF Under
    <2>4. Depth(h) + 1 \in 1 .. Depth(h) + 1 /\ Trail(h, Depth(h) + 1) = pages[h.at].id
      BY <1>1 DEF Trail
    <2> QED
      BY <1>1, <1>2, <2>2, <2>3, <2>4
  <1>3. ASSUME Under(v, h), Depth(v) = Depth(h) + 1 PROVE v.above = Path(h)
    <2>1. \A d \in 1 .. Depth(h) + 1 : v.above[d] = Path(h)[d]
      BY <1>1, <1>3 DEF Under
    <2>2. Len(v.above) = Len(Path(h))
      BY <1>1, <1>3 DEF Depth
    <2> QED
      BY <1>1, <2>1, <2>2, SameIds
  <1> QED
    BY <1>2, <1>3

\* Two visits of a walk to pages with one id are one.
LEMMA SamePlace ==
    ASSUME NEW W, Whole(W), NEW k \in 1 .. Len(W), NEW l \in 1 .. Len(W),
           pages[W[k].at].id = pages[W[l].at].id
    PROVE  k = l
  <1>1. W[k].at \in Index /\ W[l].at \in Index
    BY WholeFacts, At
  <1>2. W[k].at = W[l].at
    BY <1>1, WholeFacts DEF PagesOK, UniqueIds
  <1> QED
    BY <1>2, WholeFacts DEF Once

\* A page comes after the one it is right below.
LEMMA ChildIsLater ==
    ASSUME NEW W, Whole(W), NEW k \in 1 .. Len(W), NEW a \in 1 .. Len(W),
           W[k].above = Path(W[a])
    PROVE  a < k
  <1>1. W \in Seq(Visit) /\ PagesOK /\ Reached(W, Len(W))
    BY WholeFacts
  <1>2. W[k] \in Visit /\ W[a] \in Visit /\ Depth(W[a]) \in Nat
    BY <1>1, At
  <1>3. Depth(W[k]) = Depth(W[a]) + 1 /\ W[k].above[Depth(W[k])] = pages[W[a].at].id
    BY <1>1, <1>2, RightBelow
  <1>4. Depth(W[k]) \in 1 .. Depth(W[k])
    BY <1>2, <1>3
  <1>5. PICK j \in 1 .. Len(W) :
           /\ j < k /\ Depth(W[j]) = Depth(W[k]) - 1
           /\ \A e \in 1 .. Depth(W[k]) : W[k].above[e] = Trail(W[j], e)
    BY <1>1, <1>4 DEF Reached
  <1>6. Trail(W[j], Depth(W[k])) = pages[W[j].at].id
    BY <1>2, <1>3, <1>5 DEF Trail
  <1>7. pages[W[j].at].id = pages[W[a].at].id
    BY <1>3, <1>4, <1>5, <1>6
  <1>8. j = a
    BY <1>7, SamePlace
  <1> QED
    BY <1>5, <1>8

\* The pages under a page follow it without a gap.
LEMMA SubtreesTogether ==
    ASSUME NEW W, Whole(W), NEW a \in 1 .. Len(W), NEW b \in 1 .. Len(W),
           NEW c \in 1 .. Len(W), a < b, b < c, Under(W[c], W[a])
    PROVE  Under(W[b], W[a])
  <1>1. W \in Seq(Visit) /\ PagesOK /\ Follows(W, Len(W)) /\ Len(W) \in Nat
    BY WholeFacts
  <1> SUFFICES ASSUME ~Under(W[b], W[a]) PROVE FALSE
    OBVIOUS
  <1> DEFINE Back == {k \in b + 1 .. Len(W) : Under(W[k], W[a])}
  <1>2. c \in Back /\ Back \subseteq Nat
    OBVIOUS
  <1>3. PICK k \in Back : \A y \in Back : k <= y
    BY <1>2, LeastNumber
  <1>4. k \in b + 1 .. Len(W) /\ Under(W[k], W[a])
    BY <1>3
  <1>5. k \in 2 .. Len(W) /\ k - 1 \in 1 .. Len(W) /\ k \in 1 .. Len(W) /\ k - 1 > a
    BY <1>4
  <1>6. ~Under(W[k - 1], W[a])
    <2>1. CASE k - 1 = b
      BY <2>1
    <2>2. CASE k - 1 # b
      <3>1. k - 1 \in b + 1 .. Len(W) /\ ~(k <= k - 1)
        BY <1>4, <2>2
      <3> QED
        BY <1>3, <3>1
    <2> QED
      BY <2>1, <2>2
  <1> HIDE DEF Back
  <1>7. /\ Depth(W[k]) <= Depth(W[k - 1]) + 1
        /\ \A d \in 1 .. Depth(W[k]) : W[k].above[d] = Trail(W[k - 1], d)
    BY <1>1, <1>5 DEF Follows
  <1>8. /\ Depth(W[a]) \in Nat /\ Depth(W[k]) \in Nat /\ Depth(W[k - 1]) \in Nat
    BY <1>1, <1>5, At
  <1>9. /\ Depth(W[k]) > Depth(W[a])
        /\ \A d \in 1 .. Depth(W[a]) + 1 : W[k].above[d] = Trail(W[a], d)
    BY <1>4 DEF Under
  <1>10. \A d \in 1 .. Depth(W[a]) + 1 : Trail(W[k - 1], d) = Trail(W[a], d)
    BY <1>7, <1>8, <1>9
  <1>11. CASE Depth(W[k - 1]) > Depth(W[a])
    <2>1. \A d \in 1 .. Depth(W[a]) + 1 : W[k - 1].above[d] = Trail(W[a], d)
      BY <1>8, <1>10, <1>11 DEF Trail
    <2> QED
      BY <1>6, <1>11, <2>1 DEF Under
  <1>12. CASE Depth(W[k - 1]) <= Depth(W[a])
    <2>1. Depth(W[k - 1]) = Depth(W[a])
      BY <1>7, <1>8, <1>9, <1>12
    <2>2. Trail(W[k - 1], Depth(W[a]) + 1) = Trail(W[a], Depth(W[a]) + 1)
      BY <1>8, <1>10
    <2>3. pages[W[k - 1].at].id = pages[W[a].at].id
      BY <1>8, <2>1, <2>2 DEF Trail
    <2>4. k - 1 = a
      BY <1>5, <2>3, SamePlace
    <2> QED
      BY <1>5, <2>4
  <1> QED
    BY <1>8, <1>11, <1>12

\* A page under another is one of those right below it, or under one of them.
LEMMA UnderOneBelow ==
    ASSUME NEW W, Whole(W), NEW k \in 1 .. Len(W), NEW a \in 1 .. Len(W),
           Under(W[k], W[a])
    PROVE  \E j \in 1 .. Len(W) : /\ W[j].above = Path(W[a])
                                  /\ W[j].at \in Children(pages[W[a].at].id)
                                  /\ j = k \/ Under(W[k], W[j])
  <1> DEFINE D == Depth(W[a])
  <1>1. /\ W \in Seq(Visit) /\ PagesOK /\ Placed(W) /\ Reached(W, Len(W))
    BY WholeFacts
  <1>2. W[k] \in Visit /\ W[a] \in Visit /\ D \in Nat /\ Depth(W[k]) \in Nat
    BY <1>1, At
  <1>3. Depth(W[k]) > D /\ \A d \in 1 .. D + 1 : W[k].above[d] = Trail(W[a], d)
    BY DEF Under
  <1>4. ASSUME NEW j \in 1 .. Len(W), W[j].above = Path(W[a])
        PROVE  W[j].at \in Children(pages[W[a].at].id)
    <2>1. W[j] \in Visit
      BY <1>1
    <2>2. Depth(W[j]) = D + 1 /\ W[j].above[Depth(W[j])] = pages[W[a].at].id
      BY <1>1, <1>2, <1>4, <2>1, RightBelow
    <2>3. Depth(W[j]) # 0
      BY <1>2, <2>2
    <2> QED
      BY <1>1, <2>2, <2>3 DEF Placed
  <1>5. CASE Depth(W[k]) = D + 1
    <2>1. W[k].above = Path(W[a])
      BY <1>1, <1>2, <1>5, RightBelow
    <2> QED
      BY <1>4, <2>1
  <1>6. CASE Depth(W[k]) # D + 1
    <2>1. D + 2 \in 1 .. Depth(W[k])
      BY <1>2, <1>3, <1>6
    <2>2. PICK j \in 1 .. Len(W) : /\ Depth(W[j]) = (D + 2) - 1
                                   /\ \A e \in 1 .. D + 2 : W[k].above[e] = Trail(W[j], e)
      BY <1>1, <2>1 DEF Reached
    <2>3. Depth(W[j]) = D + 1
      BY <1>2, <2>2
    <2>4. Under(W[k], W[j])
      <3>1. Depth(W[k]) > D + 1 /\ (D + 1) + 1 = D + 2
        BY <1>2, <1>3, <1>6
      <3> QED
        BY <2>2, <2>3, <3>1 DEF Under
    <2>5. \A d \in 1 .. D + 1 : W[j].above[d] = Trail(W[a], d)
      <3>1. \A d \in 1 .. D + 1 : d \in 1 .. D + 2 /\ d <= Depth(W[j])
        BY <1>2, <2>3
      <3> QED
        BY <1>3, <2>2, <3>1 DEF Trail
    <2>6. Under(W[j], W[a])
      BY <1>2, <2>3, <2>5 DEF Under
    <2>7. W[j].above = Path(W[a])
      BY <1>1, <1>2, <2>3, <2>6, RightBelow
    <2> QED
      BY <1>4, <2>4, <2>7
  <1> QED
    BY <1>5, <1>6

-----------------------------------------------------------------------------
(* A rendering under way, against the finished walk W: L is what is listed *)
(* and what is still to visit, m how much of it is listed.                 *)

Earlier(W, u, v) == \E k, l \in 1 .. Len(W) : k < l /\ W[k] = u /\ W[l] = v

InOrder(L, W) == \A p, q \in 1 .. Len(L) : p < q => Earlier(W, L[p], L[q])
Among(L, W) == \A p \in 1 .. Len(L) : \E k \in 1 .. Len(W) : W[k] = L[p]

\* What is not hidden is listed, to be visited, or under a page to be visited.
Shows(L, m, W) ==
    \A k \in 1 .. Len(W) :
       \/ Hidden(W[k])
       \/ \E p \in 1 .. Len(L) : L[p] = W[k] \/ (p > m /\ Under(W[k], L[p]))

\* Nothing hidden is listed, and nothing is to be visited below an archived page.
Open(v) == \A i \in Index : pages[i].archived => pages[i].id \notin Range(v.above)
Visible(L, m) ==
    /\ \A p \in 1 .. m : ~Hidden(L[p])
    /\ \A p \in 1 .. Len(L) : p > m => Open(L[p])

\* Of the pages to be visited none is under another.
Apart(L, m) ==
    \A p, q \in 1 .. Len(L) : p > m /\ q > m /\ p # q => ~Under(L[p], L[q])

Side(L, m, W) ==
    /\ L \in Seq(Visit) /\ m \in 0 .. Len(L)
    /\ InOrder(L, W) /\ Among(L, W) /\ Shows(L, m, W) /\ Visible(L, m) /\ Apart(L, m)

\* Being earlier in a finished walk is a strict order, since nothing is in it twice.
LEMMA EarlierIsOrder ==
    ASSUME NEW W, Whole(W)
    PROVE  /\ \A u, v, x : Earlier(W, u, v) /\ Earlier(W, v, x) => Earlier(W, u, x)
           /\ \A u : ~Earlier(W, u, u)
  <1>1. ASSUME NEW k \in 1 .. Len(W), NEW l \in 1 .. Len(W), W[k] = W[l] PROVE k = l
    BY <1>1, WholeFacts DEF Once
  <1>2. ASSUME NEW u, NEW v, NEW x, Earlier(W, u, v), Earlier(W, v, x)
        PROVE  Earlier(W, u, x)
    <2>1. PICK k \in 1 .. Len(W), l \in 1 .. Len(W) : k < l /\ W[k] = u /\ W[l] = v
      BY <1>2 DEF Earlier
    <2>2. PICK i \in 1 .. Len(W), j \in 1 .. Len(W) : i < j /\ W[i] = v /\ W[j] = x
      BY <1>2 DEF Earlier
    <2>3. l = i
      BY <1>1, <2>1, <2>2
    <2>4. k < j
      BY <2>1, <2>2, <2>3
    <2> QED
      BY <2>1, <2>2, <2>4 DEF Earlier
  <1>3. ASSUME NEW u, Earlier(W, u, u) PROVE FALSE
    <2>1. PICK k \in 1 .. Len(W), l \in 1 .. Len(W) : k < l /\ W[k] = u /\ W[l] = u
      BY <1>3 DEF Earlier
    <2> QED
      BY <1>1, <2>1
  <1> QED
    BY <1>2, <1>3

\* Siblings in order are in the order of the walk.
LEMMA SiblingsAreEarlier ==
    ASSUME NEW W, Whole(W), NEW u, NEW v, u.above = v.above,
           SiblingBefore(u.at, v.at),
           \E k \in 1 .. Len(W) : W[k] = u, \E k \in 1 .. Len(W) : W[k] = v
    PROVE  Earlier(W, u, v)
  <1>1. PICK k \in 1 .. Len(W) : W[k] = u
    OBVIOUS
  <1>2. PICK l \in 1 .. Len(W) : W[l] = v
    OBVIOUS
  <1>3. u.at \in Index /\ v.at \in Index /\ PagesOK
    BY <1>1, <1>2, WholeFacts, At
  <1>4. /\ pages[u.at].id \in Nat /\ pages[u.at].position \in Nat
        /\ pages[v.at].id \in Nat /\ pages[v.at].position \in Nat
    <2>1. \A i \in Index : pages[i].id \in Nat /\ pages[i].position \in Nat
      BY <1>3, PageTypes
    <2> QED
      BY <1>3, <2>1
  <1>5. ~SiblingBefore(v.at, u.at) /\ u # v
    BY <1>4, SMTT(20) DEF SiblingBefore
  <1>6. ~(l < k)
    <2>1. Siblings(W)
      BY WholeFacts
    <2>2. ~SiblingBefore(W[l].at, W[k].at) /\ W[l].above = W[k].above
      BY <1>1, <1>2, <1>5
    <2> QED
      BY <2>1, <2>2 DEF Siblings
  <1>7. k < l
    BY <1>1, <1>2, <1>5, <1>6
  <1> QED
    BY <1>1, <1>2, <1>7 DEF Earlier

\* The rendering starts with the roots.
LEMMA RenderStarts ==
    ASSUME NEW W, Whole(W), NEW L, L = Visits(Roots, <<>>)
    PROVE  Side(L, 0, W)
  <1>1. PagesOK /\ W \in Seq(Visit) /\ Reached(W, Len(W)) /\ Placed(W) /\ Full(W, Len(W))
    BY WholeFacts
  <1>2. /\ L \in Seq(Visit)
        /\ \A k \in 1 .. Len(L) : L[k].at \in Roots /\ L[k].above = <<>>
        /\ \A i \in Roots : \E k \in 1 .. Len(L) : L[k] = [at |-> i, above |-> <<>>]
        /\ \A k, l \in 1 .. Len(L) : k < l => SiblingBefore(L[k].at, L[l].at)
    BY <1>1, RootsListed
  <1>3. \A p \in 1 .. Len(L) : Depth(L[p]) = 0
    BY <1>2 DEF Depth
  <1>4. ASSUME NEW p \in 1 .. Len(L) PROVE \E k \in 1 .. Len(W) : W[k] = L[p]
    <2>1. L[p].at \in Roots /\ L[p].above = <<>> /\ L[p] \in Visit
      BY <1>2
    <2>2. PICK k \in 1 .. Len(W) : W[k] = [at |-> L[p].at, above |-> <<>>]
      BY <1>1, <2>1 DEF Full
    <2>3. W[k] \in Visit /\ W[k].at = L[p].at /\ W[k].above = L[p].above
      BY <1>1, <2>1, <2>2
    <2> QED
      BY <2>1, <2>3, SameVisit
  <1>5. InOrder(L, W)
    <2> SUFFICES ASSUME NEW p \in 1 .. Len(L), NEW q \in 1 .. Len(L), p < q
                 PROVE  Earlier(W, L[p], L[q])
      BY DEF InOrder
    <2>1. L[p].above = L[q].above /\ SiblingBefore(L[p].at, L[q].at)
      BY <1>2
    <2> QED
      BY <1>4, <2>1, SiblingsAreEarlier
  <1>6. ASSUME NEW k \in 1 .. Len(W), Depth(W[k]) = 0
        PROVE  \E p \in 1 .. Len(L) : L[p] = W[k]
    <2>1. W[k].at \in Roots /\ W[k] \in Visit /\ W[k].above \in Seq(Id)
      BY <1>1, <1>6, At DEF Placed
    <2>2. W[k].above = <<>>
      BY <1>6, <2>1 DEF Depth
    <2>3. PICK p \in 1 .. Len(L) : L[p] = [at |-> W[k].at, above |-> <<>>]
      BY <1>2, <2>1
    <2>4. L[p] \in Visit /\ L[p].at = W[k].at /\ L[p].above = W[k].above
      BY <1>2, <2>2, <2>3
    <2> QED
      BY <2>1, <2>4, SameVisit
  <1>7. Shows(L, 0, W)
    <2>1. ASSUME NEW k \in 1 .. Len(W), Depth(W[k]) # 0
          PROVE  \E p \in 1 .. Len(L) : p > 0 /\ Under(W[k], L[p])
      <3>1. Depth(W[k]) \in Nat
        BY <1>1, At
      <3>2. 1 \in 1 .. Depth(W[k])
        BY <2>1, <3>1
      <3>3. PICK j \in 1 .. Len(W) : /\ Depth(W[j]) = 1 - 1
                                     /\ \A e \in 1 .. 1 : W[k].above[e] = Trail(W[j], e)
        BY <1>1, <3>2 DEF Reached
      <3>4. Depth(W[j]) = 0
        BY <3>3
      <3>5. PICK p \in 1 .. Len(L) : L[p] = W[j]
        BY <1>6, <3>4
      <3>6. Under(W[k], W[j])
        BY <2>1, <3>1, <3>3, <3>4 DEF Under
      <3>7. p > 0
        OBVIOUS
      <3> QED
        BY <3>5, <3>6, <3>7
    <2> SUFFICES ASSUME NEW k \in 1 .. Len(W)
                 PROVE  \E p \in 1 .. Len(L) : L[p] = W[k] \/ (p > 0 /\ Under(W[k], L[p]))
      BY DEF Shows
    <2>2. CASE Depth(W[k]) = 0
      BY <1>6, <2>2
    <2>3. CASE Depth(W[k]) # 0
      BY <2>1, <2>3
    <2> QED
      BY <2>2, <2>3
  <1>8. Visible(L, 0)
    <2>1. \A p \in 1 .. Len(L) : Range(L[p].above) = {}
      BY <1>2 DEF Range
    <2> QED
      BY <2>1 DEF Visible, Open
  <1>9. Apart(L, 0)
    BY <1>3 DEF Apart, Under
  <1>10. 0 \in 0 .. Len(L)
    BY <1>2
  <1> QED
    BY <1>2, <1>4, <1>5, <1>7, <1>8, <1>9, <1>10 DEF Side, Among

\* What listing a page puts in is in the walk, under the page.
LEMMA GrownFromWalk ==
    ASSUME NEW W, Whole(W), NEW L, NEW m, NEW t, NEW c, Grown(L, m, t, c), Among(L, W),
           NEW k \in m + 2 .. m + 1 + c
    PROVE  /\ \E j \in 1 .. Len(W) : W[j] = t[k]
           /\ t[k].above = Path(L[m + 1]) /\ Under(t[k], L[m + 1])
           /\ Depth(t[k]) = Depth(L[m + 1]) + 1
           /\ Earlier(W, L[m + 1], t[k])
  <1> DEFINE h == L[m + 1]
  <1>1. PagesOK /\ W \in Seq(Visit) /\ Full(W, Len(W))
    BY WholeFacts
  <1>2. m + 1 \in 1 .. Len(L) /\ k \in 1 .. Len(t)
    BY GrownSizes
  <1>3. h \in Visit /\ t[k] \in Visit
    BY <1>2 DEF Grown
  <1>4. t[k].at \in Children(pages[h.at].id) /\ t[k].above = Path(h)
    BY DEF Grown
  <1>5. Under(t[k], h) /\ Depth(t[k]) = Depth(h) + 1
    BY <1>1, <1>3, <1>4, RightBelow
  <1>6. PICK a \in 1 .. Len(W) : W[a] = h
    BY <1>2 DEF Among
  <1>7. PICK j \in 1 .. Len(W) : W[j] = [at |-> t[k].at, above |-> Path(h)]
    BY <1>1, <1>4, <1>6 DEF Full
  <1>8. W[j] = t[k]
    <2>1. W[j] \in Visit /\ W[j].at = t[k].at /\ W[j].above = t[k].above
      BY <1>1, <1>4, <1>7
    <2> QED
      BY <1>3, <2>1, SameVisit
  <1>9. a < j
    BY <1>4, <1>6, <1>8, ChildIsLater
  <1> QED
    BY <1>4, <1>5, <1>6, <1>8, <1>9 DEF Earlier

\* A member of a sequence is in its range.
LEMMA InRange ==
    ASSUME NEW a \in Seq(Id), NEW d \in 1 .. Len(a)
    PROVE  a[d] \in Range(a)
  BY DEF Range

\* One more id adds that id.
LEMMA RangeOfAppend ==
    ASSUME NEW a \in Seq(Id), NEW id \in Id
    PROVE  \A x \in Range(Append(a, id)) : x \in Range(a) \/ x = id
  <1>1. Len(a) \in Nat /\ Len(Append(a, id)) = Len(a) + 1 /\ Append(a, id)[Len(a) + 1] = id
    OBVIOUS
  <1>2. \A k \in 1 .. Len(a) : Append(a, id)[k] = a[k]
    OBVIOUS
  <1>3. DOMAIN Append(a, id) = 1 .. Len(a) + 1 /\ DOMAIN a = 1 .. Len(a)
    OBVIOUS
  <1> QED
    BY <1>1, <1>2, <1>3 DEF Range

\* Listing the next page, and putting its children first, keeps each part.
LEMMA OrderGrows ==
    ASSUME NEW W, Whole(W), NEW L, NEW m, NEW t, NEW c, Grown(L, m, t, c),
           InOrder(L, W), Among(L, W), Apart(L, m)
    PROVE  InOrder(t, W)
  <1> DEFINE h == L[m + 1]
  <1>1. /\ m \in Nat /\ c \in Nat /\ Len(L) \in Nat /\ Len(t) = Len(L) + c
        /\ m + 1 \in 1 .. Len(L)
    BY GrownSizes
  <1>2. \A k \in 1 .. Len(t) :
           \/ k \in 1 .. Len(L) /\ k <= m + 1 /\ t[k] = L[k]
           \/ k \in m + 2 .. m + 1 + c
           \/ k - c \in 1 .. Len(L) /\ k - c > m + 1 /\ t[k] = L[k - c]
    BY PlaceOf
  <1>3. \A k \in m + 2 .. m + 1 + c :
           /\ \E j \in 1 .. Len(W) : W[j] = t[k]
           /\ t[k].above = Path(h) /\ Under(t[k], h) /\ Earlier(W, h, t[k])
    BY GrownFromWalk
  <1> SUFFICES ASSUME NEW p \in 1 .. Len(t), NEW q \in 1 .. Len(t), p < q
               PROVE  Earlier(W, t[p], t[q])
    BY DEF InOrder
  <1>4. CASE p \notin m + 2 .. m + 1 + c /\ q \notin m + 2 .. m + 1 + c
    <2>1. PICK i \in 1 .. Len(L), j \in 1 .. Len(L) : i < j /\ t[p] = L[i] /\ t[q] = L[j]
      BY <1>4, OldPlaces
    <2> QED
      BY <2>1 DEF InOrder
  <1>5. CASE p \in m + 2 .. m + 1 + c /\ q \in m + 2 .. m + 1 + c
    <2>1. SiblingBefore(t[p].at, t[q].at)
      BY <1>5 DEF Grown
    <2>2. t[p].above = t[q].above
      BY <1>3, <1>5
    <2>3. (\E j \in 1 .. Len(W) : W[j] = t[p]) /\ (\E j \in 1 .. Len(W) : W[j] = t[q])
      BY <1>3, <1>5
    <2> QED
      BY <2>1, <2>2, <2>3, SiblingsAreEarlier
  <1>6. CASE p \notin m + 2 .. m + 1 + c /\ q \in m + 2 .. m + 1 + c
    <2>1. p \in 1 .. Len(L) /\ p <= m + 1 /\ t[p] = L[p]
      <3>1. ~(p - c > m + 1)
        BY <1>1, <1>6
      <3> QED
        BY <1>2, <1>6, <3>1
    <2>2. Earlier(W, h, t[q])
      BY <1>3, <1>6
    <2>3. CASE p = m + 1
      BY <2>1, <2>2, <2>3
    <2>4. CASE p < m + 1
      <3>1. Earlier(W, t[p], h)
        BY <1>1, <2>1, <2>4 DEF InOrder
      <3> HIDE DEF h
      <3> QED
        BY <2>2, <3>1, EarlierIsOrder
    <2> QED
      BY <1>1, <2>1, <2>3, <2>4
  <1>7. CASE p \in m + 2 .. m + 1 + c /\ q \notin m + 2 .. m + 1 + c
    <2>1. q - c \in 1 .. Len(L) /\ q - c > m + 1 /\ t[q] = L[q - c]
      <3>1. ~(q <= m + 1)
        BY <1>1, <1>7
      <3> QED
        BY <1>2, <1>7, <3>1
    <2>2. Earlier(W, h, t[q])
      BY <1>1, <2>1 DEF InOrder
    <2>3. ~Under(t[q], h)
      <3>1. q - c > m /\ m + 1 > m /\ q - c # m + 1
        BY <1>1, <2>1
      <3> QED
        BY <1>1, <2>1, <3>1 DEF Apart
    <2>4. Earlier(W, h, t[p]) /\ Under(t[p], h)
      BY <1>3, <1>7
    <2> HIDE DEF h
    <2>5. PICK a \in 1 .. Len(W), b \in 1 .. Len(W) : a < b /\ W[a] = h /\ W[b] = t[q]
      BY <2>2 DEF Earlier
    <2>6. PICK e \in 1 .. Len(W), j \in 1 .. Len(W) : e < j /\ W[e] = h /\ W[j] = t[p]
      BY <2>4 DEF Earlier
    <2>7. j # b
      BY <2>3, <2>4, <2>5, <2>6
    <2>8. ~(b < j)
      BY <2>3, <2>4, <2>5, <2>6, SubtreesTogether
    <2>9. j < b
      BY <2>7, <2>8
    <2> QED
      BY <2>5, <2>6, <2>9 DEF Earlier
  <1> QED
    BY <1>4, <1>5, <1>6, <1>7

\* Rendering a page loses nothing that must be shown.
LEMMA ShowsGrows ==
    ASSUME NEW W, Whole(W), NEW L, NEW m, NEW t, NEW c, Grown(L, m, t, c),
           Among(L, W), Shows(L, m, W)
    PROVE  Shows(t, m + 1, W)
  <1> DEFINE h == L[m + 1]
  <1>1. /\ m \in Nat /\ c \in Nat /\ Len(L) \in Nat /\ Len(t) = Len(L) + c
        /\ m + 1 \in 1 .. Len(L) /\ t[m + 1] = h
        /\ \A k \in m + 2 .. m + 1 + c : k \in 1 .. Len(t) /\ k > m + 1
    BY GrownSizes DEF Grown
  <1>2. W \in Seq(Visit)
    BY WholeFacts
  <1> SUFFICES ASSUME NEW k \in 1 .. Len(W), ~Hidden(W[k])
               PROVE  \E p \in 1 .. Len(t) : t[p] = W[k] \/ (p > m + 1 /\ Under(W[k], t[p]))
    BY DEF Shows
  <1>3. PICK p \in 1 .. Len(L) : L[p] = W[k] \/ (p > m /\ Under(W[k], L[p]))
    BY DEF Shows
  <1>4. CASE L[p] = W[k]
    <2>1. \E l \in 1 .. Len(t) : t[l] = L[p]
      BY PlaceKept
    <2> QED
      BY <1>4, <2>1
  <1>5. CASE p = m + 1 /\ Under(W[k], L[p])
    <2>1. PICK a \in 1 .. Len(W) : W[a] = h
      BY <1>1 DEF Among
    <2>2. PICK j \in 1 .. Len(W) : /\ W[j].above = Path(W[a])
                                   /\ W[j].at \in Children(pages[W[a].at].id)
                                   /\ j = k \/ Under(W[k], W[j])
      BY <1>5, <2>1, UnderOneBelow
    <2>3. PICK l \in m + 2 .. m + 1 + c : t[l] = [at |-> W[j].at, above |-> Path(h)]
      <3>1. W[j].at \in Children(pages[h.at].id)
        BY <2>1, <2>2
      <3>2. \A i \in Children(pages[h.at].id) :
               \E l \in m + 2 .. m + 1 + c : t[l] = [at |-> i, above |-> Path(h)]
        BY DEF Grown
      <3> QED
        BY <3>1, <3>2
    <2>4. l \in 1 .. Len(t) /\ l > m + 1
      BY <1>1
    <2>5. t[l] = W[j]
      <3>1. t[l] \in Visit /\ W[j] \in Visit
        BY <1>2, <2>4 DEF Grown
      <3>2. t[l].at = W[j].at /\ t[l].above = W[j].above
        BY <2>1, <2>2, <2>3
      <3> QED
        BY <3>1, <3>2, SameVisit
    <2> QED
      BY <2>2, <2>4, <2>5
  <1>6. CASE p > m + 1 /\ Under(W[k], L[p])
    <2>1. p \in m + 2 .. Len(L) /\ p + c \in 1 .. Len(t) /\ p + c > m + 1
      BY <1>1, <1>6
    <2>2. t[p + c] = L[p]
      BY <2>1 DEF Grown
    <2> QED
      BY <1>6, <2>1, <2>2
  <1>7. p > m => p = m + 1 \/ p > m + 1
    BY <1>1
  <1> QED
    BY <1>3, <1>4, <1>5, <1>6, <1>7

\* Rendering a page that is not pruned shows nothing that is hidden.
LEMMA VisibleGrows ==
    ASSUME PagesOK, NEW L, NEW m, NEW t, NEW c, Grown(L, m, t, c),
           Visible(L, m), ~Pruned(L[m + 1])
    PROVE  Visible(t, m + 1)
  <1> DEFINE h == L[m + 1]
  <1>1. /\ m \in Nat /\ c \in Nat /\ Len(L) \in Nat /\ Len(t) = Len(L) + c
        /\ m + 1 \in 1 .. Len(L) /\ m + 1 > m /\ L \in Seq(Visit)
        /\ \A k \in 1 .. m + 1 : t[k] = L[k]
    BY DEF Grown
  <1>2. h.at \in Index /\ h.above \in Seq(Id) /\ Depth(h) \in Nat /\ pages[h.at].id \in Id
    BY <1>1, At
  <1>3. Open(h) /\ ~pages[h.at].archived /\ ~(Depth(h) >= MaximumDepth)
    BY <1>1, <1>2, PageTreeAssumption DEF Visible, Pruned
  <1>4. ~Hidden(h)
    BY <1>3 DEF Hidden, Open
  <1>5. \A p \in 1 .. m + 1 : ~Hidden(t[p])
    <2> SUFFICES ASSUME NEW p \in 1 .. m + 1 PROVE ~Hidden(t[p])
      OBVIOUS
    <2>1. t[p] = L[p] /\ (p = m + 1 \/ p \in 1 .. m)
      BY <1>1
    <2> QED
      BY <1>4, <2>1 DEF Visible
  <1>6. ASSUME NEW p \in m + 2 .. m + 1 + c PROVE Open(t[p])
    <2>1. t[p].above = Append(h.above, pages[h.at].id)
      BY DEF Grown, Path
    <2>2. \A x \in Range(t[p].above) : x \in Range(h.above) \/ x = pages[h.at].id
      BY <1>2, <2>1, RangeOfAppend
    <2>3. \A i \in Index : pages[i].id = pages[h.at].id => i = h.at
      BY <1>2 DEF PagesOK, UniqueIds
    <2> QED
      BY <1>3, <2>2, <2>3 DEF Open
  <1>7. ASSUME NEW p \in 1 .. Len(t), p > m + 1, p \notin m + 2 .. m + 1 + c
        PROVE  Open(t[p])
    <2>1. p - c \in 1 .. Len(L) /\ p - c > m + 1 /\ t[p] = L[p - c]
      BY <1>7, PlaceAfter
    <2>2. p - c > m
      BY <1>1, <2>1
    <2> QED
      BY <2>1, <2>2 DEF Visible
  <1> QED
    BY <1>5, <1>6, <1>7 DEF Visible

\* After a page is rendered, nothing still to be visited is under another such visit.
LEMMA ApartGrows ==
    ASSUME NEW W, Whole(W), NEW L, NEW m, NEW t, NEW c, Grown(L, m, t, c),
           InOrder(L, W), Among(L, W), Apart(L, m)
    PROVE  Apart(t, m + 1)
  <1> DEFINE h == L[m + 1]
  <1>1. /\ m \in Nat /\ c \in Nat /\ Len(L) \in Nat /\ Len(t) = Len(L) + c
        /\ m + 1 \in 1 .. Len(L) /\ L \in Seq(Visit)
    BY DEF Grown
  <1>2. Depth(h) \in Nat /\ PagesOK /\ h \in Visit
    BY <1>1, WholeFacts, At
  <1>3. \A k \in m + 2 .. m + 1 + c :
           /\ t[k] \in Visit /\ Under(t[k], h) /\ Depth(t[k]) = Depth(h) + 1
    <2>1. \A k \in m + 2 .. m + 1 + c : t[k] \in Visit
      BY GrownSizes DEF Grown
    <2> QED
      BY <2>1, GrownFromWalk
  <1>4. ASSUME NEW k \in 1 .. Len(t), k > m + 1, k \notin m + 2 .. m + 1 + c
        PROVE  /\ k - c \in 1 .. Len(L) /\ k - c > m /\ k - c # m + 1 /\ t[k] = L[k - c]
               /\ ~Under(t[k], h) /\ ~Under(h, t[k]) /\ Earlier(W, h, t[k])
               /\ t[k] \in Visit
    <2>1. k - c \in 1 .. Len(L) /\ k - c > m + 1 /\ t[k] = L[k - c]
      BY <1>4, PlaceAfter
    <2>2. k - c > m /\ k - c # m + 1 /\ m + 1 > m
      BY <1>1, <2>1
    <2>3. ~Under(L[k - c], h) /\ ~Under(h, L[k - c])
      BY <1>1, <2>1, <2>2 DEF Apart
    <2>4. Earlier(W, h, L[k - c])
      BY <1>1, <2>1 DEF InOrder
    <2>5. L[k - c] \in Visit
      BY <1>1, <2>1
    <2> QED
      BY <2>1, <2>2, <2>3, <2>4, <2>5
  <1> HIDE DEF h
  \* A child of h and a page that is not h, and not under it.
  <1>5. ASSUME NEW u \in Visit, NEW x \in Visit,
               Under(u, h), Depth(u) = Depth(h) + 1, u.above = Path(h),
               ~Under(x, h), ~Under(h, x), Earlier(W, h, x)
        PROVE  ~Under(u, x) /\ ~Under(x, u)
    <2>1. Depth(u) \in Nat /\ Depth(x) \in Nat
      BY <1>2, VisitFacts
    <2>2. \A d \in 1 .. Depth(h) + 1 : u.above[d] = Trail(h, d) /\ Trail(u, d) = Trail(h, d)
      BY <1>2, <1>5, <2>1 DEF Under, Trail
    <2>3. ASSUME Under(u, x), Depth(x) < Depth(h) PROVE FALSE
      <3>1. \A d \in 1 .. Depth(x) + 1 : h.above[d] = Trail(x, d)
        <4> SUFFICES ASSUME NEW d \in 1 .. Depth(x) + 1 PROVE h.above[d] = Trail(x, d)
          OBVIOUS
        <4>1. d \in 1 .. Depth(h) + 1 /\ d <= Depth(h)
          BY <1>2, <2>1, <2>3
        <4>2. Trail(h, d) = h.above[d]
          BY <4>1 DEF Trail
        <4> QED
          BY <2>2, <2>3, <4>1, <4>2 DEF Under
      <3> QED
        BY <1>5, <2>3, <3>1 DEF Under
    <2>4. ASSUME Under(u, x), Depth(x) = Depth(h) PROVE FALSE
      <3>1. Depth(h) + 1 \in 1 .. Depth(h) + 1
        BY <1>2
      <3>2. Trail(h, Depth(h) + 1) = Trail(x, Depth(x) + 1)
        BY <2>2, <2>4, <3>1 DEF Under
      <3>3. pages[h.at].id = pages[x.at].id
        BY <1>2, <2>4, <3>2 DEF Trail
      <3>4. PICK a \in 1 .. Len(W), b \in 1 .. Len(W) : a < b /\ W[a] = h /\ W[b] = x
        BY <1>5 DEF Earlier
      <3>5. a = b
        BY <3>3, <3>4, SamePlace
      <3> QED
        BY <3>4, <3>5
    <2>5. ASSUME Under(u, x) PROVE FALSE
      <3>1. Depth(x) < Depth(h) \/ Depth(x) = Depth(h)
        BY <1>2, <1>5, <2>1, <2>5 DEF Under
      <3> QED
        BY <2>3, <2>4, <2>5, <3>1
    <2>6. ASSUME Under(x, u) PROVE FALSE
      <3>1. Depth(x) > Depth(h) + 1 /\ \A d \in 1 .. Depth(h) + 2 : x.above[d] = Trail(u, d)
        BY <1>2, <1>5, <2>1, <2>6 DEF Under
      <3>2. \A d \in 1 .. Depth(h) + 1 : x.above[d] = Trail(h, d)
        BY <1>2, <2>2, <3>1
      <3>3. Depth(x) > Depth(h)
        BY <1>2, <2>1, <3>1
      <3> QED
        BY <1>5, <3>2, <3>3 DEF Under
    <2> QED
      BY <2>5, <2>6
  <1>6. \A k \in m + 2 .. m + 1 + c : t[k].above = Path(h)
    BY DEF Grown, h
  <1> SUFFICES ASSUME NEW p \in 1 .. Len(t), NEW q \in 1 .. Len(t),
                      p > m + 1, q > m + 1, p # q
               PROVE  ~Under(t[p], t[q])
    BY DEF Apart
  <1>7. CASE p \in m + 2 .. m + 1 + c /\ q \in m + 2 .. m + 1 + c
    BY <1>2, <1>3, <1>7 DEF Under
  <1>8. CASE p \notin m + 2 .. m + 1 + c /\ q \notin m + 2 .. m + 1 + c
    <2>1. p - c # q - c
      BY <1>1
    <2>2. /\ p - c \in 1 .. Len(L) /\ p - c > m /\ t[p] = L[p - c]
          /\ q - c \in 1 .. Len(L) /\ q - c > m /\ t[q] = L[q - c]
      BY <1>4, <1>8
    <2> QED
      BY <2>1, <2>2 DEF Apart
  <1>9. CASE p \in m + 2 .. m + 1 + c /\ q \notin m + 2 .. m + 1 + c
    BY <1>3, <1>4, <1>5, <1>6, <1>9
  <1>10. CASE p \notin m + 2 .. m + 1 + c /\ q \in m + 2 .. m + 1 + c
    BY <1>3, <1>4, <1>5, <1>6, <1>10
  <1> QED
    BY <1>7, <1>8, <1>9, <1>10

\* Rendering one page keeps all that is said of a rendering.
LEMMA RenderOne ==
    ASSUME NEW W, Whole(W), NEW l \in Seq(Visit), NEW r \in Seq(Visit), r # <<>>,
           Side(l \o r, Len(l), W), ~Pruned(Head(r))
    PROVE  Side(Append(l, Head(r)) \o (Below(Head(r)) \o Tail(r)), Len(l) + 1, W)
  <1> DEFINE L == l \o r
             t == Append(l, Head(r)) \o (Below(Head(r)) \o Tail(r))
             m == Len(l)
  <1>1. PagesOK
    BY WholeFacts
  <1>2. PICK c : Grown(L, m, t, c)
    BY <1>1, Splices
  <1>3. Side(L, m, W) /\ L[m + 1] = Head(r)
    OBVIOUS
  <1>4. ~Pruned(L[m + 1])
    BY <1>3
  <1> HIDE DEF L, t, m
  <1>5. InOrder(L, W) /\ Among(L, W) /\ Shows(L, m, W) /\ Visible(L, m) /\ Apart(L, m)
    BY <1>3 DEF Side
  <1>6. InOrder(t, W) /\ Shows(t, m + 1, W)
    BY <1>2, <1>5, OrderGrows, ShowsGrows
  <1>7. Visible(t, m + 1)
    BY <1>1, <1>2, <1>4, <1>5, VisibleGrows
  <1>8. Apart(t, m + 1)
    BY <1>2, <1>5, ApartGrows
  <1>9. Among(t, W)
    <2> SUFFICES ASSUME NEW p \in 1 .. Len(t) PROVE \E k \in 1 .. Len(W) : W[k] = t[p]
      BY DEF Among
    <2>1. CASE p \in m + 2 .. m + 1 + c
      BY <1>2, <1>5, <2>1, GrownFromWalk
    <2>2. CASE p \notin m + 2 .. m + 1 + c
      <3>1. PICK i \in 1 .. Len(L) : t[p] = L[i]
        BY <1>2, <2>2, OldPlace
      <3> QED
        BY <1>5, <3>1 DEF Among
    <2> QED
      BY <2>1, <2>2
  <1>10. t \in Seq(Visit) /\ m + 1 \in 0 .. Len(t)
    BY <1>2 DEF Grown
  <1>11. Side(t, m + 1, W)
    BY <1>6, <1>7, <1>8, <1>9, <1>10 DEF Side
  <1> QED
    BY <1>11 DEF t, m

\* Leaving a page out leaves out, with it, only what is hidden.
LEMMA PruneOne ==
    ASSUME NEW W, Whole(W), NEW l \in Seq(Visit), NEW r \in Seq(Visit), r # <<>>,
           Side(l \o r, Len(l), W), Pruned(Head(r))
    PROVE  Side(l \o Tail(r), Len(l), W)
  <1> DEFINE L == l \o r
             t == l \o Tail(r)
             m == Len(l)
             h == Head(r)
  <1>1. /\ L \in Seq(Visit) /\ t \in Seq(Visit) /\ m \in Nat /\ m + 1 \in 1 .. Len(L)
        /\ Len(L) \in Nat /\ Len(t) = Len(L) - 1 /\ h \in Visit /\ L[m + 1] = h
    OBVIOUS
  <1>2. \A k \in 1 .. m : t[k] = L[k]
    OBVIOUS
  <1>3. \A k \in 1 .. Len(t) : k > m => t[k] = L[k + 1]
    <2> SUFFICES ASSUME NEW k \in 1 .. Len(t), k > m PROVE t[k] = L[k + 1]
      OBVIOUS
    <2>1. k - m \in 1 .. Len(Tail(r)) /\ k + 1 - m \in 1 .. Len(r)
      BY <1>1
    <2>2. t[k] = Tail(r)[k - m]
      BY <1>1, <2>1
    <2>3. Tail(r)[k - m] = r[(k - m) + 1]
      BY <2>1
    <2>4. L[k + 1] = r[(k + 1) - m]
      BY <1>1, <2>1
    <2>5. (k - m) + 1 = (k + 1) - m
      BY <1>1
    <2> QED
      BY <2>2, <2>3, <2>4, <2>5
  <1>4. Side(L, m, W) /\ Pruned(h)
    OBVIOUS
  <1> HIDE DEF L, t, m, h
  <1>5. InOrder(L, W) /\ Among(L, W) /\ Shows(L, m, W) /\ Visible(L, m) /\ Apart(L, m)
    BY <1>4 DEF Side
  \* Each place of t is one of L, and in the same order.
  <1>6. ASSUME NEW p \in 1 .. Len(t)
        PROVE  \E i \in 1 .. Len(L) : /\ t[p] = L[i] /\ i = IF p <= m THEN p ELSE p + 1
    <2>1. CASE p <= m
      <3>1. p \in 1 .. m /\ p \in 1 .. Len(L)
        BY <1>1, <2>1
      <3> QED
        BY <1>2, <2>1, <3>1
    <2>2. CASE p > m
      <3>1. p + 1 \in 1 .. Len(L) /\ ~(p <= m)
        BY <1>1, <2>2
      <3> QED
        BY <1>3, <2>2, <3>1
    <2> QED
      BY <1>1, <2>1, <2>2
  <1>7. InOrder(t, W)
    <2> SUFFICES ASSUME NEW p \in 1 .. Len(t), NEW q \in 1 .. Len(t), p < q
                 PROVE  Earlier(W, t[p], t[q])
      BY DEF InOrder
    <2>1. PICK i \in 1 .. Len(L) : t[p] = L[i] /\ i = IF p <= m THEN p ELSE p + 1
      BY <1>6
    <2>2. PICK j \in 1 .. Len(L) : t[q] = L[j] /\ j = IF q <= m THEN q ELSE q + 1
      BY <1>6
    <2>3. i < j
      BY <1>1, <2>1, <2>2
    <2> QED
      BY <1>5, <2>1, <2>2, <2>3 DEF InOrder
  <1>8. Among(t, W)
    BY <1>5, <1>6 DEF Among
  <1>9. Shows(t, m, W)
    <2> SUFFICES ASSUME NEW k \in 1 .. Len(W), ~Hidden(W[k])
                 PROVE  \E p \in 1 .. Len(t) : t[p] = W[k] \/ (p > m /\ Under(W[k], t[p]))
      BY DEF Shows
    <2>1. W[k] \in Visit /\ PagesOK
      BY WholeFacts
    <2>2. PICK p \in 1 .. Len(L) : L[p] = W[k] \/ (p > m /\ Under(W[k], L[p]))
      BY <1>5 DEF Shows
    <2>3. CASE p <= m
      <3>1. p \in 1 .. m /\ p \in 1 .. Len(t)
        BY <1>1, <2>3
      <3> QED
        BY <1>1, <1>2, <2>2, <2>3, <3>1
    <2>4. CASE p > m + 1
      <3>1. p - 1 \in 1 .. Len(t) /\ p - 1 > m /\ (p - 1) + 1 = p
        BY <1>1, <2>4
      <3>2. t[p - 1] = L[p]
        BY <1>3, <3>1
      <3> QED
        BY <1>1, <2>2, <2>4, <3>1, <3>2
    <2>5. CASE p = m + 1
      <3>1. h = W[k] \/ Under(W[k], h)
        BY <1>1, <2>2, <2>5
      <3>2. /\ Depth(h) \in Nat /\ Depth(W[k]) \in Nat /\ h.at \in Index
            /\ W[k].above \in Seq(Id)
        BY <1>1, <2>1, VisitFacts
      <3>3. CASE Depth(h) + 1 > MaximumDepth
        <4>1. Depth(W[k]) >= Depth(h)
          BY <3>1, <3>2 DEF Under
        <4>2. Depth(W[k]) >= MaximumDepth
          BY <3>2, <3>3, <4>1, PageTreeAssumption
        <4> QED
          BY <4>2 DEF Hidden
      <3>4. CASE pages[h.at].archived
        <4>1. CASE h = W[k]
          BY <3>2, <3>4, <4>1 DEF Hidden
        <4>2. CASE Under(W[k], h)
          <5>1. Depth(h) + 1 \in 1 .. Depth(W[k]) /\ Depth(h) + 1 \in 1 .. Depth(h) + 1
            BY <3>2, <4>2 DEF Under
          <5>2. W[k].above[Depth(h) + 1] = pages[h.at].id
            BY <3>2, <4>2, <5>1 DEF Under, Trail
          <5>3. pages[h.at].id \in Range(W[k].above)
            BY <3>2, <5>1, <5>2, InRange DEF Depth
          <5> QED
            BY <3>2, <3>4, <5>3 DEF Hidden
        <4> QED
          BY <3>1, <4>1, <4>2
      <3> QED
        BY <1>4, <3>3, <3>4 DEF Pruned
    <2> QED
      BY <1>1, <2>3, <2>4, <2>5
  <1>10. ASSUME NEW p \in 1 .. Len(t), p > m
         PROVE  p + 1 \in 1 .. Len(L) /\ p + 1 > m /\ t[p] = L[p + 1]
    BY <1>1, <1>3, <1>10
  <1>11. Visible(t, m)
    <2>1. \A p \in 1 .. m : ~Hidden(t[p])
      BY <1>2, <1>5 DEF Visible
    <2>2. \A p \in 1 .. Len(t) : p > m => Open(t[p])
      BY <1>5, <1>10 DEF Visible
    <2> QED
      BY <2>1, <2>2 DEF Visible
  <1>12. Apart(t, m)
    <2> SUFFICES ASSUME NEW p \in 1 .. Len(t), NEW q \in 1 .. Len(t), p > m, q > m, p # q
                 PROVE  ~Under(t[p], t[q])
      BY DEF Apart
    <2>1. p + 1 # q + 1
      OBVIOUS
    <2> QED
      BY <1>5, <1>10, <2>1 DEF Apart
  <1>13. m \in 0 .. Len(t)
    BY <1>1
  <1>14. Side(t, m, W)
    BY <1>1, <1>7, <1>8, <1>9, <1>11, <1>12, <1>13 DEF Side
  <1> QED
    BY <1>14 DEF t, m

-----------------------------------------------------------------------------
(* The sidebar of the machine *)

SideInv ==
    /\ phase = "walk" => listing = <<>>
    /\ phase # "walk" => Side(listing \o stack, Len(listing), walked)
    /\ phase = "done" => stack = <<>>

\* A rendering against the same pages and walk is one before and after a step.
LEMMA SideKept ==
    ASSUME pages' = pages, walked' = walked, NEW s, NEW n, Side(s, n, walked),
           (listing \o stack)' = s, Len(listing)' = n
    PROVE  Side(listing \o stack, Len(listing), walked)'
  <1>1. /\ s \in Seq(Visit) /\ n \in 0 .. Len(s)
        /\ InOrder(s, walked) /\ Among(s, walked) /\ Shows(s, n, walked)
        /\ Visible(s, n) /\ Apart(s, n)
    BY Zenon DEF Side
  <1>2. InOrder(listing \o stack, walked)'
    BY <1>1 DEF InOrder, Earlier
  <1>3. Among(listing \o stack, walked)'
    BY <1>1 DEF Among
  <1>4. Shows(listing \o stack, Len(listing), walked)'
    <2>1. \A v : Hidden(v)' <=> Hidden(v)
      BY DEF Hidden, Depth, Index
    <2>2. \A u, v : Under(u, v)' <=> Under(u, v)
      BY DEF Under, Trail, Depth
    <2> QED
      BY <1>1, <2>1, <2>2 DEF Shows
  <1>5. Visible(listing \o stack, Len(listing))'
    BY <1>1 DEF Visible, Open, Hidden, Depth, Index
  <1>6. Apart(listing \o stack, Len(listing))'
    BY <1>1 DEF Apart, Under, Trail, Depth
  <1> QED
    BY <1>1, <1>2, <1>4, <1>5, <1>6, <1>3 DEF Side

\* Every step keeps what is said of the sidebar.
LEMMA StepSides == WalkInv /\ SideInv /\ [Next]_vars => SideInv'
  <1> SUFFICES ASSUME WalkInv, SideInv, [Next]_vars PROVE SideInv'
    OBVIOUS
  <1>1. TypeOK /\ Walking(Seen, Len(walked)) /\ PagesOK
    BY DEF WalkInv, TypeOK
  <1>2. /\ pages' = pages
        /\ listing \in Seq(Visit) /\ stack \in Seq(Visit) /\ walked \in Seq(Visit)
    BY <1>1, TypesKept DEF TypeOK
  <1>3. ASSUME phase # "walk" \/ stack = <<>> PROVE Whole(walked)
    <2>1. Seen = walked
      BY <1>2, <1>3 DEF Seen
    <2> QED
      BY <1>1, <2>1 DEF Whole
  <1>4. CASE WalkFrom
    BY <1>4 DEF WalkFrom, SideInv
  <1>5. CASE WalkEnds
    <2> DEFINE s == Visits(Roots, <<>>)
    <2>1. Whole(walked)
      BY <1>3, <1>5 DEF WalkEnds
    <2>2. s \in Seq(Visit)
      BY <1>1, RootVisits
    <2>3. listing = <<>> /\ listing' = <<>> /\ stack' = s /\ walked' = walked /\ phase' = "render"
      BY <1>5 DEF WalkEnds, SideInv
    <2> HIDE DEF s
    <2>4. Side(s, 0, walked)
      BY <2>1, RenderStarts DEF s
    <2>5. (listing \o stack)' = s /\ Len(listing)' = 0
      BY <2>2, <2>3
    <2>6. Side(listing \o stack, Len(listing), walked)'
      BY <1>2, <2>3, <2>4, <2>5, SideKept
    <2> QED
      BY <2>3, <2>6 DEF SideInv
  <1>6. CASE Render
    <2> DEFINE l == listing
               r == stack
               t == Append(l, Head(r)) \o (Below(Head(r)) \o Tail(r))
    <2>1. Whole(walked) /\ Side(l \o r, Len(l), walked) /\ ~Pruned(Head(r))
      BY <1>3, <1>6 DEF Render, SideInv
    <2>2. l \in Seq(Visit) /\ r \in Seq(Visit) /\ r # <<>>
      BY <1>2, <1>6 DEF Render
    <2>3. Side(t, Len(l) + 1, walked)
      BY <2>1, <2>2, RenderOne
    <2>4. (listing \o stack)' = t /\ Len(listing)' = Len(l) + 1
      BY <1>6, <2>2 DEF Render
    <2>5. phase' = "render" /\ walked' = walked
      BY <1>6 DEF Render
    <2> HIDE DEF t, l
    <2>6. Side(listing \o stack, Len(listing), walked)'
      BY <1>2, <2>3, <2>4, <2>5, SideKept
    <2> QED
      BY <2>5, <2>6 DEF SideInv
  <1>7. CASE Prune
    <2> DEFINE l == listing
               r == stack
               t == l \o Tail(r)
    <2>1. Whole(walked) /\ Side(l \o r, Len(l), walked) /\ Pruned(Head(r))
      BY <1>3, <1>7 DEF Prune, SideInv
    <2>2. l \in Seq(Visit) /\ r \in Seq(Visit) /\ r # <<>>
      BY <1>2, <1>7 DEF Prune
    <2>3. Side(t, Len(l), walked)
      BY <2>1, <2>2, PruneOne
    <2>4. (listing \o stack)' = t /\ Len(listing)' = Len(l)
      BY <1>7 DEF Prune
    <2>5. phase' = "render" /\ walked' = walked
      BY <1>7 DEF Prune
    <2> HIDE DEF t, l
    <2>6. Side(listing \o stack, Len(listing), walked)'
      BY <1>2, <2>3, <2>4, <2>5, SideKept
    <2> QED
      BY <2>5, <2>6 DEF SideInv
  <1>8. CASE RenderEnds \/ UNCHANGED vars
    <2>1. /\ stack' = stack /\ walked' = walked /\ listing' = listing
          /\ phase' = "walk" => phase = "walk"
          /\ phase' = "done" => stack = <<>>
          /\ phase' # "walk" => phase # "walk"
      BY <1>8 DEF RenderEnds, vars, SideInv
    <2>2. ASSUME phase # "walk" PROVE Side(listing \o stack, Len(listing), walked)'
      <3>1. Side(listing \o stack, Len(listing), walked)
        BY <2>2 DEF SideInv
      <3>2. (listing \o stack)' = listing \o stack /\ Len(listing)' = Len(listing)
        BY <2>1
      <3> QED
        BY <1>2, <2>1, <3>1, <3>2, SideKept
    <2> QED
      BY <2>1, <2>2 DEF SideInv
  <1> QED
    BY <1>4, <1>5, <1>6, <1>7, <1>8 DEF Next, Done

\* The invariant of both descents.
LEMMA SideAlways == Spec => [](WalkInv /\ SideInv)
  <1>1. Init => SideInv
    BY DEF Init, SideInv
  <1> QED
    BY <1>1, InitWalks, StepWalks, StepSides, PTL DEF Spec

\* A finished rendering is the visible part of the walk.
LEMMA SideShown == WalkInv /\ SideInv => SidebarIsVisiblePart
  <1> SUFFICES ASSUME WalkInv, SideInv, phase = "done"
               PROVE  /\ Range(listing) = {v \in Range(walked) : ~Hidden(v)}
                      /\ \A p, q \in DOMAIN listing : p < q =>
                            \E k, l \in DOMAIN walked :
                               k < l /\ walked[k] = listing[p] /\ walked[l] = listing[q]
    BY DEF SidebarIsVisiblePart
  <1>1. listing \in Seq(Visit) /\ walked \in Seq(Visit)
    BY DEF WalkInv, TypeOK
  <1>2. listing \o stack = listing
    BY <1>1 DEF SideInv
  <1>3. Side(listing, Len(listing), walked)
    BY <1>2 DEF SideInv
  <1>4. /\ InOrder(listing, walked) /\ Among(listing, walked)
        /\ Shows(listing, Len(listing), walked) /\ Visible(listing, Len(listing))
    BY <1>3 DEF Side
  <1>5. /\ DOMAIN listing = 1 .. Len(listing) /\ DOMAIN walked = 1 .. Len(walked)
        /\ Range(listing) = {listing[p] : p \in 1 .. Len(listing)}
        /\ Range(walked) = {walked[k] : k \in 1 .. Len(walked)}
    BY <1>1 DEF Range
  <1>6. ASSUME NEW p \in 1 .. Len(listing)
        PROVE  ~Hidden(listing[p]) /\ listing[p] \in Range(walked)
    BY <1>4, <1>5 DEF Visible, Among
  <1>7. ASSUME NEW k \in 1 .. Len(walked), ~Hidden(walked[k])
        PROVE  walked[k] \in Range(listing)
    <2>1. PICK p \in 1 .. Len(listing) :
             listing[p] = walked[k] \/ (p > Len(listing) /\ Under(walked[k], listing[p]))
      BY <1>4, <1>7 DEF Shows
    <2>2. ~(p > Len(listing))
      BY <1>1
    <2> QED
      BY <1>5, <2>1, <2>2
  <1>8. Range(listing) = {v \in Range(walked) : ~Hidden(v)}
    BY <1>5, <1>6, <1>7
  <1>9. \A p, q \in DOMAIN listing : p < q =>
           \E k, l \in DOMAIN walked :
              k < l /\ walked[k] = listing[p] /\ walked[l] = listing[q]
    BY <1>4, <1>5 DEF InOrder, Earlier
  <1> QED
    BY <1>8, <1>9

\* The sidebar lists, in the order of the walk, the pages within its depth that
\* have no archived page at or above them, and no others (sidebar.rs; INV-3).
THEOREM SidebarKept == Spec => []SidebarIsVisiblePart
  BY SideAlways, SideShown, PTL

-----------------------------------------------------------------------------
(* PageSource: places *)

\* A set of numbers up to n is finite.
LEMMA SomeNumbers ==
    ASSUME NEW n \in Nat, NEW S, \A i \in S : i \in 1 .. n
    PROVE  IsFiniteSet(S) /\ \A i \in S : i \in Nat
  <1> DEFINE I == 1 .. n
  <1>1. IsFiniteSet(I) /\ S \in SUBSET I /\ \A i \in I : i \in Nat
    BY FS_Interval
  <1> HIDE DEF I
  <1> QED
    BY <1>1, FS_Subset

\* How many of S come up to i.
Upto(S, i) == Cardinality({j \in S : j <= i})

\* Counting the members up to each one numbers them in their order.
LEMMA UptoFacts ==
    ASSUME NEW S, \A i \in S : i \in Nat, IsFiniteSet(S)
    PROVE  /\ Cardinality(S) \in Nat
           /\ \A i \in S : Upto(S, i) \in 1 .. Cardinality(S)
           /\ \A i, j \in S : i < j => Upto(S, i) < Upto(S, j)
  <1> DEFINE N == Cardinality(S)
             Low(i) == {j \in S : j <= i}
  <1>1. N \in Nat
    BY FS_CardinalityType
  <1>2. \A i : IsFiniteSet(Low(i)) /\ Low(i) \in SUBSET S
    BY FS_Subset
  <1>3. \A i : Upto(S, i) \in Nat /\ Upto(S, i) <= N
    BY <1>2, FS_Subset, FS_CardinalityType DEF Upto
  <1>4. ASSUME NEW i \in S PROVE Upto(S, i) # 0
    <2>1. i \in Low(i)
      OBVIOUS
    <2> QED
      BY <1>2, <2>1, FS_EmptySet DEF Upto
  <1>5. ASSUME NEW i \in S, NEW j \in S, i < j PROVE Upto(S, i) < Upto(S, j)
    <2>1. Low(i) \in SUBSET Low(j) /\ j \in Low(j) /\ j \notin Low(i)
      BY <1>5
    <2>2. Upto(S, i) <= Upto(S, j) /\ Upto(S, i) # Upto(S, j)
      BY <1>2, <2>1, FS_Subset DEF Upto
    <2> QED
      BY <1>3, <2>2
  <1> QED
    BY <1>1, <1>3, <1>4, <1>5

\* Places lists a set of numbers, each at its rank.
LEMMA PlacesFacts ==
    ASSUME NEW S, \A i \in S : i \in Nat, IsFiniteSet(S)
    PROVE  /\ Cardinality(S) \in Nat
           /\ DOMAIN Places(S) = 1 .. Cardinality(S)
           /\ \A k \in 1 .. Cardinality(S) : Places(S)[k] \in S /\ Upto(S, Places(S)[k]) = k
           /\ \A i \in S : /\ Upto(S, i) \in 1 .. Cardinality(S)
                           /\ Places(S)[Upto(S, i)] = i
  <1> DEFINE N == Cardinality(S)
  <1>1. N \in Nat /\ \A i \in S : Upto(S, i) \in 1 .. N
    BY UptoFacts
  <1>2. ASSUME NEW i \in S, NEW j \in S, Upto(S, i) = Upto(S, j) PROVE i = j
    <2>1. i \in Nat /\ j \in Nat /\ ~(i < j) /\ ~(j < i)
      BY <1>1, <1>2, UptoFacts
    <2> QED
      BY <2>1
  <1>3. ASSUME NEW k \in 1 .. N PROVE \E i \in S : Upto(S, i) = k
    <2>1. SUFFICES ASSUME \A i \in S : Upto(S, i) # k PROVE FALSE
      OBVIOUS
    <2> DEFINE T == (1 .. N) \ {k}
               f == [i \in S |-> Upto(S, i)]
    <2>2. IsFiniteSet(1 .. N) /\ Cardinality(1 .. N) = N
      BY <1>1, FS_Interval
    <2>3. IsFiniteSet(T) /\ Cardinality(T) < N
      <3>1. IsFiniteSet(T) /\ Cardinality(T) = Cardinality(1 .. N) - 1
        BY <2>2, FS_RemoveElement
      <3> QED
        BY <1>1, <2>2, <3>1
    <2>4. f \in [S -> T]
      BY <1>1, <2>1
    <2> HIDE DEF f, T
    <2>5. PICK i \in S, j \in S : i # j /\ f[i] = f[j]
      BY <1>1, <2>3, <2>4, FS_PigeonHole
    <2> QED
      BY <1>2, <2>5 DEF f
  <1>4. ASSUME NEW k \in 1 .. N PROVE Places(S)[k] \in S /\ Upto(S, Places(S)[k]) = k
    <2>1. Places(S)[k] = CHOOSE i \in S : Upto(S, i) = k
      BY DEF Places, Upto
    <2> QED
      BY <1>3, <2>1
  <1>5. ASSUME NEW i \in S PROVE Places(S)[Upto(S, i)] = i
    BY <1>1, <1>2, <1>4
  <1>6. DOMAIN Places(S) = 1 .. N
    BY DEF Places
  <1> QED
    BY <1>1, <1>4, <1>5, <1>6

\* A number past all of S comes last.
LEMMA PlacesGrow ==
    ASSUME NEW S, \A i \in S : i \in Nat, IsFiniteSet(S), NEW n \in Nat, \A i \in S : i < n
    PROVE  LET N == Cardinality(S)
               T == S \cup {n}
           IN  /\ IsFiniteSet(T) /\ N \in Nat /\ Cardinality(T) = N + 1
               /\ \A k \in 1 .. N : Places(T)[k] = Places(S)[k]
               /\ Places(T)[N + 1] = n
  <1> DEFINE N == Cardinality(S)
             T == S \cup {n}
  <1>1. IsFiniteSet(T) /\ N \in Nat /\ Cardinality(T) = N + 1 /\ T \subseteq Nat
    BY FS_AddElement, FS_CardinalityType
  <1>2. ASSUME NEW i \in S PROVE Upto(T, i) = Upto(S, i)
    <2>1. {j \in T : j <= i} = {j \in S : j <= i}
      OBVIOUS
    <2> QED
      BY <2>1 DEF Upto
  <1>3. Upto(T, n) = N + 1
    <2>1. {j \in T : j <= n} = T
      OBVIOUS
    <2> QED
      BY <1>1, <2>1 DEF Upto
  <1> HIDE DEF T
  <1>4. ASSUME NEW k \in 1 .. N PROVE Places(T)[k] = Places(S)[k]
    <2>1. Places(S)[k] \in S /\ Upto(S, Places(S)[k]) = k
      BY PlacesFacts
    <2>2. Places(S)[k] \in T
      BY <2>1 DEF T
    <2>3. Upto(T, Places(S)[k]) = k
      BY <1>2, <2>1
    <2> QED
      BY <1>1, <2>2, <2>3, PlacesFacts
  <1>5. Places(T)[N + 1] = n
    <2>1. n \in T
      BY DEF T
    <2> QED
      BY <1>1, <1>3, <2>1, PlacesFacts
  <1> QED
    BY <1>1, <1>4, <1>5 DEF T

-----------------------------------------------------------------------------
(* Values *)

\* The pieces the program writes itself.
LEMMA Pieces ==
    /\ "sp" \in Piece /\ "-- >" \in Piece /\ "[" \in Piece /\ "]" \in Piece
    /\ "0" \in Piece /\ "7" \in Piece /\ "page" \in Piece /\ "null" \in Piece
    /\ "true" \in Piece /\ "false" \in Piece
  BY SourceAssumption

\* A value to be sanitised has such a piece at some place.
LEMMA PathologicalAt ==
    ASSUME NEW v \in Seq(Piece)
    PROVE  Pathological(v) <=> \E i \in 1 .. Len(v) : v[i] = "ctl" \/ v[i] = "-->"
  <1>1. DOMAIN v = 1 .. Len(v)
    OBVIOUS
  <1> QED
    BY <1>1 DEF Pathological, Range

\* Trimming keeps a value a value, brings in no piece, and is done once.
LEMMA TrimmedFacts ==
    ASSUME NEW v \in Seq(Piece)
    PROVE  /\ Trimmed(v) \in Seq(Piece)
           /\ \A i \in 1 .. Len(Trimmed(v)) : \E j \in 1 .. Len(v) : Trimmed(v)[i] = v[j]
           /\ Trimmed(Trimmed(v)) = Trimmed(v)
  <1> DEFINE ink == {i \in DOMAIN v : v[i] # "sp"}
             a == CHOOSE i \in ink : \A j \in ink : i <= j
             b == CHOOSE i \in ink : \A j \in ink : j <= i
             t == Trimmed(v)
  <1>1. DOMAIN v = 1 .. Len(v) /\ Len(v) \in Nat
    OBVIOUS
  <1>2. CASE ink = {}
    <2>1. t = <<>>
      BY <1>2 DEF Trimmed
    <2>2. Trimmed(<<>>) = <<>>
      BY DEF Trimmed
    <2> QED
      BY <2>1, <2>2
  <1>3. CASE ink # {}
    <2>1. a \in ink /\ \A j \in ink : a <= j
      <3>1. ink \subseteq Nat
        BY <1>1
      <3>2. \E i \in ink : \A j \in ink : i <= j
        BY <1>3, <3>1, LeastNumber
      <3> QED
        BY <3>2
    <2>2. b \in ink /\ \A j \in ink : j <= b
      <3> DEFINE T == {Len(v) - i : i \in ink}
      <3>1. T \subseteq Nat /\ T # {}
        BY <1>1, <1>3
      <3>2. PICK x \in T : \A y \in T : x <= y
        BY <3>1, LeastNumber
      <3>3. PICK i \in ink : x = Len(v) - i
        BY <3>2
      <3>4. ASSUME NEW j \in ink PROVE j <= i
        <4>1. Len(v) - j \in T /\ j \in Nat /\ i \in Nat
          BY <1>1, <3>3
        <4>2. x <= Len(v) - j
          BY <3>2, <4>1
        <4> QED
          BY <1>1, <3>3, <4>1, <4>2
      <3> QED
        BY <3>3, <3>4
    <2>3. t = SubSeq(v, a, b)
      BY <1>3 DEF Trimmed
    <2> HIDE DEF a, b, t
    <2>4. a \in 1 .. Len(v) /\ b \in 1 .. Len(v) /\ a <= b
      BY <1>1, <2>1, <2>2
    <2>5. /\ t \in Seq(Piece) /\ Len(t) = b - a + 1
          /\ \A i \in 1 .. Len(t) : t[i] = v[a + i - 1]
      BY <2>3, <2>4
    <2>6. t[1] # "sp" /\ t[Len(t)] # "sp"
      BY <2>1, <2>2, <2>4, <2>5
    <2>7. Trimmed(t) = t
      <3> DEFINE ink2 == {i \in DOMAIN t : t[i] # "sp"}
                 a2 == CHOOSE i \in ink2 : \A j \in ink2 : i <= j
                 b2 == CHOOSE i \in ink2 : \A j \in ink2 : j <= i
      <3>1. DOMAIN t = 1 .. Len(t) /\ Len(t) \in Nat /\ Len(t) >= 1
        BY <2>4, <2>5 DEF t
      <3>2. 1 \in ink2 /\ Len(t) \in ink2 /\ \A j \in ink2 : j \in 1 .. Len(t)
        BY <2>6, <3>1
      <3>3. a2 = 1
        BY <3>1, <3>2
      <3>4. b2 = Len(t)
        BY <3>1, <3>2
      <3>5. Trimmed(t) = SubSeq(t, a2, b2)
        BY <3>2 DEF Trimmed
      <3> HIDE DEF a2, b2
      <3> QED
        BY <2>5, <3>3, <3>4, <3>5
    <2>8. \A i \in 1 .. Len(t) : a + i - 1 \in 1 .. Len(v)
      BY <1>1, <2>4, <2>5
    <2> QED
      BY <2>5, <2>7, <2>8 DEF t
  <1> QED
    BY <1>2, <1>3

\* A sanitised value needs no sanitising, and one that needs none is left as it is.
LEMMA SanitisedFacts ==
    ASSUME NEW v \in Seq(Piece)
    PROVE  /\ Sanitised(v) \in Seq(Piece) /\ Len(Sanitised(v)) = Len(v)
           /\ ~Pathological(Sanitised(v))
           /\ ~Pathological(v) => Sanitised(v) = v
  <1>1. DOMAIN v = 1 .. Len(v) /\ Len(v) \in Nat /\ \A i \in 1 .. Len(v) : v[i] \in Piece
    OBVIOUS
  <1>2. Sanitised(v) \in [1 .. Len(v) -> Piece]
    <2> DEFINE c(i) == CASE v[i] = "ctl" -> "sp" [] v[i] = "-->" -> "-- >" [] OTHER -> v[i]
    <2>1. \A i \in 1 .. Len(v) : c(i) \in Piece
      BY <1>1, Pieces
    <2>2. Sanitised(v) = [i \in 1 .. Len(v) |-> c(i)]
      BY <1>1 DEF Sanitised
    <2> HIDE DEF c
    <2> QED
      BY <2>1, <2>2
  <1>3. Sanitised(v) \in Seq(Piece) /\ Len(Sanitised(v)) = Len(v)
    BY <1>1, <1>2
  <1>4. ~Pathological(Sanitised(v))
    BY <1>1, <1>3, PathologicalAt DEF Sanitised
  <1>5. ASSUME ~Pathological(v) PROVE Sanitised(v) = v
    <2>1. \A i \in 1 .. Len(v) : v[i] # "ctl" /\ v[i] # "-->"
      BY <1>5, PathologicalAt
    <2>2. \A i \in 1 .. Len(v) : Sanitised(v)[i] = v[i]
      BY <1>1, <2>1 DEF Sanitised
    <2> QED
      BY <1>3, <2>2
  <1> QED
    BY <1>3, <1>4, <1>5

\* What is read of a value is clean, and a clean value is read as it is written.
LEMMA ReadClean ==
    ASSUME NEW v \in Seq(Piece)
    PROVE  Clean(Normalised(Trimmed(v)))
  <1> DEFINE t == Trimmed(v)
  <1>1. t \in Seq(Piece) /\ Trimmed(t) = t
    BY TrimmedFacts
  <1> HIDE DEF t
  <1>2. CASE ~Pathological(t)
    <2>1. Normalised(t) = t
      BY <1>2 DEF Normalised
    <2> QED
      <3>1. Clean(t)
        BY <1>1, <1>2 DEF Clean
      <3> QED
        BY <2>1, <3>1 DEF t
  <1>3. CASE Pathological(t)
    <2> DEFINE s == Sanitised(t)
    <2>1. s \in Seq(Piece) /\ ~Pathological(s)
      BY <1>1, SanitisedFacts
    <2> HIDE DEF s
    <2>2. /\ Trimmed(s) \in Seq(Piece) /\ Trimmed(Trimmed(s)) = Trimmed(s)
          /\ \A i \in 1 .. Len(Trimmed(s)) : \E j \in 1 .. Len(s) : Trimmed(s)[i] = s[j]
      BY <2>1, TrimmedFacts
    <2>3. ~Pathological(Trimmed(s))
      BY <2>1, <2>2, PathologicalAt
    <2>4. Normalised(t) = Trimmed(s)
      BY <1>3 DEF Normalised, s
    <2>5. Clean(Trimmed(s))
      BY <2>2, <2>3 DEF Clean
    <2> QED
      BY <2>4, <2>5 DEF t
  <1> QED
    BY <1>2, <1>3 DEF t

\* A clean value goes through writing and reading unchanged.
LEMMA CleanKept ==
    ASSUME NEW v, Clean(v)
    PROVE  /\ v \in Seq(Piece) /\ Sanitised(v) = v /\ Trimmed(v) = v /\ Normalised(v) = v
  BY SanitisedFacts DEF Clean, Normalised

\* The words the program writes are clean,
LEMMA CleanWords ==
    ASSUME NEW x \in {"0", "7", "page", "null", "true", "false"}
    PROVE  Clean(<<x>>)
  <1> DEFINE v == <<x>>
             ink == {i \in DOMAIN v : v[i] # "sp"}
  <1>1. v \in Seq(Piece) /\ Len(v) = 1 /\ DOMAIN v = {1} /\ v[1] = x
    <2>1. x \in Piece
      BY Pieces
    <2> QED
      BY <2>1
  <1>2. ~Pathological(v)
    <2>1. x # "ctl" /\ x # "-->"
      OBVIOUS
    <2>2. \A i \in 1 .. Len(v) : v[i] = x
      BY <1>1
    <2> HIDE DEF v
    <2> QED
      BY <1>1, <2>1, <2>2, PathologicalAt
  <1>3. ink = {1}
    BY <1>1
  <1>4. Trimmed(v) = SubSeq(v, 1, 1)
    <2>1. (CHOOSE i \in ink : \A j \in ink : i <= j) = 1 /\ (CHOOSE i \in ink : \A j \in ink : j <= i) = 1
      BY <1>3
    <2> QED
      BY <1>3, <2>1 DEF Trimmed
  <1>5. SubSeq(v, 1, 1) = v
    <2> HIDE DEF v
    <2>1. /\ SubSeq(v, 1, 1) \in Seq(Piece) /\ Len(SubSeq(v, 1, 1)) = 1
          /\ SubSeq(v, 1, 1)[1] = v[1]
      BY <1>1
    <2> QED
      BY <1>1, <2>1
  <1> QED
    BY <1>1, <1>2, <1>4, <1>5 DEF Clean

\* and so is the empty value.
LEMMA CleanNothing == Clean(<<>>)
  BY DEF Clean, Pathological, Range, Trimmed

-----------------------------------------------------------------------------
(* Lines and what a block is read to *)

UnknownField(line) == IsField(line) /\ line.key \notin Keys

\* Preserving an unknown line is done once, and leaves an unknown field one.
LEMMA PreservedFacts ==
    ASSUME NEW line \in SourceLine
    PROVE  /\ Preserved(line) \in SourceLine
           /\ Preserved(Preserved(line)) = Preserved(line)
           /\ Preserved(line).is = line.is /\ Preserved(line).indented = line.indented
           /\ UnknownField(line) => UnknownField(Preserved(line))
  <1> DEFINE d(v) == [i \in DOMAIN v |-> IF v[i] = "-->" THEN "-- >" ELSE v[i]]
             k(x) == IF x = "u-->" THEN "u-- >" ELSE x
  <1>1. ASSUME NEW v \in Seq(Piece) PROVE d(v) \in Seq(Piece) /\ d(d(v)) = d(v)
    <2>1. DOMAIN v = 1 .. Len(v) /\ Len(v) \in Nat /\ \A i \in 1 .. Len(v) : v[i] \in Piece
      OBVIOUS
    <2> DEFINE c(i) == IF v[i] = "-->" THEN "-- >" ELSE v[i]
    <2>2. \A i \in 1 .. Len(v) : c(i) \in Piece
      BY <2>1, Pieces
    <2>3. d(v) = [i \in 1 .. Len(v) |-> c(i)]
      BY <2>1
    <2>4. d(v) \in Seq(Piece) /\ Len(d(v)) = Len(v)
      <3> HIDE DEF c, d
      <3> QED
        BY <2>1, <2>2, <2>3
    <2>5. DOMAIN d(v) = 1 .. Len(v) /\ \A i \in 1 .. Len(v) : d(v)[i] # "-->"
      BY <2>1
    <2>6. d(d(v)) = [i \in 1 .. Len(v) |-> d(v)[i]]
      BY <2>5
    <2> HIDE DEF d
    <2> QED
      BY <2>4, <2>6
  <1>2. k(line.key) \in Key /\ k(k(line.key)) = k(line.key)
    <2>1. "u-- >" \in Key /\ line.key \in Key
      BY SourceAssumption DEF SourceLine
    <2> QED
      BY <2>1
  <1>3. ASSUME NEW l \in SourceLine
        PROVE  Preserved(l) = [l EXCEPT !.value = d(l.value), !.key = k(l.key)]
    BY DEF Preserved, SourceLine
  <1> HIDE DEF d, k
  <1>4. line.value \in Seq(Piece) /\ line.key \in Key
    BY DEF SourceLine
  <1>5. /\ Preserved(line) \in SourceLine
        /\ Preserved(line).is = line.is /\ Preserved(line).indented = line.indented
        /\ Preserved(line).value = d(line.value) /\ Preserved(line).key = k(line.key)
    BY <1>1, <1>2, <1>3, <1>4 DEF SourceLine
  <1>6. Preserved(Preserved(line)) = Preserved(line)
    <2> DEFINE l == Preserved(line)
    <2>1. l \in SourceLine /\ l.value = d(line.value) /\ l.key = k(line.key)
      BY <1>5
    <2> HIDE DEF l
    <2>2. Preserved(l) = [l EXCEPT !.value = d(l.value), !.key = k(l.key)]
      BY <1>3, <2>1
    <2>3. d(l.value) = l.value
      BY <1>1, <1>4, <2>1
    <2>4. k(l.key) = l.key
      BY <1>2, <2>1
    <2>5. Preserved(l) = [l EXCEPT !.value = l.value, !.key = l.key]
      BY <2>2, <2>3, <2>4
    <2>6. Preserved(l) = l
      BY <2>1, <2>5 DEF SourceLine
    <2> QED
      BY <2>6 DEF l
  <1>7. UnknownField(line) => UnknownField(Preserved(line))
    BY <1>5 DEF UnknownField, IsField, Keys, k
  <1> QED
    BY <1>5, <1>6, <1>7

Meta == [id : Seq(Piece), parent : Seq(Piece), position : Positions, kind : Seq(Piece),
         tags : Seq(Seq(Piece)), archived : BOOLEAN, extra : Seq(SourceLine)]

\* Fields that a save writes and the next load reads again.
Fields(m) ==
    /\ m \in Meta
    /\ Clean(m.id) /\ Clean(m.kind) /\ Clean(m.parent) /\ m.parent # <<"null">>
    /\ \A t \in 1 .. Len(m.tags) : Clean(m.tags[t])

\* So are these lines: each is a field of its own or goes with the one above it.
Extra(x) ==
    \A e \in 1 .. Len(x) :
       /\ Preserved(x[e]) = x[e] /\ x[e].is # "close"
       /\ UnknownField(x[e]) \/ (e > 1 /\ x[e].indented /\ x[e].is # "blank")

\* A block read so far.
Reading(acc) ==
    /\ acc = [meta |-> acc.meta, list |-> acc.list]
    /\ acc.list \in {"none", "tags", "extra"}
    /\ Fields(acc.meta) /\ Extra(acc.meta.extra)
    /\ acc.list = "extra" => Len(acc.meta.extra) > 0

\* Whether a line is kept for what it is.
Kept(list, line) ==
    UnknownField(line) \/ (list = "extra" /\ line.indented /\ line.is # "blank")

\* What parsing starts from can be written.
LEMMA FreshReads == Reading([meta |-> Fresh, list |-> "none"])
  <1>1. Clean(<<>>) /\ Clean(<<"page">>) /\ Clean(<<"0">>) /\ <<>> # <<"null">>
    BY CleanNothing, CleanWords
  <1>2. <<>> \in Seq(Piece) /\ <<"page">> \in Seq(Piece)
    BY <1>1 DEF Clean
  <1>3. Fresh \in Meta
    BY <1>2 DEF Fresh, Meta, Positions
  <1> QED
    BY <1>1, <1>3 DEF Fresh, Fields, Extra, Reading

\* What a tag list in brackets is read to.
LEMMA InlineTagsClean ==
    ASSUME NEW v \in Seq(Piece)
    PROVE  /\ InlineTags(v) \in Seq(Seq(Piece))
           /\ \A t \in 1 .. Len(InlineTags(v)) : Clean(InlineTags(v)[t])
  <1> DEFINE inner == SubSeq(v, 2, Len(v) - 1)
             at == {i \in DOMAIN inner : inner[i] = ","}
             commas == Places(at)
             part(k) == SubSeq(inner, IF k = 1 THEN 1 ELSE commas[k - 1] + 1,
                                      IF k > Len(commas) THEN Len(inner) ELSE commas[k] - 1)
             tags == [k \in 1 .. (Len(commas) + 1) |-> Normalised(Trimmed(part(k)))]
             some == {k \in DOMAIN tags : tags[k] # <<>>}
             kept == Places(some)
  <1>1. inner \in Seq(Piece) /\ Len(inner) \in Nat /\ DOMAIN inner = 1 .. Len(inner)
    OBVIOUS
  <1> HIDE DEF inner
  <1>2. IsFiniteSet(at) /\ \A i \in at : i \in Nat /\ i \in 1 .. Len(inner)
    <2>1. \A i \in at : i \in 1 .. Len(inner)
      BY <1>1
    <2> HIDE DEF at
    <2> QED
      BY <1>1, <2>1, SomeNumbers
  <1> HIDE DEF at
  <1>3. /\ Len(commas) \in Nat /\ DOMAIN commas = 1 .. Len(commas)
        /\ \A k \in 1 .. Len(commas) : commas[k] \in 1 .. Len(inner)
    <2>1. /\ Cardinality(at) \in Nat /\ DOMAIN commas = 1 .. Cardinality(at)
          /\ \A k \in 1 .. Cardinality(at) : commas[k] \in at
      BY <1>2, PlacesFacts
    <2>2. Len(commas) = Cardinality(at)
      BY <2>1 DEF Places
    <2> QED
      BY <1>2, <2>1, <2>2
  <1> HIDE DEF commas
  <1>4. ASSUME NEW k \in 1 .. (Len(commas) + 1) PROVE part(k) \in Seq(Piece)
    <2>1. (IF k = 1 THEN 1 ELSE commas[k - 1] + 1) \in 1 .. (Len(inner) + 1)
      BY <1>1, <1>3, SMTT(20)
    <2>2. (IF k > Len(commas) THEN Len(inner) ELSE commas[k] - 1) \in 0 .. Len(inner)
      BY <1>1, <1>3, SMTT(20)
    <2> QED
      BY <1>1, <2>1, <2>2
  <1> HIDE DEF part
  <1>5. \A k \in 1 .. (Len(commas) + 1) : Clean(tags[k])
    BY <1>4, ReadClean
  <1>6. DOMAIN tags = 1 .. (Len(commas) + 1)
    OBVIOUS
  <1> HIDE DEF tags
  <1>7. IsFiniteSet(some) /\ \A i \in some : i \in Nat /\ i \in 1 .. (Len(commas) + 1)
    <2> DEFINE n == Len(commas) + 1
    <2>1. n \in Nat
      BY <1>3
    <2>2. DOMAIN tags = 1 .. n
      BY <1>6
    <2> HIDE DEF n
    <2>3. \A i \in some : i \in 1 .. n
      BY <2>2
    <2> HIDE DEF some
    <2>4. IsFiniteSet(some)
      BY <2>1, <2>3, SomeNumbers
    <2> QED
      BY <2>1, <2>3, <2>4 DEF n
  <1> HIDE DEF some
  <1>8. /\ Cardinality(some) \in Nat /\ DOMAIN kept = 1 .. Cardinality(some)
        /\ \A k \in 1 .. Cardinality(some) : Clean(tags[kept[k]])
    BY <1>5, <1>7, PlacesFacts
  <1> HIDE DEF kept
  <1>9. InlineTags(v) = [k \in 1 .. Cardinality(some) |-> tags[kept[k]]]
    BY <1>8 DEF InlineTags, kept, some, tags, part, commas, at, inner
  <1>10. \A k \in 1 .. Cardinality(some) : tags[kept[k]] \in Seq(Piece)
    BY <1>8, CleanKept
  <1> QED
    BY <1>8, <1>9, <1>10

\* A line that is kept keeps the list of kept lines readable.
LEMMA ExtraGrows ==
    ASSUME NEW x \in Seq(SourceLine), Extra(x), NEW line \in SourceLine, line.is # "close",
           UnknownField(line) \/ (Len(x) > 0 /\ line.indented /\ line.is # "blank")
    PROVE  /\ Append(x, Preserved(line)) \in Seq(SourceLine)
           /\ Len(Append(x, Preserved(line))) > 0
           /\ Extra(Append(x, Preserved(line)))
  <1> DEFINE p == Preserved(line)
             y == Append(x, p)
  <1>1. /\ p \in SourceLine /\ Preserved(p) = p /\ p.is = line.is /\ p.indented = line.indented
        /\ UnknownField(line) => UnknownField(p)
    BY PreservedFacts
  <1> HIDE DEF p
  <1>2. /\ y \in Seq(SourceLine) /\ Len(y) = Len(x) + 1 /\ y[Len(y)] = p /\ Len(x) \in Nat
        /\ \A e \in 1 .. Len(x) : y[e] = x[e]
    BY <1>1
  <1> HIDE DEF y
  <1>3. ASSUME NEW e \in 1 .. Len(y)
        PROVE  /\ Preserved(y[e]) = y[e] /\ y[e].is # "close"
               /\ UnknownField(y[e]) \/ (e > 1 /\ y[e].indented /\ y[e].is # "blank")
    <2>1. CASE e = Len(y)
      BY <1>1, <1>2, <2>1
    <2>2. CASE e # Len(y)
      <3>1. e \in 1 .. Len(x) /\ y[e] = x[e]
        BY <1>2, <2>2
      <3> QED
        BY <3>1 DEF Extra
    <2> QED
      BY <2>1, <2>2
  <1>4. Extra(y)
    BY <1>3 DEF Extra
  <1> QED
    BY <1>2, <1>4 DEF y, p

\* One `key: value` line.
LEMMA FieldReads ==
    ASSUME NEW acc, Reading(acc), NEW line \in SourceLine, line.is # "close", IsField(line)
    PROVE  /\ Reading(Field(acc, line))
           /\ Field(acc, line).list = "extra" <=> UnknownField(line)
           /\ Field(acc, line).meta.extra = IF UnknownField(line) THEN Append(acc.meta.extra, Preserved(line))
                                            ELSE acc.meta.extra
  <1> DEFINE v == Trimmed(line.value)
             m == acc.meta
             r == Field(acc, line)
             with(n) == [meta |-> n, list |-> "none"]
  <1>1. Fields(m) /\ m \in Meta /\ Extra(m.extra)
    BY DEF Reading, Fields
  <1>2. line.value \in Seq(Piece) /\ v \in Seq(Piece) /\ Clean(Normalised(v)) /\ Normalised(v) \in Seq(Piece)
    <2>1. line.value \in Seq(Piece)
      BY DEF SourceLine
    <2> QED
      BY <2>1, TrimmedFacts, ReadClean, CleanKept
  <1> HIDE DEF m, v
  <1>3. ASSUME NEW n, Fields(n), n.extra = m.extra, r = with(n), line.key \in Keys
        PROVE  Reading(r) /\ r.list # "extra" /\ r.meta.extra = m.extra
    BY <1>1, <1>3 DEF Reading
  <1>4. CASE line.key = "id"
    <2>1. r = with([m EXCEPT !.id = Normalised(v)])
      BY <1>4 DEF Field, m, v
    <2>2. Fields([m EXCEPT !.id = Normalised(v)])
      BY <1>1, <1>2 DEF Fields, Meta
    <2> HIDE DEF r
    <2> QED
      BY <1>1, <1>3, <1>4, <2>1, <2>2 DEF UnknownField, Keys, Meta, m, r
  <1>5. CASE line.key = "parent"
    <2>1. r = with([m EXCEPT !.parent = ParentValue(v)])
      BY <1>5 DEF Field, m, v
    <2>2. Clean(ParentValue(v)) /\ ParentValue(v) # <<"null">> /\ ParentValue(v) \in Seq(Piece)
      BY <1>2, CleanNothing, CleanKept DEF ParentValue
    <2>3. Fields([m EXCEPT !.parent = ParentValue(v)])
      BY <1>1, <2>2 DEF Fields, Meta
    <2> HIDE DEF r
    <2> QED
      BY <1>1, <1>3, <1>5, <2>1, <2>3 DEF UnknownField, Keys, Meta, m, r
  <1>6. CASE line.key = "position"
    <2> DEFINE q == IF v \in Positions THEN v ELSE m.position
    <2>1. r = with([m EXCEPT !.position = q])
      BY <1>6 DEF Field, m, v
    <2>2. q \in Positions
      BY <1>1 DEF Meta
    <2> HIDE DEF q
    <2>3. Fields([m EXCEPT !.position = q])
      BY <1>1, <2>2 DEF Fields, Meta
    <2> HIDE DEF r
    <2> QED
      BY <1>1, <1>3, <1>6, <2>1, <2>3 DEF UnknownField, Keys, Meta, m, r
  <1>7. CASE line.key = "kind"
    <2>1. r = with([m EXCEPT !.kind = Normalised(v)])
      BY <1>7 DEF Field, m, v
    <2>2. Fields([m EXCEPT !.kind = Normalised(v)])
      BY <1>1, <1>2 DEF Fields, Meta
    <2> HIDE DEF r
    <2> QED
      BY <1>1, <1>3, <1>7, <2>1, <2>2 DEF UnknownField, Keys, Meta, m, r
  <1>8. CASE line.key = "archived"
    <2> DEFINE q == IF v = <<"true">> THEN TRUE ELSE IF v = <<"false">> THEN FALSE ELSE m.archived
    <2>1. r = with([m EXCEPT !.archived = q])
      BY <1>8 DEF Field, m, v
    <2>2. q \in BOOLEAN
      BY <1>1 DEF Meta
    <2> HIDE DEF q
    <2>3. Fields([m EXCEPT !.archived = q])
      BY <1>1, <2>2 DEF Fields, Meta
    <2> HIDE DEF r
    <2> QED
      BY <1>1, <1>3, <1>8, <2>1, <2>3 DEF UnknownField, Keys, Meta, m, r
  <1>9. CASE line.key = "tags"
    <2>1. CASE Bracketed(v)
      <3>1. r = with([m EXCEPT !.tags = InlineTags(v)])
        BY <1>9, <2>1 DEF Field, m, v
      <3>2. Fields([m EXCEPT !.tags = InlineTags(v)])
        BY <1>1, <1>2, InlineTagsClean DEF Fields, Meta
      <3> HIDE DEF r
      <3> QED
        BY <1>1, <1>3, <1>9, <3>1, <3>2 DEF UnknownField, Keys, Meta, m, r
    <2>2. CASE ~Bracketed(v)
      <3>1. r = [meta |-> [m EXCEPT !.tags = <<>>], list |-> "tags"]
        BY <1>9, <2>2 DEF Field, m, v
      <3>2. Fields([m EXCEPT !.tags = <<>>])
        <4> DEFINE q == <<>>
        <4>1. q \in Seq(Seq(Piece)) /\ \A t \in 1 .. Len(q) : Clean(q[t])
          OBVIOUS
        <4> HIDE DEF q
        <4>2. Fields([m EXCEPT !.tags = q])
          BY <1>1, <4>1 DEF Fields, Meta
        <4> QED
          BY <4>2 DEF q
      <3> HIDE DEF r
      <3> QED
        BY <1>1, <1>9, <3>1, <3>2 DEF UnknownField, Keys, Meta, Reading, m, r
    <2> QED
      BY <2>1, <2>2
  <1>10. CASE line.key = "u-->"
    <2>1. r = with(m)
      BY <1>10 DEF Field, m
    <2> HIDE DEF r
    <2> QED
      BY <1>1, <1>3, <1>10, <2>1 DEF UnknownField, Keys, m, r
  <1>11. CASE line.key \notin Keys
    <2> DEFINE x == Append(m.extra, Preserved(line))
    <2>1. r = [meta |-> [m EXCEPT !.extra = x], list |-> "extra"]
      BY <1>11 DEF Field, Keys, m
    <2>2. UnknownField(line)
      BY <1>11 DEF UnknownField
    <2>3. m.extra \in Seq(SourceLine)
      BY <1>1 DEF Meta
    <2>4. x \in Seq(SourceLine) /\ Len(x) > 0 /\ Extra(x)
      BY <1>1, <2>2, <2>3, ExtraGrows
    <2> HIDE DEF x
    <2>5. Fields([m EXCEPT !.extra = x]) /\ [m EXCEPT !.extra = x].extra = x
      BY <1>1, <2>4 DEF Fields, Meta
    <2> HIDE DEF r
    <2>6. Reading(r) /\ r.list = "extra" /\ r.meta.extra = x
      BY <2>1, <2>4, <2>5 DEF Reading
    <2> QED
      BY <2>2, <2>6 DEF r, x, m
  <1> QED
    BY <1>4, <1>5, <1>6, <1>7, <1>8, <1>9, <1>10, <1>11 DEF Keys

\* One line of a block.
LEMMA BlockLineReads ==
    ASSUME NEW acc, Reading(acc), NEW line \in SourceLine, line.is # "close"
    PROVE  /\ Reading(BlockLine(acc, line))
           /\ BlockLine(acc, line).list = "extra" <=> Kept(acc.list, line)
           /\ BlockLine(acc, line).meta.extra =
                 IF Kept(acc.list, line) THEN Append(acc.meta.extra, Preserved(line)) ELSE acc.meta.extra
  <1> DEFINE m == acc.meta
             r == BlockLine(acc, line)
  <1>1. Fields(m) /\ m \in Meta /\ Extra(m.extra) /\ acc = [meta |-> m, list |-> acc.list]
    BY DEF Reading, Fields
  <1> HIDE DEF m
  <1>2. CASE Continues(acc.list, line) /\ acc.list = "tags"
    <2> DEFINE t == Normalised(Trimmed(line.value))
               ts == Append(m.tags, t)
    <2>1. r = [acc EXCEPT !.meta.tags = ts]
      BY <1>2 DEF BlockLine, m
    <2>2. Clean(t) /\ t \in Seq(Piece)
      <3>1. line.value \in Seq(Piece)
        BY DEF SourceLine
      <3> QED
        BY <3>1, ReadClean, CleanKept
    <2> HIDE DEF t
    <2>3. m.tags \in Seq(Seq(Piece)) /\ \A i \in 1 .. Len(m.tags) : Clean(m.tags[i])
      BY <1>1 DEF Fields, Meta
    <2>4. ts \in Seq(Seq(Piece)) /\ \A i \in 1 .. Len(ts) : Clean(ts[i])
      BY <2>2, <2>3
    <2> HIDE DEF ts
    <2>5. r = [meta |-> [m EXCEPT !.tags = ts], list |-> "tags"]
      BY <1>1, <1>2, <2>1
    <2> HIDE DEF r
    <2>6. Fields([m EXCEPT !.tags = ts]) /\ [m EXCEPT !.tags = ts].extra = m.extra
      BY <1>1, <2>4 DEF Fields, Meta
    <2>7. Reading(r) /\ r.list # "extra" /\ r.meta.extra = m.extra
      BY <1>1, <2>5, <2>6 DEF Reading
    <2>8. ~Kept(acc.list, line)
      BY <1>2 DEF Kept, UnknownField, IsField, Continues
    <2> QED
      BY <2>7, <2>8 DEF r, m
  <1>3. CASE Continues(acc.list, line) /\ acc.list # "tags"
    <2> DEFINE x == Append(m.extra, Preserved(line))
    <2>1. acc.list = "extra" /\ line.indented /\ line.is # "blank" /\ Kept(acc.list, line)
      BY <1>3 DEF Continues, Kept
    <2>2. r = [acc EXCEPT !.meta.extra = x]
      BY <1>3 DEF BlockLine, m
    <2>3. m.extra \in Seq(SourceLine) /\ Len(m.extra) > 0
      BY <1>1, <2>1 DEF Reading, Meta, m
    <2>4. x \in Seq(SourceLine) /\ Len(x) > 0 /\ Extra(x)
      BY <1>1, <2>1, <2>3, ExtraGrows
    <2> HIDE DEF x
    <2>5. r = [meta |-> [m EXCEPT !.extra = x], list |-> "extra"]
      BY <1>1, <2>1, <2>2
    <2> HIDE DEF r
    <2>6. Fields([m EXCEPT !.extra = x]) /\ [m EXCEPT !.extra = x].extra = x
      BY <1>1, <2>4 DEF Fields, Meta
    <2>7. Reading(r) /\ r.list = "extra" /\ r.meta.extra = x
      BY <2>4, <2>5, <2>6 DEF Reading
    <2> QED
      BY <2>1, <2>7 DEF r, m, x
  <1>4. CASE ~Continues(acc.list, line) /\ IsField(line)
    <2>1. r = Field(acc, line)
      BY <1>4 DEF BlockLine
    <2>2. Kept(acc.list, line) <=> UnknownField(line)
      BY <1>4 DEF Kept, Continues
    <2> HIDE DEF r
    <2>3. /\ Reading(r) /\ (r.list = "extra" <=> UnknownField(line))
          /\ r.meta.extra = IF UnknownField(line) THEN Append(acc.meta.extra, Preserved(line))
                            ELSE acc.meta.extra
      BY <1>4, <2>1, FieldReads
    <2> QED
      BY <2>2, <2>3 DEF r
  <1>5. CASE ~Continues(acc.list, line) /\ ~IsField(line)
    <2>1. r = [acc EXCEPT !.list = "none"]
      BY <1>5 DEF BlockLine
    <2>2. ~Kept(acc.list, line)
      BY <1>5 DEF Kept, Continues, UnknownField
    <2>3. r = [meta |-> m, list |-> "none"]
      BY <1>1, <2>1
    <2> HIDE DEF r
    <2>4. Reading(r) /\ r.list # "extra" /\ r.meta.extra = m.extra
      BY <1>1, <2>3 DEF Reading
    <2> QED
      BY <2>2, <2>4 DEF r, m
  <1> QED
    BY <1>2, <1>3, <1>4, <1>5

-----------------------------------------------------------------------------
(* A block, line by line *)

Start == [meta |-> Fresh, list |-> "none"]
Folds(b, n, f) == f = [k \in 0 .. n |-> IF k = 0 THEN Start ELSE BlockLine(f[k - 1], b[k])]

\* There is a function that holds what the lines up to each have been read to,
LEMMA FoldExists ==
    ASSUME NEW b, NEW n \in Nat
    PROVE  \E f : Folds(b, n, f)
  <1> DEFINE Bad == {m \in Nat : ~\E f : Folds(b, m, f)}
  <1>1. ASSUME Bad # {} PROVE FALSE
    <2>1. PICK m \in Bad : \A y \in Bad : m <= y
      BY <1>1, LeastNumber
    <2>2. m # 0
      <3> DEFINE g == [k \in 0 .. 0 |-> Start]
      <3>1. Folds(b, 0, g)
        BY DEF Folds
      <3> QED
        BY <3>1
    <2>3. m - 1 \in Nat /\ m - 1 \notin Bad
      BY <2>1, <2>2
    <2>4. PICK f : Folds(b, m - 1, f)
      BY <2>3
    <2> DEFINE g == [k \in 0 .. m |-> IF k = 0 THEN Start ELSE BlockLine(f[k - 1], b[k])]
    <2>5. \A k \in 0 .. m - 1 : g[k] = f[k]
      BY <2>3, <2>4 DEF Folds
    <2>6. \A k \in 0 .. m : g[k] = IF k = 0 THEN Start ELSE BlockLine(g[k - 1], b[k])
      <3> SUFFICES ASSUME NEW k \in 0 .. m, k # 0 PROVE g[k] = BlockLine(g[k - 1], b[k])
        OBVIOUS
      <3>1. k - 1 \in 0 .. m - 1
        BY <2>1
      <3> QED
        BY <3>1, <2>5
    <2>7. Folds(b, m, g)
      <3> HIDE DEF g
      <3>1. g = [k \in 0 .. m |-> g[k]]
        BY DEF g
      <3> QED
        BY <2>6, <3>1 DEF Folds
    <2> QED
      BY <2>7
  <1> QED
    BY <1>1

\* and its last value is what the block is read to.
LEMMA ParseBlockFold ==
    ASSUME NEW b \in Seq(SourceLine)
    PROVE  \E f : Folds(b, Len(b), f) /\ ParseBlock(b) = f[Len(b)].meta
  <1> DEFINE f == CHOOSE g : Folds(b, Len(b), g)
  <1>1. Folds(b, Len(b), f)
    BY FoldExists
  <1>2. ParseBlock(b) = f[Len(b)].meta
    BY DEF ParseBlock, Folds, Start
  <1> QED
    BY <1>1, <1>2

UnknownUpto(b, n) == {k \in 1 .. n : Unknown(b, k)}

\* A line is unknown for its own key, or goes with an unknown line above it.
LEMMA UnknownStep ==
    ASSUME NEW b, NEW k \in Nat
    PROVE  Unknown(b, k + 1) <=>
               \/ UnknownField(b[k + 1])
               \/ k > 0 /\ Unknown(b, k) /\ b[k + 1].indented /\ b[k + 1].is # "blank"
  <1>1. ASSUME Unknown(b, k + 1), ~UnknownField(b[k + 1])
        PROVE  k > 0 /\ Unknown(b, k) /\ b[k + 1].indented /\ b[k + 1].is # "blank"
    <2>1. PICK j \in 1 .. (k + 1) :
             /\ IsField(b[j]) /\ b[j].key \notin Keys
             /\ \A i \in (j + 1) .. (k + 1) : b[i].indented /\ b[i].is # "blank"
      BY <1>1 DEF Unknown
    <2>2. j # k + 1
      BY <1>1, <2>1 DEF UnknownField
    <2>3. j \in 1 .. k /\ k + 1 \in (j + 1) .. (k + 1) /\ (j + 1) .. k \subseteq (j + 1) .. (k + 1)
      BY <2>2
    <2> QED
      BY <2>1, <2>3 DEF Unknown
  <1>2. ASSUME UnknownField(b[k + 1]) PROVE Unknown(b, k + 1)
    <2>1. k + 1 \in 1 .. (k + 1) /\ (k + 1 + 1) .. (k + 1) = {}
      OBVIOUS
    <2> QED
      BY <1>2, <2>1 DEF Unknown, UnknownField
  <1>3. ASSUME k > 0, Unknown(b, k), b[k + 1].indented, b[k + 1].is # "blank" PROVE Unknown(b, k + 1)
    <2>1. PICK j \in 1 .. k :
             /\ IsField(b[j]) /\ b[j].key \notin Keys
             /\ \A i \in (j + 1) .. k : b[i].indented /\ b[i].is # "blank"
      BY <1>3 DEF Unknown
    <2>2. \A i \in (j + 1) .. (k + 1) : i = k + 1 \/ i \in (j + 1) .. k
      OBVIOUS
    <2>3. j \in 1 .. (k + 1)
      OBVIOUS
    <2> QED
      BY <1>3, <2>1, <2>2, <2>3 DEF Unknown
  <1> QED
    BY <1>1, <1>2, <1>3

\* What the lines up to n have been read to.
ReadUpto(b, n, acc) ==
    /\ Reading(acc)
    /\ acc.list = "extra" <=> n > 0 /\ Unknown(b, n)
    /\ IsFiniteSet(UnknownUpto(b, n))
    /\ Len(acc.meta.extra) = Cardinality(UnknownUpto(b, n))
    /\ \A i \in 1 .. Cardinality(UnknownUpto(b, n)) :
          acc.meta.extra[i] = Preserved(b[Places(UnknownUpto(b, n))[i]])

\* Before the first line nothing has been read.
LEMMA ReadNone ==
    ASSUME NEW b PROVE ReadUpto(b, 0, Start)
  <1>1. UnknownUpto(b, 0) = {}
    BY DEF UnknownUpto
  <1>2. IsFiniteSet({}) /\ Cardinality({}) = 0
    BY FS_EmptySet
  <1>3. Start.list = "none" /\ Start.meta.extra = <<>>
    BY DEF Start, Fresh
  <1>4. Reading(Start)
    BY FreshReads DEF Start
  <1>5. Len(Start.meta.extra) = 0
    BY <1>3
  <1> HIDE DEF Start
  <1>6. IsFiniteSet(UnknownUpto(b, 0)) /\ Cardinality(UnknownUpto(b, 0)) = 0
    BY <1>1, <1>2
  <1>7. ~(0 > 0) /\ 1 .. 0 = {}
    OBVIOUS
  <1> QED
    BY <1>3, <1>4, <1>5, <1>6, <1>7 DEF ReadUpto

\* One more line of a block, whatever it is.
LEMMA ReadOneMore ==
    ASSUME NEW b \in Seq(SourceLine), NEW n \in Nat, n + 1 <= Len(b), b[n + 1].is # "close",
           NEW acc, ReadUpto(b, n, acc)
    PROVE  ReadUpto(b, n + 1, BlockLine(acc, b[n + 1]))
  <1> DEFINE line == b[n + 1]
             r == BlockLine(acc, line)
             S == UnknownUpto(b, n)
             x == acc.meta.extra
             N == Cardinality(S)
  <1>1. line \in SourceLine
    OBVIOUS
  <1>2. Kept(acc.list, line) <=> Unknown(b, n + 1)
    BY UnknownStep DEF ReadUpto, Kept
  <1>3. Reading(acc) /\ IsFiniteSet(S) /\ Len(x) = N /\ \A i \in 1 .. N : x[i] = Preserved(b[Places(S)[i]])
    BY DEF ReadUpto
  <1>4. x \in Seq(SourceLine)
    BY <1>3 DEF Reading, Fields, Meta
  <1> HIDE DEF line, r
  <1>5. /\ Reading(r) /\ (r.list = "extra" <=> Kept(acc.list, line))
        /\ r.meta.extra = IF Kept(acc.list, line) THEN Append(x, Preserved(line)) ELSE x
    <2>1. line.is # "close"
      BY DEF line
    <2> QED
      BY <1>1, <1>3, <2>1, BlockLineReads DEF r
  <1>6. CASE Unknown(b, n + 1)
    <2> DEFINE y == Append(x, Preserved(line))
               T == S \cup {n + 1}
    <2>1. UnknownUpto(b, n + 1) = T
      BY <1>6 DEF UnknownUpto
    <2>2. n + 1 \in Nat /\ \A i \in S : i \in Nat /\ i < n + 1
      BY DEF UnknownUpto
    <2> HIDE DEF S
    <2>3. /\ IsFiniteSet(T) /\ N \in Nat /\ Cardinality(T) = N + 1
          /\ \A k \in 1 .. N : Places(T)[k] = Places(S)[k]
          /\ Places(T)[N + 1] = n + 1
      BY <1>3, <2>2, PlacesGrow
    <2> HIDE DEF T, N
    <2>4. /\ Len(y) = N + 1 /\ y[N + 1] = Preserved(line) /\ \A i \in 1 .. N : y[i] = x[i]
      <3>1. Preserved(line) \in SourceLine
        BY <1>1, PreservedFacts
      <3> HIDE DEF x
      <3> QED
        BY <1>3, <1>4, <2>3, <3>1
    <2> HIDE DEF y, x
    <2>5. ASSUME NEW i \in 1 .. (N + 1) PROVE y[i] = Preserved(b[Places(T)[i]])
      <3>1. CASE i = N + 1
        BY <2>3, <2>4, <3>1 DEF line
      <3>2. CASE i # N + 1
        <4>1. i \in 1 .. N
          BY <2>3, <3>2
        <4> QED
          BY <1>3, <2>3, <2>4, <4>1
      <3> QED
        BY <3>1, <3>2
    <2>6. r.meta.extra = y
      BY <1>2, <1>5, <1>6 DEF y
    <2>7. n + 1 > 0
      OBVIOUS
    <2>8. ReadUpto(b, n + 1, r)
      BY <1>2, <1>5, <1>6, <2>1, <2>3, <2>4, <2>5, <2>6, <2>7 DEF ReadUpto
    <2> QED
      BY <2>8 DEF r, line
  <1>7. CASE ~Unknown(b, n + 1)
    <2>1. UnknownUpto(b, n + 1) = S
      BY <1>7 DEF UnknownUpto
    <2>2. r.meta.extra = x
      BY <1>2, <1>5, <1>7
    <2> HIDE DEF S, x
    <2> QED
      BY <1>2, <1>3, <1>5, <1>7, <2>1, <2>2 DEF ReadUpto, r, line
  <1> QED
    BY <1>6, <1>7

UnknownOf(b) ==
    LET ks == Places({k \in DOMAIN b : Unknown(b, k)})
    IN  [i \in DOMAIN ks |-> Preserved(b[ks[i]])]

\* The block of a file is read to fields that can be written, and to its unknown lines.
LEMMA BlockReads ==
    ASSUME NEW b \in Seq(SourceLine), \A k \in 1 .. Len(b) : b[k].is # "close"
    PROVE  /\ Fields(ParseBlock(b)) /\ Extra(ParseBlock(b).extra)
           /\ ParseBlock(b).extra = UnknownOf(b)
  <1>1. PICK f : Folds(b, Len(b), f) /\ ParseBlock(b) = f[Len(b)].meta
    BY ParseBlockFold
  <1> DEFINE Bad == {n \in 0 .. Len(b) : ~ReadUpto(b, n, f[n])}
  <1>2. ASSUME Bad # {} PROVE FALSE
    <2>1. PICK n \in Bad : \A y \in Bad : n <= y
      <3>1. \A n \in Bad : n \in Nat
        OBVIOUS
      <3> QED
        BY <1>2, <3>1, LeastNumber
    <2>2. n # 0
      BY <1>1, <2>1, ReadNone DEF Folds
    <2>3. n - 1 \in Nat /\ n - 1 \in 0 .. Len(b) /\ n - 1 \notin Bad /\ n \in 1 .. Len(b) /\ n = (n - 1) + 1
      BY <2>1, <2>2
    <2>4. ReadUpto(b, n - 1, f[n - 1])
      BY <2>3
    <2>5. f[n] = BlockLine(f[n - 1], b[n])
      BY <1>1, <2>3 DEF Folds
    <2>6. ReadUpto(b, n, BlockLine(f[n - 1], b[n]))
      BY <2>3, <2>4, ReadOneMore
    <2> QED
      BY <2>1, <2>5, <2>6
  <1>3. Len(b) \in Nat /\ DOMAIN b = 1 .. Len(b)
    OBVIOUS
  <1>4. ReadUpto(b, Len(b), f[Len(b)])
    BY <1>2, <1>3
  <1> DEFINE S == UnknownUpto(b, Len(b))
             x == ParseBlock(b).extra
  <1>5. /\ Fields(ParseBlock(b)) /\ Extra(x) /\ IsFiniteSet(S) /\ Len(x) = Cardinality(S)
        /\ \A i \in 1 .. Cardinality(S) : x[i] = Preserved(b[Places(S)[i]])
    BY <1>1, <1>4 DEF ReadUpto, Reading
  <1>6. x \in Seq(SourceLine)
    BY <1>5 DEF Fields, Meta
  <1>7. S = {k \in DOMAIN b : Unknown(b, k)}
    BY <1>3 DEF UnknownUpto
  <1>8. DOMAIN Places(S) = 1 .. Cardinality(S)
    BY DEF Places
  <1> HIDE DEF S, x
  <1>9. x = [i \in 1 .. Cardinality(S) |-> x[i]]
    BY <1>5, <1>6
  <1>10. UnknownOf(b) = [i \in 1 .. Cardinality(S) |-> Preserved(b[Places(S)[i]])]
    BY <1>7, <1>8 DEF UnknownOf
  <1> QED
    BY <1>5, <1>9, <1>10 DEF x

-----------------------------------------------------------------------------
(* Where the block of a file is *)

\* The opening marker is a line of the file, and the first one if that opens a block.
LEMMA OpeningFacts ==
    ASSUME NEW F \in Seq(SourceLine)
    PROVE  /\ Opening(F) \in 0 .. Len(F)
           /\ Len(F) > 0 /\ F[1].is = "open" => Opening(F) = 1
  <1> DEFINE I == {i \in 1 .. Len(F) : F[i].is # "blank"}
             k == SelectInSeq(F, LAMBDA l : l.is # "blank")
  <1>1. k = IF I # {} THEN Min(I) ELSE 0
    BY DEF SelectInSeq
  <1>2. Opening(F) = IF k > 0 /\ F[k].is = "open" THEN k ELSE 0
    BY DEF Opening
  <1>3. Min(I) = CHOOSE x \in I : \A y \in I : x <= y
    BY DEF Min
  <1> HIDE DEF k
  <1>4. ASSUME I # {} PROVE Min(I) \in I /\ \A y \in I : Min(I) <= y
    <2>1. \E x \in I : \A y \in I : x <= y
      <3>1. \A x \in I : x \in Nat
        OBVIOUS
      <3> QED
        BY <1>4, <3>1, LeastNumber
    <2> HIDE DEF I
    <2> QED
      BY <1>3, <2>1
  <1>5. Opening(F) \in 0 .. Len(F)
    <2>1. k \in 0 .. Len(F)
      BY <1>1, <1>4
    <2> QED
      BY <1>2, <2>1
  <1>6. ASSUME Len(F) > 0, F[1].is = "open" PROVE Opening(F) = 1
    <2>1. 1 \in I
      BY <1>6
    <2>2. Min(I) = 1
      <3>1. Min(I) \in 1 .. Len(F) /\ Min(I) <= 1
        BY <1>4, <2>1
      <3> QED
        BY <3>1
    <2>3. k = 1
      BY <1>1, <2>1, <2>2
    <2> QED
      BY <1>2, <1>6, <2>3
  <1> QED
    BY <1>5, <1>6

\* The closing marker is the first one below the opening marker.
LEMMA ClosingFacts ==
    ASSUME NEW F \in Seq(SourceLine)
    PROVE  /\ \/ Closing(F) = 0
              \/ /\ Opening(F) > 0 /\ Closing(F) \in (Opening(F) + 1) .. Len(F)
                 /\ \A k \in (Opening(F) + 1) .. (Closing(F) - 1) : F[k].is # "close"
           /\ \A c \in (Opening(F) + 1) .. Len(F) :
                 /\ Opening(F) > 0 /\ F[c].is = "close"
                 /\ \A k \in (Opening(F) + 1) .. (c - 1) : F[k].is # "close"
                 => Closing(F) = c
  <1> DEFINE o == Opening(F)
             I == {i \in (o + 1) .. Len(F) : F[i].is = "close"}
  <1>1. o \in 0 .. Len(F) /\ Len(F) \in Nat
    BY OpeningFacts
  <1>2. Closing(F) = IF o = 0 THEN 0 ELSE IF I # {} THEN Min(I) ELSE 0
    BY DEF Closing, SelectInSubSeq
  <1>3. Min(I) = CHOOSE x \in I : \A y \in I : x <= y
    BY DEF Min
  <1> HIDE DEF o
  <1>4. ASSUME I # {} PROVE Min(I) \in I /\ \A y \in I : Min(I) <= y
    <2>1. \E x \in I : \A y \in I : x <= y
      <3>1. \A x \in I : x \in Nat
        BY <1>1
      <3> QED
        BY <1>4, <3>1, LeastNumber
    <2> HIDE DEF I
    <2> QED
      BY <1>3, <2>1
  <1>5. ASSUME o # 0, I # {}
        PROVE  /\ o > 0 /\ Min(I) \in (o + 1) .. Len(F)
               /\ \A k \in (o + 1) .. (Min(I) - 1) : F[k].is # "close"
    <2>1. Min(I) \in (o + 1) .. Len(F)
      BY <1>4, <1>5
    <2>2. ASSUME NEW k \in (o + 1) .. (Min(I) - 1), F[k].is = "close" PROVE FALSE
      <3>1. k \in I /\ k < Min(I)
        BY <1>1, <2>1, <2>2
      <3>2. Min(I) <= k
        BY <1>4, <1>5, <3>1
      <3> QED
        BY <1>1, <2>1, <3>1, <3>2
    <2> QED
      BY <1>1, <1>5, <2>1, <2>2
  <1>6. ASSUME NEW c \in (o + 1) .. Len(F), o > 0, F[c].is = "close",
               \A k \in (o + 1) .. (c - 1) : F[k].is # "close"
        PROVE  Closing(F) = c
    <2>1. c \in I /\ Min(I) \in I /\ Min(I) <= c
      <3>1. c \in I
        BY <1>6
      <3> QED
        BY <1>4, <3>1
    <2>2. Min(I) \in (o + 1) .. Len(F) /\ F[Min(I)].is = "close"
      BY <2>1
    <2>3. Min(I) \notin (o + 1) .. (c - 1)
      BY <1>6, <2>2
    <2>4. Min(I) = c
      BY <1>1, <2>1, <2>2, <2>3
    <2> QED
      BY <1>2, <1>6, <2>1, <2>4
  <1> QED
    BY <1>2, <1>5, <1>6 DEF o

\* The block and the body of a file that has a block.
LEMMA PartsOfFile ==
    ASSUME NEW F \in Seq(SourceLine), Closing(F) > 0
    PROVE  /\ BlockOf(F) \in Seq(SourceLine)
           /\ \A k \in 1 .. Len(BlockOf(F)) : BlockOf(F)[k].is # "close"
           /\ BodyOf(F) \in Seq(SourceLine)
  <1> DEFINE o == Opening(F)
             c == Closing(F)
             after == SubSeq(F, c + 1, Len(F))
  <1>1. /\ o \in 1 .. Len(F) /\ c \in (o + 1) .. Len(F) /\ Len(F) \in Nat
        /\ \A k \in (o + 1) .. (c - 1) : F[k].is # "close"
    BY OpeningFacts, ClosingFacts
  <1>2. BlockOf(F) = SubSeq(F, o + 1, c - 1)
    BY DEF BlockOf
  <1>3. BodyOf(F) = IF after # <<>> /\ after[1].is = "blank" THEN Tail(after) ELSE after
    BY DEF BodyOf
  <1> HIDE DEF o, c
  <1>4. BlockOf(F) \in Seq(SourceLine) /\ Len(BlockOf(F)) = c - 1 - o
    BY <1>1, <1>2
  <1>5. \A k \in 1 .. Len(BlockOf(F)) : BlockOf(F)[k] = F[o + k] /\ o + k \in (o + 1) .. (c - 1)
    BY <1>1, <1>2, <1>4
  <1>6. after \in Seq(SourceLine)
    BY <1>1
  <1> HIDE DEF after
  <1>7. BodyOf(F) \in Seq(SourceLine)
    BY <1>3, <1>6
  <1> QED
    BY <1>1, <1>4, <1>5, <1>7

-----------------------------------------------------------------------------
(* What a save writes *)

\* r is p, of m lines, followed by q, of n lines.
Joined(r, p, q, m, n) ==
    /\ r \in Seq(SourceLine) /\ Len(r) = m + n
    /\ \A k \in 1 .. m : r[k] = p[k]
    /\ \A k \in 1 .. n : r[m + k] = q[k]

\* The lines of two sequences, one after the other.
LEMMA Concat ==
    ASSUME NEW p \in Seq(SourceLine), NEW q \in Seq(SourceLine)
    PROVE  Joined(p \o q, p, q, Len(p), Len(q))
  <1>1. p \o q \in Seq(SourceLine)
    OBVIOUS
  <1>2. Len(p \o q) = Len(p) + Len(q)
    OBVIOUS
  <1>3. \A k \in 1 .. Len(p) : (p \o q)[k] = p[k]
    OBVIOUS
  <1>4. \A k \in 1 .. Len(q) : (p \o q)[Len(p) + k] = q[k]
    OBVIOUS
  <1> QED
    BY <1>1, <1>2, <1>3, <1>4 DEF Joined

\* A sequence of one line,
LEMMA Single ==
    ASSUME NEW x \in SourceLine
    PROVE  <<x>> \in Seq(SourceLine) /\ Len(<<x>>) = 1 /\ <<x>>[1] = x
  OBVIOUS

\* and one of five.
LEMMA Five ==
    ASSUME NEW s, NEW a \in SourceLine, NEW b \in SourceLine, NEW c \in SourceLine, NEW d \in SourceLine,
           NEW e \in SourceLine, s = <<a, b, c, d, e>>
    PROVE  s \in Seq(SourceLine) /\ Len(s) = 5 /\ s[1] = a /\ s[2] = b /\ s[3] = c /\ s[4] = d /\ s[5] = e
  OBVIOUS

ParentText(v) == IF v = <<>> THEN <<"null">> ELSE v
ArchivedText(g) == <<IF g THEN "true" ELSE "false">>
TagsText(n) == IF n = 0 THEN <<"[", "]">> ELSE <<>>

FieldLine(key, v) == Line("field", key, v, FALSE)
TagLine(v) == Line("item", "", v, TRUE)

\* The lines of a block that a save writes.
LEMMA MetadataLines ==
    ASSUME NEW m, Fields(m), Extra(m.extra)
    PROVE  LET L == SerializeMetadata(m)
               nt == Len(m.tags)
               ne == Len(m.extra)
           IN  /\ nt \in Nat /\ ne \in Nat
               /\ L \in Seq(SourceLine) /\ Len(L) = 8 + nt + ne
               /\ L[1] = Line("open", "", <<>>, FALSE)
               /\ L[2] = FieldLine("id", m.id)
               /\ L[3] = FieldLine("parent", ParentText(m.parent))
               /\ L[4] = FieldLine("position", m.position)
               /\ L[5] = FieldLine("kind", m.kind)
               /\ L[6] = FieldLine("tags", TagsText(nt))
               /\ \A t \in 1 .. nt : L[6 + t] = TagLine(m.tags[t])
               /\ L[7 + nt] = FieldLine("archived", ArchivedText(m.archived))
               /\ \A e \in 1 .. ne : L[7 + nt + e] = m.extra[e]
               /\ L[8 + nt + ne] = Line("close", "", <<>>, FALSE)
  <1> DEFINE L == SerializeMetadata(m)
             nt == Len(m.tags)
             ne == Len(m.extra)
             pv == IF m.parent = <<>> THEN <<"null">> ELSE m.parent
             av == <<IF m.archived THEN "true" ELSE "false">>
             tv == IF nt = 0 THEN <<"[", "]">> ELSE <<>>
             head == <<Line("open", "", <<>>, FALSE), Line("field", "id", m.id, FALSE),
                       Line("field", "parent", pv, FALSE), Line("field", "position", m.position, FALSE),
                       Line("field", "kind", m.kind, FALSE)>>
             items == [t \in 1 .. nt |-> Line("item", "", m.tags[t], TRUE)]
             tags == <<Line("field", "tags", tv, FALSE)>> \o items
             arch == <<Line("field", "archived", av, FALSE)>>
             extra == m.extra
             close == <<Line("close", "", <<>>, FALSE)>>
  <1>1. /\ m \in Meta /\ m.id \in Seq(Piece) /\ m.parent \in Seq(Piece) /\ m.kind \in Seq(Piece)
        /\ m.position \in Seq(Piece) /\ m.tags \in Seq(Seq(Piece)) /\ m.extra \in Seq(SourceLine)
        /\ m.archived \in BOOLEAN
    <2>1. <<"0">> \in Seq(Piece) /\ <<"7">> \in Seq(Piece)
      BY CleanWords, CleanKept
    <2> QED
      BY <2>1 DEF Fields, Meta, Positions
  <1>2. nt \in Nat /\ ne \in Nat /\ DOMAIN m.tags = 1 .. nt /\ DOMAIN m.extra = 1 .. ne
    BY <1>1
  <1>3. Sanitised(m.id) = m.id /\ Sanitised(m.kind) = m.kind /\ Sanitised(m.parent) = m.parent
    BY CleanKept DEF Fields
  <1>4. \A t \in 1 .. nt : Sanitised(m.tags[t]) = m.tags[t] /\ m.tags[t] \in Seq(Piece)
    BY CleanKept DEF Fields
  <1>5. \A is \in {"open", "close", "blank", "item", "field", "text"}, i \in BOOLEAN, v \in Seq(Piece),
          key \in {"", "id", "parent", "position", "kind", "archived", "tags"} :
          Line(is, key, v, i) \in SourceLine
    BY SourceAssumption DEF Line, SourceLine, Keys
  <1>6. /\ <<>> \in Seq(Piece) /\ pv \in Seq(Piece) /\ av \in Seq(Piece) /\ tv \in Seq(Piece)
    <2>1. "null" \in Piece /\ "true" \in Piece /\ "false" \in Piece /\ "[" \in Piece /\ "]" \in Piece
      BY Pieces
    <2>2. <<"null">> \in Seq(Piece) /\ <<"true">> \in Seq(Piece) /\ <<"false">> \in Seq(Piece)
          /\ <<"[", "]">> \in Seq(Piece) /\ <<>> \in Seq(Piece)
      BY <2>1
    <2> QED
      BY <1>1, <2>2
  <1>7. items \in Seq(SourceLine) /\ Len(items) = nt /\ \A t \in 1 .. nt : items[t] = Line("item", "", m.tags[t], TRUE)
    <2>1. \A t \in 1 .. nt : Line("item", "", m.tags[t], TRUE) \in SourceLine
      BY <1>4, <1>5
    <2> DEFINE c(t) == Line("item", "", m.tags[t], TRUE)
    <2>2. \A t \in 1 .. nt : c(t) \in SourceLine
      BY <2>1
    <2>3. items = [t \in 1 .. nt |-> c(t)]
      OBVIOUS
    <2> HIDE DEF c, items
    <2>4. items \in Seq(SourceLine) /\ Len(items) = nt /\ \A t \in 1 .. nt : items[t] = c(t)
      BY <1>2, <2>2, <2>3
    <2> QED
      BY <2>4 DEF c
  <1>8. L = head \o tags \o arch \o extra \o close
    <2>1. [e \in DOMAIN m.extra |-> Preserved(m.extra[e])] = m.extra
      <3>1. \A e \in 1 .. ne : Preserved(m.extra[e]) = m.extra[e]
        BY DEF Extra
      <3>2. [e \in DOMAIN m.extra |-> Preserved(m.extra[e])] = [e \in 1 .. ne |-> m.extra[e]]
        BY <1>2, <3>1
      <3>3. m.extra = [e \in 1 .. ne |-> m.extra[e]]
        BY <1>1
      <3> QED
        BY <3>2, <3>3
    <2>2. (IF m.tags = <<>> THEN <<Line("field", "tags", <<"[", "]">>, FALSE)>>
           ELSE <<Line("field", "tags", <<>>, FALSE)>>
                \o [t \in DOMAIN m.tags |-> Line("item", "", Sanitised(m.tags[t]), TRUE)]) = tags
      <3>1. CASE m.tags = <<>>
        <4>1. nt = 0 /\ tv = <<"[", "]">>
          BY <3>1
        <4>2. items = <<>>
          BY <1>7, <4>1
        <4>3. Line("field", "tags", <<"[", "]">>, FALSE) \in SourceLine
          BY <1>5, <1>6, <4>1
        <4>4. <<Line("field", "tags", <<"[", "]">>, FALSE)>> \o <<>> = <<Line("field", "tags", <<"[", "]">>, FALSE)>>
          BY <4>3
        <4> QED
          BY <3>1, <4>1, <4>2, <4>4
      <3>2. CASE m.tags # <<>>
        <4>1. nt # 0
          BY <1>1, <3>2
        <4>2. [t \in DOMAIN m.tags |-> Line("item", "", Sanitised(m.tags[t]), TRUE)] = items
          BY <1>2, <1>4
        <4> QED
          BY <3>2, <4>1, <4>2
      <3> QED
        BY <3>1, <3>2
    <2>3. head = <<Line("open", "", <<>>, FALSE),
                   Line("field", "id", Sanitised(m.id), FALSE),
                   Line("field", "parent", IF m.parent = <<>> THEN <<"null">> ELSE Sanitised(m.parent), FALSE),
                   Line("field", "position", m.position, FALSE),
                   Line("field", "kind", Sanitised(m.kind), FALSE)>>
      BY <1>3
    <2> HIDE DEF head, tags, items
    <2> QED
      BY <2>1, <2>2, <2>3 DEF SerializeMetadata
  <1>9. /\ head \in Seq(SourceLine) /\ Len(head) = 5
        /\ head[1] = Line("open", "", <<>>, FALSE) /\ head[2] = Line("field", "id", m.id, FALSE)
        /\ head[3] = Line("field", "parent", pv, FALSE)
        /\ head[4] = Line("field", "position", m.position, FALSE) /\ head[5] = Line("field", "kind", m.kind, FALSE)
    <2>1. /\ Line("open", "", <<>>, FALSE) \in SourceLine /\ Line("field", "id", m.id, FALSE) \in SourceLine
          /\ Line("field", "parent", pv, FALSE) \in SourceLine
          /\ Line("field", "position", m.position, FALSE) \in SourceLine
          /\ Line("field", "kind", m.kind, FALSE) \in SourceLine
      BY <1>1, <1>5, <1>6
    <2> HIDE DEF pv
    <2> DEFINE h == head
    <2>2. h = <<Line("open", "", <<>>, FALSE), Line("field", "id", m.id, FALSE),
                Line("field", "parent", pv, FALSE), Line("field", "position", m.position, FALSE),
                Line("field", "kind", m.kind, FALSE)>>
      OBVIOUS
    <2> HIDE DEF h
    <2>3. /\ h \in Seq(SourceLine) /\ Len(h) = 5
          /\ h[1] = Line("open", "", <<>>, FALSE) /\ h[2] = Line("field", "id", m.id, FALSE)
          /\ h[3] = Line("field", "parent", pv, FALSE)
          /\ h[4] = Line("field", "position", m.position, FALSE) /\ h[5] = Line("field", "kind", m.kind, FALSE)
      BY <2>1, <2>2, Five
    <2> QED
      BY <2>3 DEF h
  <1>10. /\ tags \in Seq(SourceLine) /\ Len(tags) = 1 + nt /\ tags[1] = Line("field", "tags", tv, FALSE)
         /\ \A t \in 1 .. nt : tags[1 + t] = items[t]
    <2>1. Line("field", "tags", tv, FALSE) \in SourceLine
      BY <1>5, <1>6
    <2> DEFINE first == <<Line("field", "tags", tv, FALSE)>>
    <2>2. first \in Seq(SourceLine) /\ Len(first) = 1 /\ first[1] = Line("field", "tags", tv, FALSE)
      BY <2>1, Single
    <2>3. tags = first \o items
      OBVIOUS
    <2> HIDE DEF items, tv, first, tags
    <2>4. Joined(tags, first, items, 1, nt)
      BY <1>7, <2>2, <2>3, Concat
    <2>5. /\ tags \in Seq(SourceLine) /\ Len(tags) = 1 + nt
          /\ \A k \in 1 .. 1 : tags[k] = first[k]
          /\ \A t \in 1 .. nt : tags[1 + t] = items[t]
      BY <2>4 DEF Joined
    <2>6. 1 \in 1 .. 1
      OBVIOUS
    <2> QED
      BY <2>2, <2>5, <2>6, Zenon
  <1>11. /\ arch \in Seq(SourceLine) /\ Len(arch) = 1 /\ arch[1] = Line("field", "archived", av, FALSE)
         /\ close \in Seq(SourceLine) /\ Len(close) = 1 /\ close[1] = Line("close", "", <<>>, FALSE)
    <2>1. Line("field", "archived", av, FALSE) \in SourceLine /\ Line("close", "", <<>>, FALSE) \in SourceLine
      BY <1>5, <1>6
    <2> QED
      BY <2>1, Single
  <1> HIDE DEF head, tags, items, arch, close, tv, pv, av, nt, ne, L
  <1>12. /\ L \in Seq(SourceLine) /\ Len(L) = 8 + nt + ne
         /\ \A k \in 1 .. 5 : L[k] = head[k]
         /\ \A k \in 1 .. 1 + nt : L[5 + k] = tags[k]
         /\ L[7 + nt] = arch[1]
         /\ \A e \in 1 .. ne : L[7 + nt + e] = extra[e]
         /\ L[8 + nt + ne] = close[1]
    <2>1. PICK a : a = head \o tags
      OBVIOUS
    <2>2. PICK b : b = a \o arch
      OBVIOUS
    <2>3. PICK c : c = b \o extra
      OBVIOUS
    <2>4. L = c \o close
      BY <1>8, <2>1, <2>2, <2>3
    <2>5. /\ a \in Seq(SourceLine) /\ Len(a) = 5 + (1 + nt)
          /\ \A k \in 1 .. 5 : a[k] = head[k]
          /\ \A j \in 1 .. 1 + nt : a[5 + j] = tags[j]
      <3>1. Joined(a, head, tags, 5, 1 + nt)
        BY <1>9, <1>10, <2>1, Concat
      <3> QED
        BY <3>1 DEF Joined
    <2>6. /\ b \in Seq(SourceLine) /\ Len(b) = 5 + (1 + nt) + 1
          /\ \A k \in 1 .. 5 + (1 + nt) : b[k] = a[k]
          /\ \A k \in 1 .. 1 : b[5 + (1 + nt) + k] = arch[k]
      <3>1. Joined(b, a, arch, 5 + (1 + nt), 1)
        BY <1>11, <2>2, <2>5, Concat
      <3> QED
        BY <3>1 DEF Joined
    <2>7. Len(extra) = ne /\ extra \in Seq(SourceLine)
      BY <1>1 DEF ne
    <2>8. /\ c \in Seq(SourceLine) /\ Len(c) = 5 + (1 + nt) + 1 + ne
          /\ \A k \in 1 .. 5 + (1 + nt) + 1 : c[k] = b[k]
          /\ \A e \in 1 .. ne : c[5 + (1 + nt) + 1 + e] = extra[e]
      <3>1. Joined(c, b, extra, 5 + (1 + nt) + 1, ne)
        BY <2>3, <2>6, <2>7, Concat
      <3> QED
        BY <3>1 DEF Joined
    <2>9. /\ L \in Seq(SourceLine) /\ Len(L) = 5 + (1 + nt) + 1 + ne + 1
          /\ \A k \in 1 .. 5 + (1 + nt) + 1 + ne : L[k] = c[k]
          /\ \A k \in 1 .. 1 : L[5 + (1 + nt) + 1 + ne + k] = close[k]
      <3>1. Joined(L, c, close, 5 + (1 + nt) + 1 + ne, 1)
        BY <1>11, <2>4, <2>8, Concat
      <3> QED
        BY <3>1 DEF Joined
    <2>10. /\ 5 + (1 + nt) = 6 + nt /\ 5 + (1 + nt) + 1 = 7 + nt
           /\ 5 + (1 + nt) + 1 + ne = 7 + nt + ne /\ 5 + (1 + nt) + 1 + ne + 1 = 8 + nt + ne
      BY <1>2
    <2> HIDE DEF extra
    <2>11. ASSUME NEW k \in 1 .. 5 PROVE L[k] = head[k]
      <3>1. k \in 1 .. 6 + nt /\ k \in 1 .. 7 + nt /\ k \in 1 .. 7 + nt + ne
        BY <1>2
      <3> QED
        BY <2>5, <2>6, <2>8, <2>9, <2>10, <3>1
    <2>12. ASSUME NEW k \in 1 .. 1 + nt PROVE L[5 + k] = tags[k]
      <3>1. 5 + k \in 1 .. 6 + nt /\ 5 + k \in 1 .. 7 + nt /\ 5 + k \in 1 .. 7 + nt + ne
        BY <1>2
      <3> HIDE DEF L
      <3>2. L[5 + k] = c[5 + k]
        BY <2>9, <2>10, <3>1
      <3>3. c[5 + k] = b[5 + k]
        BY <2>8, <2>10, <3>1
      <3>4. b[5 + k] = a[5 + k]
        BY <2>6, <2>10, <3>1
      <3> QED
        BY <2>5, <3>2, <3>3, <3>4
    <2>13. L[7 + nt] = arch[1]
      <3>1. 7 + nt \in 1 .. 7 + nt /\ 7 + nt \in 1 .. 7 + nt + ne /\ 1 \in 1 .. 1
        BY <1>2
      <3> QED
        BY <2>6, <2>8, <2>9, <2>10, <3>1
    <2>14. ASSUME NEW e \in 1 .. ne PROVE L[7 + nt + e] = extra[e]
      <3>1. 7 + nt + e \in 1 .. 7 + nt + ne
        BY <1>2
      <3> QED
        BY <2>8, <2>9, <2>10, <3>1
    <2>15. L[8 + nt + ne] = close[1]
      BY <2>9, <2>10
    <2> QED
      BY <2>9, <2>10, <2>11, <2>12, <2>13, <2>14, <2>15
  <1>13. L[1] = head[1] /\ L[2] = head[2] /\ L[3] = head[3] /\ L[4] = head[4] /\ L[5] = head[5]
    BY <1>12
  <1>14. L[6] = tags[1] /\ \A t \in 1 .. nt : L[6 + t] = items[t]
    <2>1. 1 \in 1 .. 1 + nt /\ \A t \in 1 .. nt : 1 + t \in 1 .. 1 + nt /\ 5 + (1 + t) = 6 + t
      BY <1>2
    <2>2. L[5 + 1] = tags[1] /\ \A t \in 1 .. nt : L[5 + (1 + t)] = tags[1 + t]
      BY <1>12, <2>1
    <2>3. \A t \in 1 .. nt : L[6 + t] = items[t]
      BY <1>10, <2>1, <2>2
    <2> QED
      BY <2>2, <2>3
  <1>15. /\ nt \in Nat /\ ne \in Nat
         /\ L \in Seq(SourceLine) /\ Len(L) = 8 + nt + ne
         /\ L[1] = Line("open", "", <<>>, FALSE)
         /\ L[2] = Line("field", "id", m.id, FALSE)
         /\ L[3] = Line("field", "parent", pv, FALSE)
         /\ L[4] = Line("field", "position", m.position, FALSE)
         /\ L[5] = Line("field", "kind", m.kind, FALSE)
         /\ L[6] = Line("field", "tags", tv, FALSE)
         /\ \A t \in 1 .. nt : L[6 + t] = Line("item", "", m.tags[t], TRUE)
         /\ L[7 + nt] = Line("field", "archived", av, FALSE)
         /\ \A e \in 1 .. ne : L[7 + nt + e] = extra[e]
         /\ L[8 + nt + ne] = Line("close", "", <<>>, FALSE)
    BY <1>2, <1>7, <1>9, <1>10, <1>11, <1>12, <1>13, <1>14
  <1> QED
    BY <1>15 DEF L, nt, ne, tv, pv, av, FieldLine, TagLine, ParentText, ArchivedText, TagsText

-----------------------------------------------------------------------------
(* Reading it again *)

\* An empty list of tags is read as one.
LEMMA Brackets ==
    /\ Trimmed(<<"[", "]">>) = <<"[", "]">>
    /\ Bracketed(<<"[", "]">>)
    /\ InlineTags(<<"[", "]">>) = <<>>
  <1> DEFINE v == <<"[", "]">>
  <1>1. v \in Seq(Piece) /\ Len(v) = 2 /\ DOMAIN v = {1, 2} /\ v[1] = "[" /\ v[2] = "]"
    <2>1. "[" \in Piece /\ "]" \in Piece
      BY Pieces
    <2> QED
      BY <2>1
  <1>2. SubSeq(v, 1, 2) = v
    <2> HIDE DEF v
    <2> DEFINE w == SubSeq(v, 1, 2)
    <2>1. w \in Seq(Piece) /\ Len(w) = 2
      BY <1>1, SMTT(20)
    <2>2. \A i \in 1 .. 2 : w[i] = v[i]
      BY <1>1
    <2> HIDE DEF w
    <2>3. w = v
      BY <1>1, <2>1, <2>2
    <2> QED
      BY <2>3 DEF w
  <1>3. Bracketed(v)
    BY <1>1 DEF Bracketed
  <1> HIDE DEF v
  <1>4. Trimmed(v) = v
    <2> DEFINE ink == {i \in DOMAIN v : v[i] # "sp"}
    <2>1. ink = {1, 2}
      BY <1>1
    <2>2. (CHOOSE i \in ink : \A j \in ink : i <= j) = 1 /\ (CHOOSE i \in ink : \A j \in ink : j <= i) = 2
      BY <2>1
    <2> QED
      BY <1>2, <2>1, <2>2 DEF Trimmed
  <1>5. InlineTags(v) = <<>>
    <2> DEFINE inner == SubSeq(v, 2, Len(v) - 1)
               at == {i \in DOMAIN inner : inner[i] = ","}
               commas == Places(at)
               part(k) == SubSeq(inner, IF k = 1 THEN 1 ELSE commas[k - 1] + 1,
                                        IF k > Len(commas) THEN Len(inner) ELSE commas[k] - 1)
               tags == [k \in 1 .. (Len(commas) + 1) |-> Normalised(Trimmed(part(k)))]
               some == {k \in DOMAIN tags : tags[k] # <<>>}
               kept == Places(some)
    <2>1. inner = <<>>
      BY <1>1
    <2> HIDE DEF inner
    <2>2. at = {}
      BY <2>1
    <2>3. Cardinality({}) = 0
      BY FS_EmptySet
    <2>4. Places({}) = <<>>
      <3>1. 1 .. Cardinality({}) = {}
        BY <2>3
      <3> QED
        BY <3>1 DEF Places
    <2> HIDE DEF at
    <2>5. commas = <<>> /\ Len(commas) = 0
      BY <2>2, <2>4
    <2> HIDE DEF commas
    <2>6. part(1) = <<>>
      BY <2>1, <2>5
    <2> HIDE DEF part
    <2>7. Normalised(Trimmed(<<>>)) = <<>>
      BY CleanNothing, CleanKept
    <2>8. DOMAIN tags = {1} /\ tags[1] = <<>>
      BY <2>5, <2>6, <2>7
    <2> HIDE DEF tags
    <2>9. some = {}
      BY <2>8
    <2> HIDE DEF some
    <2>10. kept = <<>>
      BY <2>4, <2>9
    <2> HIDE DEF kept
    <2>11. InlineTags(v) = [k \in DOMAIN kept |-> tags[kept[k]]]
      BY DEF InlineTags, kept, some, tags, part, commas, at, inner
    <2> QED
      BY <2>10, <2>11
  <1> QED
    BY <1>3, <1>4, <1>5 DEF v

\* A field line, outside every list.
LEMMA FieldOutside ==
    ASSUME NEW M, NEW key, key # "u-- >", NEW v
    PROVE  BlockLine([meta |-> M, list |-> "none"], FieldLine(key, v))
              = Field([meta |-> M, list |-> "none"], FieldLine(key, v))
  BY DEF BlockLine, Continues, IsField, FieldLine, Line

Mk(id, parent, position, kind, tags, archived, extra) ==
    [id |-> id, parent |-> parent, position |-> position, kind |-> kind,
     tags |-> tags, archived |-> archived, extra |-> extra]
Acc(M, list) == [meta |-> M, list |-> list]

\* What each line that a save writes adds to what has been read.
LEMMA ReadBackFields ==
    ASSUME NEW a, NEW b, NEW c, NEW d, NEW t, NEW g, NEW x
    PROVE  /\ \A v : Clean(v) =>
                 BlockLine(Acc(Mk(a, b, c, d, t, g, x), "none"), FieldLine("id", v))
                    = Acc(Mk(v, b, c, d, t, g, x), "none")
           /\ \A v : Clean(v) /\ v # <<"null">> =>
                 BlockLine(Acc(Mk(a, b, c, d, t, g, x), "none"),
                           FieldLine("parent", ParentText(v)))
                    = Acc(Mk(a, v, c, d, t, g, x), "none")
           /\ \A v \in Positions :
                 BlockLine(Acc(Mk(a, b, c, d, t, g, x), "none"), FieldLine("position", v))
                    = Acc(Mk(a, b, v, d, t, g, x), "none")
           /\ \A v : Clean(v) =>
                 BlockLine(Acc(Mk(a, b, c, d, t, g, x), "none"), FieldLine("kind", v))
                    = Acc(Mk(a, b, c, v, t, g, x), "none")
  <1> DEFINE M == Mk(a, b, c, d, t, g, x)
  <1>1. \A v : \A key \in {"id", "parent", "position", "kind"} :
           BlockLine(Acc(M, "none"), FieldLine(key, v)) = Field(Acc(M, "none"), FieldLine(key, v))
    BY FieldOutside DEF Acc
  <1>2. ASSUME NEW v, Clean(v)
        PROVE  Field(Acc(M, "none"), FieldLine("id", v)) = Acc(Mk(v, b, c, d, t, g, x), "none")
    <2>1. Trimmed(v) = v /\ Normalised(v) = v
      BY <1>2, CleanKept
    <2> QED
      BY <2>1 DEF Field, Acc, Mk, FieldLine, Line
  <1>3. ASSUME NEW v, Clean(v), v # <<"null">>
        PROVE  Field(Acc(M, "none"), FieldLine("parent", ParentText(v)))
                  = Acc(Mk(a, v, c, d, t, g, x), "none")
    <2> DEFINE w == ParentText(v)
    <2>1. Clean(<<"null">>)
      BY CleanWords
    <2>2. Trimmed(w) = w /\ Normalised(w) = w
      BY <1>3, <2>1, CleanKept DEF ParentText
    <2>3. ParentValue(w) = v
      BY <1>3, <2>2 DEF ParentValue, ParentText
    <2> HIDE DEF w
    <2>4. Field(Acc(M, "none"), FieldLine("parent", w)) = Acc(Mk(a, v, c, d, t, g, x), "none")
      BY <2>2, <2>3 DEF Field, Acc, Mk, FieldLine, Line
    <2> QED
      BY <2>4 DEF w
  <1>4. ASSUME NEW v \in Positions
        PROVE  Field(Acc(M, "none"), FieldLine("position", v)) = Acc(Mk(a, b, v, d, t, g, x), "none")
    <2>1. Trimmed(v) = v
      <3>1. Clean(<<"0">>) /\ Clean(<<"7">>)
        BY CleanWords
      <3> QED
        BY <3>1, CleanKept DEF Positions
    <2> QED
      BY <2>1 DEF Field, Acc, Mk, FieldLine, Line
  <1>5. ASSUME NEW v, Clean(v)
        PROVE  Field(Acc(M, "none"), FieldLine("kind", v)) = Acc(Mk(a, b, c, v, t, g, x), "none")
    <2>1. Trimmed(v) = v /\ Normalised(v) = v
      BY <1>5, CleanKept
    <2> QED
      BY <2>1 DEF Field, Acc, Mk, FieldLine, Line
  <1> HIDE DEF M
  <1> QED
    BY <1>1, <1>2, <1>3, <1>4, <1>5 DEF M

\* The archived flag is read back, and ends a list of tags.
LEMMA ReadBackArchived ==
    ASSUME NEW a, NEW b, NEW c, NEW d, NEW t, NEW g \in BOOLEAN, NEW x, NEW h \in BOOLEAN,
           NEW list \in {"none", "tags"}
    PROVE  BlockLine(Acc(Mk(a, b, c, d, t, h, x), list),
                     FieldLine("archived", ArchivedText(g)))
              = Acc(Mk(a, b, c, d, t, g, x), "none")
  <1> DEFINE v == ArchivedText(g)
             M == Mk(a, b, c, d, t, h, x)
             line == FieldLine("archived", v)
  <1>1. Trimmed(v) = v
    <2>1. Clean(<<"true">>) /\ Clean(<<"false">>)
      BY CleanWords
    <2> QED
      BY <2>1, CleanKept DEF ArchivedText
  <1>2. (v = <<"true">>) = g /\ (v = <<"false">>) = ~g
    BY DEF ArchivedText
  <1> HIDE DEF v
  <1>3. BlockLine(Acc(M, list), line) = Field(Acc(M, list), line)
    BY DEF BlockLine, Continues, IsField, FieldLine, Line, Acc
  <1>4. Field(Acc(M, list), line) = Acc(Mk(a, b, c, d, t, g, x), "none")
    BY <1>1, <1>2 DEF Field, Acc, Mk, FieldLine, Line
  <1> QED
    BY <1>3, <1>4 DEF v

\* The line above the tags opens a list if there are any.
LEMMA ReadBackTags ==
    ASSUME NEW a, NEW b, NEW c, NEW d, NEW g, NEW x, NEW z, z = <<>>
    PROVE  \A n \in Nat :
              BlockLine(Acc(Mk(a, b, c, d, z, g, x), "none"), FieldLine("tags", TagsText(n)))
                 = Acc(Mk(a, b, c, d, z, g, x), IF n = 0 THEN "none" ELSE "tags")
  <1> DEFINE M == Mk(a, b, c, d, z, g, x)
  <1>1. \A v : BlockLine(Acc(M, "none"), FieldLine("tags", v)) = Field(Acc(M, "none"), FieldLine("tags", v))
    BY FieldOutside DEF Acc
  <1>2. Field(Acc(M, "none"), FieldLine("tags", TagsText(0))) = Acc(M, "none")
    <2> DEFINE w == TagsText(0)
    <2>1. Trimmed(w) = w /\ Bracketed(w) /\ InlineTags(w) = z
      BY Brackets DEF TagsText
    <2> HIDE DEF w
    <2>2. Field(Acc(M, "none"), FieldLine("tags", w)) = Acc(M, "none")
      BY <2>1 DEF Field, Acc, Mk, FieldLine, Line
    <2> QED
      BY <2>2 DEF w
  <1>3. ASSUME NEW n \in Nat, n # 0
        PROVE  Field(Acc(M, "none"), FieldLine("tags", TagsText(n))) = Acc(M, "tags")
    <2>1. Trimmed(<<>>) = <<>> /\ ~Bracketed(<<>>)
      BY CleanNothing, CleanKept DEF Bracketed
    <2> DEFINE w == TagsText(n)
    <2>2. Trimmed(w) = w /\ ~Bracketed(w)
      BY <1>3, <2>1 DEF TagsText
    <2>3. Field(Acc(M, "none"), FieldLine("tags", w)) = Acc(M, "tags")
      <3> HIDE DEF w
      <3> QED
        BY <2>2 DEF Field, Acc, Mk, FieldLine, Line
    <2> QED
      BY <2>3 DEF w
  <1> HIDE DEF M
  <1> QED
    BY <1>1, <1>2, <1>3 DEF M

\* A tag on a line of its own is read back after those before it.
LEMMA ReadBackTag ==
    ASSUME NEW a, NEW b, NEW c, NEW d, NEW g, NEW x, NEW t, NEW v, Clean(v)
    PROVE  BlockLine(Acc(Mk(a, b, c, d, t, g, x), "tags"), TagLine(v))
              = Acc(Mk(a, b, c, d, Append(t, v), g, x), "tags")
  <1>1. Normalised(Trimmed(v)) = v
    BY CleanKept
  <1> QED
    BY <1>1 DEF BlockLine, Continues, Acc, Mk, TagLine, Line

\* An unknown line is read back after those before it.
LEMMA ReadBackExtra ==
    ASSUME NEW a, NEW b, NEW c, NEW d, NEW t, NEW g, NEW x, NEW list \in {"none", "extra"},
           NEW line, Preserved(line) = line,
           UnknownField(line) \/ (list = "extra" /\ line.indented /\ line.is # "blank")
    PROVE  BlockLine(Acc(Mk(a, b, c, d, t, g, x), list), line)
              = Acc(Mk(a, b, c, d, t, g, Append(x, line)), "extra")
  <1> DEFINE M == Mk(a, b, c, d, t, g, x)
             acc == Acc(M, list)
  <1>1. acc.list = list /\ acc.meta = M /\ acc.meta.extra = x
    BY DEF Acc, Mk
  <1>2. CASE Continues(list, line)
    <2>1. list = "extra"
      BY <1>2 DEF Continues
    <2>2. BlockLine(acc, line) = [acc EXCEPT !.meta.extra = Append(@, line)]
      BY <1>1, <1>2, <2>1 DEF BlockLine
    <2>3. acc = [meta |-> M, list |-> "extra"]
      BY <2>1 DEF Acc
    <2>4. [M EXCEPT !.extra = Append(x, line)] = Mk(a, b, c, d, t, g, Append(x, line))
      BY DEF Mk
    <2> HIDE DEF M, acc
    <2>5. BlockLine(acc, line) = [meta |-> [M EXCEPT !.extra = Append(x, line)], list |-> "extra"]
      BY <1>1, <2>2, <2>3, SMTT(20)
    <2>6. BlockLine(acc, line) = Acc(Mk(a, b, c, d, t, g, Append(x, line)), "extra")
      BY <2>4, <2>5 DEF Acc
    <2> QED
      BY <2>6 DEF M, acc
  <1>3. CASE ~Continues(list, line)
    <2>1. UnknownField(line) /\ IsField(line) /\ line.key \notin Keys
      BY <1>3 DEF Continues, UnknownField
    <2>2. BlockLine(acc, line) = Field(acc, line)
      BY <1>1, <1>3, <2>1 DEF BlockLine
    <2> DEFINE y == Append(x, line)
    <2>3. Field(acc, line) = [meta |-> [acc.meta EXCEPT !.extra = Append(@, line)], list |-> "extra"]
      BY <2>1 DEF Field, Keys
    <2> HIDE DEF acc
    <2>4. Field(acc, line) = [meta |-> [M EXCEPT !.extra = y], list |-> "extra"]
      BY <1>1, <2>3
    <2> HIDE DEF y
    <2>5. [M EXCEPT !.extra = y] = Mk(a, b, c, d, t, g, y)
      BY DEF Mk
    <2> QED
      BY <2>2, <2>4, <2>5 DEF Acc, y, acc
  <1> QED
    BY <1>2, <1>3

\* The first k members of a sequence and the next one.
LEMMA PrefixGrows ==
    ASSUME NEW S, NEW s \in Seq(S), NEW k \in Nat, k + 1 <= Len(s)
    PROVE  Append(SubSeq(s, 1, k), s[k + 1]) = SubSeq(s, 1, k + 1)
  <1> DEFINE p == SubSeq(s, 1, k)
             q == SubSeq(s, 1, k + 1)
             r == Append(p, s[k + 1])
  <1>1. p \in Seq(S) /\ Len(p) = k /\ \A i \in 1 .. k : p[i] = s[i]
    OBVIOUS
  <1>2. q \in Seq(S) /\ Len(q) = k + 1 /\ \A i \in 1 .. k + 1 : q[i] = s[i]
    OBVIOUS
  <1> HIDE DEF p, q
  <1>3. s[k + 1] \in S
    OBVIOUS
  <1>4. r \in Seq(S) /\ Len(r) = k + 1 /\ r[k + 1] = s[k + 1] /\ \A i \in 1 .. k : r[i] = p[i]
    BY <1>1, <1>3
  <1> HIDE DEF r
  <1>5. \A i \in 1 .. k + 1 : r[i] = q[i]
    BY <1>1, <1>2, <1>4
  <1>6. r = q
    BY <1>2, <1>4, <1>5
  <1> QED
    BY <1>6 DEF r, p, q

\* The lines a save writes between the markers, from the second on, and a reading of them.
Written(L, m, nt, ne) ==
    /\ L[2] = FieldLine("id", m.id) /\ L[3] = FieldLine("parent", ParentText(m.parent))
    /\ L[4] = FieldLine("position", m.position) /\ L[5] = FieldLine("kind", m.kind)
    /\ L[6] = FieldLine("tags", TagsText(nt))
    /\ \A t \in 1 .. nt : L[6 + t] = TagLine(m.tags[t])
    /\ L[7 + nt] = FieldLine("archived", ArchivedText(m.archived))
    /\ \A e \in 1 .. ne : L[7 + nt + e] = m.extra[e]
Size(m, nt, ne) == nt = Len(m.tags) /\ ne = Len(m.extra)
Steps(f, L, n) == f[0] = Start /\ \A k \in 1 .. n : f[k] = BlockLine(f[k - 1], L[k + 1])

\* The function of a block whose lines are those of L below the opening marker,
LEMMA FoldSteps ==
    ASSUME NEW n \in Nat, NEW b, NEW L, \A k \in 1 .. n : b[k] = L[k + 1], NEW f, Folds(b, n, f)
    PROVE  Steps(f, L, n)
  <1>1. \A k \in 0 .. n : f[k] = IF k = 0 THEN Start ELSE BlockLine(f[k - 1], b[k])
    BY DEF Folds
  <1>2. 0 \in 0 .. n
    OBVIOUS
  <1>3. f[0] = Start
    BY <1>1, <1>2
  <1>4. ASSUME NEW k \in 1 .. n PROVE f[k] = BlockLine(f[k - 1], L[k + 1])
    <2>1. k \in 0 .. n /\ k # 0
      OBVIOUS
    <2>2. f[k] = BlockLine(f[k - 1], b[k])
      BY <1>1, <2>1
    <2> QED
      BY <2>2
  <1> QED
    BY <1>3, <1>4 DEF Steps

\* a line at a time.
LEMMA StepAt ==
    ASSUME NEW f, NEW L, NEW n, Steps(f, L, n), NEW k \in 1 .. n, NEW i, k - 1 = i, NEW j, k + 1 = j
    PROVE  f[k] = BlockLine(f[i], L[j])
  BY DEF Steps

\* Reading the lines gives back the fields they were written from.
LEMMA StepsReadBack ==
    ASSUME NEW m, Fields(m), Extra(m.extra), NEW nt, NEW ne, Size(m, nt, ne),
           NEW L, Written(L, m, nt, ne), NEW f, Steps(f, L, 6 + nt + ne)
    PROVE  f[6 + nt + ne].meta = m
  <1> DEFINE open == IF nt = 0 THEN "none" ELSE "tags"
             none == <<>>
             no == FALSE
             zero == <<"0">>
             page == <<"page">>
             Tags(t) == SubSeq(m.tags, 1, t)
             Rest(e) == SubSeq(m.extra, 1, e)
  <1>1. /\ m = Mk(m.id, m.parent, m.position, m.kind, m.tags, m.archived, m.extra)
        /\ m.position \in Positions /\ m.tags \in Seq(Seq(Piece)) /\ m.archived \in BOOLEAN
        /\ m.extra \in Seq(SourceLine)
        /\ Clean(m.id) /\ Clean(m.kind) /\ Clean(m.parent) /\ m.parent # <<"null">>
        /\ \A t \in 1 .. nt : Clean(m.tags[t])
    BY DEF Fields, Meta, Mk, Size
  <1>2. nt \in Nat /\ ne \in Nat
    BY <1>1 DEF Size
  <1>3. /\ L[2] = FieldLine("id", m.id)
        /\ L[3] = FieldLine("parent", ParentText(m.parent))
        /\ L[4] = FieldLine("position", m.position)
        /\ L[5] = FieldLine("kind", m.kind)
        /\ L[6] = FieldLine("tags", TagsText(nt))
        /\ L[7 + nt] = FieldLine("archived", ArchivedText(m.archived))
    BY DEF Written
  <1>4. /\ \A t \in 1 .. nt : L[6 + t] = TagLine(m.tags[t])
        /\ \A e \in 1 .. ne : L[7 + nt + e] = m.extra[e]
    BY DEF Written
  <1>5. /\ f[0] = Start
        /\ \A k \in 1 .. 6 + nt + ne : f[k] = BlockLine(f[k - 1], L[k + 1])
    BY DEF Steps
  <1>6. f[0] = Acc(Mk(none, none, zero, page, none, no, none), "none")
    BY <1>5 DEF Start, Fresh, Acc, Mk
  <1>7. /\ f[1] = BlockLine(f[0], L[2]) /\ f[2] = BlockLine(f[1], L[3]) /\ f[3] = BlockLine(f[2], L[4])
        /\ f[4] = BlockLine(f[3], L[5]) /\ f[5] = BlockLine(f[4], L[6])
    BY <1>2, <1>5
  <1>8. none = <<>>
    OBVIOUS
  <1> HIDE DEF none, no, zero, page
  <1>9. f[1] = Acc(Mk(m.id, none, zero, page, none, no, none), "none")
    BY <1>1, <1>6, <1>3, <1>7, ReadBackFields
  <1>10. f[2] = Acc(Mk(m.id, m.parent, zero, page, none, no, none), "none")
    BY <1>1, <1>9, <1>3, <1>7, ReadBackFields
  <1>11. f[3] = Acc(Mk(m.id, m.parent, m.position, page, none, no, none), "none")
    BY <1>1, <1>10, <1>3, <1>7, ReadBackFields
  <1>12. f[4] = Acc(Mk(m.id, m.parent, m.position, m.kind, none, no, none), "none")
    BY <1>1, <1>11, <1>3, <1>7, ReadBackFields
  <1>13. f[5] = Acc(Mk(m.id, m.parent, m.position, m.kind, none, no, none), open)
    BY <1>2, <1>12, <1>3, <1>7, <1>8, ReadBackTags
  <1> HIDE DEF Tags
  <1>14. ASSUME NEW t \in 0 .. nt
         PROVE  f[5 + t] = Acc(Mk(m.id, m.parent, m.position, m.kind, Tags(t), no, none), open)
    <2> DEFINE Good(j) == f[5 + j] = Acc(Mk(m.id, m.parent, m.position, m.kind, Tags(j), no, none), open)
               Bad == {j \in 0 .. nt : ~Good(j)}
    <2>1. Tags(0) = none
      BY <1>1, <1>8 DEF Tags
    <2>2. Good(0)
      BY <1>13, <2>1
    <2>3. ASSUME NEW j \in Nat, j + 1 <= nt, Good(j) PROVE Good(j + 1)
      <3>1. j + 1 \in 1 .. nt /\ 5 + (j + 1) \in 1 .. 6 + nt + ne /\ 5 + (j + 1) - 1 = 5 + j
            /\ 5 + (j + 1) + 1 = 6 + (j + 1)
        BY <1>2, <2>3
      <3>2. f[5 + (j + 1)] = BlockLine(f[5 + j], TagLine(m.tags[j + 1]))
        BY <1>5, <1>4, <3>1
      <3>3. Clean(m.tags[j + 1])
        BY <1>1, <3>1
      <3>4. open = "tags"
        BY <2>3
      <3>5. Append(Tags(j), m.tags[j + 1]) = Tags(j + 1)
        BY <1>1, <2>3, PrefixGrows DEF Tags, Size
      <3> HIDE DEF open
      <3>6. BlockLine(Acc(Mk(m.id, m.parent, m.position, m.kind, Tags(j), no, none), "tags"),
                      TagLine(m.tags[j + 1]))
               = Acc(Mk(m.id, m.parent, m.position, m.kind, Append(Tags(j), m.tags[j + 1]), no, none), "tags")
        <4> DEFINE v == m.tags[j + 1]
                   ts == Tags(j)
        <4>1. Clean(v)
          BY <3>3
        <4> HIDE DEF v, ts
        <4>2. BlockLine(Acc(Mk(m.id, m.parent, m.position, m.kind, ts, no, none), "tags"), TagLine(v))
                 = Acc(Mk(m.id, m.parent, m.position, m.kind, Append(ts, v), no, none), "tags")
          BY <4>1, ReadBackTag
        <4> QED
          BY <4>2 DEF v, ts
      <3> QED
        BY <2>3, <3>2, <3>4, <3>5, <3>6
    <2> HIDE DEF Good
    <2>4. ASSUME Bad # {} PROVE FALSE
      <3>1. \A j \in Bad : j \in Nat
        OBVIOUS
      <3>2. PICK j \in Bad : \A i \in Bad : j <= i
        BY <2>4, <3>1, LeastNumber
      <3>3. j # 0
        BY <2>2, <3>2
      <3>4. j - 1 \in Nat /\ (j - 1) + 1 = j /\ j <= nt /\ j - 1 \in 0 .. nt /\ j - 1 \notin Bad
        BY <1>2, <3>2, <3>3
      <3>5. Good(j - 1)
        BY <3>4
      <3>6. Good((j - 1) + 1)
        BY <2>3, <3>4, <3>5
      <3> QED
        BY <3>2, <3>4, <3>6
    <2> QED
      BY <2>4 DEF Good
  <1>15. f[6 + nt] = Acc(Mk(m.id, m.parent, m.position, m.kind, m.tags, m.archived, none), "none")
    <2>1. Tags(nt) = m.tags
      BY <1>1 DEF Tags, Size
    <2>2. f[5 + nt] = Acc(Mk(m.id, m.parent, m.position, m.kind, m.tags, no, none), open)
      BY <1>2, <1>14, <2>1
    <2>3. f[6 + nt] = BlockLine(f[5 + nt], L[7 + nt])
      <3>1. PICK k, i, j : k = 6 + nt /\ i = 5 + nt /\ j = 7 + nt
        OBVIOUS
      <3>2. k \in 1 .. 6 + nt + ne /\ k - 1 = i /\ k + 1 = j
        BY <1>2, <3>1
      <3>3. f[k] = BlockLine(f[i], L[j])
        BY <3>2, StepAt
      <3> QED
        BY <3>1, <3>3
    <2>4. open \in {"none", "tags"}
      OBVIOUS
    <2>5. no \in BOOLEAN
      BY DEF no
    <2> HIDE DEF open
    <2> QED
      BY <1>1, <1>3, <2>2, <2>3, <2>4, <2>5, ReadBackArchived
  <1> HIDE DEF open
  <1> DEFINE state(e) == IF e = 0 THEN "none" ELSE "extra"
             Good(e) == f[6 + nt + e] = Acc(Mk(m.id, m.parent, m.position, m.kind, m.tags, m.archived, Rest(e)),
                                           state(e))
             Bad == {e \in 0 .. ne : ~Good(e)}
  <1>16. Good(0)
    <2>1. Rest(0) = none
      BY <1>1, <1>8
    <2>2. 6 + nt + 0 = 6 + nt
      BY <1>2
    <2> QED
      BY <1>15, <2>1, <2>2
  <1>17. ASSUME NEW e \in Nat, e + 1 <= ne, Good(e) PROVE Good(e + 1)
    <2> HIDE DEF Good
    <2> DEFINE line == m.extra[e + 1]
    <2>1. e + 1 \in 1 .. ne /\ 6 + nt + (e + 1) \in 1 .. 6 + nt + ne
          /\ 6 + nt + (e + 1) - 1 = 6 + nt + e /\ 6 + nt + (e + 1) + 1 = 7 + nt + (e + 1)
      BY <1>2, <1>17
    <2>2. f[6 + nt + (e + 1)] = BlockLine(f[6 + nt + e], line)
      <3>1. L[7 + nt + (e + 1)] = line
        BY <1>4, <2>1
      <3>2. PICK k, i, j : k = 6 + nt + (e + 1) /\ i = 6 + nt + e /\ j = 7 + nt + (e + 1)
        OBVIOUS
      <3>3. k \in 1 .. 6 + nt + ne /\ k - 1 = i /\ k + 1 = j
        BY <1>2, <2>1, <3>2
      <3>4. f[k] = BlockLine(f[i], L[j])
        BY <3>3, StepAt
      <3> QED
        BY <3>1, <3>2, <3>4
    <2>3. /\ Preserved(line) = line
          /\ UnknownField(line) \/ (e + 1 > 1 /\ line.indented /\ line.is # "blank")
      BY <2>1 DEF Extra, Size
    <2>4. state(e) \in {"none", "extra"} /\ state(e + 1) = "extra" /\ (e + 1 > 1 => state(e) = "extra")
      OBVIOUS
    <2>5. Append(Rest(e), line) = Rest(e + 1)
      BY <1>1, <1>17, PrefixGrows DEF Size
    <2> HIDE DEF state, Rest, line
    <2>6. BlockLine(Acc(Mk(m.id, m.parent, m.position, m.kind, m.tags, m.archived, Rest(e)), state(e)), line)
             = Acc(Mk(m.id, m.parent, m.position, m.kind, m.tags, m.archived, Append(Rest(e), line)), "extra")
      BY <2>3, <2>4, ReadBackExtra
    <2> QED
      BY <1>17, <2>2, <2>4, <2>5, <2>6 DEF Good
  <1> HIDE DEF Good
  <1>18. ASSUME Bad # {} PROVE FALSE
    <2>1. \A j \in Bad : j \in Nat
      OBVIOUS
    <2>2. PICK j \in Bad : \A i \in Bad : j <= i
      BY <1>18, <2>1, LeastNumber
    <2>3. j # 0
      BY <1>16, <2>2
    <2>4. j - 1 \in Nat /\ (j - 1) + 1 = j /\ j <= ne /\ j - 1 \in 0 .. ne /\ j - 1 \notin Bad
      BY <1>2, <2>2, <2>3
    <2>5. Good(j - 1)
      BY <2>4
    <2>6. Good((j - 1) + 1)
      BY <1>17, <2>4, <2>5
    <2> QED
      BY <2>2, <2>4, <2>6
  <1>19. Good(ne)
    BY <1>2, <1>18
  <1>20. Rest(ne) = m.extra
    BY <1>1 DEF Size
  <1>21. f[6 + nt + ne].meta = Mk(m.id, m.parent, m.position, m.kind, m.tags, m.archived, m.extra)
    <2>1. f[6 + nt + ne] = Acc(Mk(m.id, m.parent, m.position, m.kind, m.tags, m.archived, m.extra), state(ne))
      BY <1>19, <1>20 DEF Good
    <2> HIDE DEF state
    <2> QED
      BY <2>1 DEF Acc
  <1> QED
    BY <1>1, <1>21

\* A block b of n lines is what lies between the markers in L.
Between(b, L, n, nt, ne) ==
    n = 6 + nt + ne /\ b \in Seq(SourceLine) /\ Len(b) = n /\ \A k \in 1 .. n : b[k] = L[k + 1]

\* The block a save writes is read back as the fields it was written from.
LEMMA BlockReadBack ==
    ASSUME NEW m, Fields(m), Extra(m.extra), NEW nt, NEW ne, Size(m, nt, ne), NEW L, Written(L, m, nt, ne),
           NEW b, NEW n, Between(b, L, n, nt, ne)
    PROVE  ParseBlock(b) = m
  <1>1. n = 6 + nt + ne /\ b \in Seq(SourceLine) /\ Len(b) = n /\ \A k \in 1 .. n : b[k] = L[k + 1]
    BY DEF Between
  <1>2. PICK f : Folds(b, n, f) /\ ParseBlock(b) = f[n].meta
    BY <1>1, ParseBlockFold
  <1>3. n \in Nat
    BY <1>1
  <1>4. Steps(f, L, n)
    BY <1>1, <1>2, <1>3, FoldSteps
  <1>5. f[6 + nt + ne].meta = m
    BY <1>1, <1>4, StepsReadBack
  <1> QED
    BY <1>1, <1>2, <1>5

\* A page that a save may write.
Writable(p) ==
    /\ p = [managed |-> TRUE, meta |-> p.meta, body |-> p.body]
    /\ Fields(p.meta) /\ Extra(p.meta.extra) /\ p.body \in Seq(SourceLine)

\* No line before the closing marker closes the block.
LEMMA OpenTill ==
    ASSUME NEW m, Extra(m.extra), NEW nt \in Nat, NEW ne \in Nat, Size(m, nt, ne), NEW L, Written(L, m, nt, ne),
           NEW k \in 2 .. 7 + nt + ne
    PROVE  L[k].is # "close"
  <1>1. \/ k \in 2 .. 6 \/ k = 7 + nt
        \/ \E t \in 1 .. nt : k = 6 + t
        \/ \E e \in 1 .. ne : k = 7 + nt + e
    <2>1. CASE k \in 7 .. 6 + nt
      <3>1. k - 6 \in 1 .. nt /\ k = 6 + (k - 6)
        BY <2>1
      <3> QED
        BY <3>1
    <2>2. CASE k \in 8 + nt .. 7 + nt + ne
      <3>1. k - (7 + nt) \in 1 .. ne /\ k = 7 + nt + (k - (7 + nt))
        BY <2>2
      <3> QED
        BY <3>1
    <2>3. k \in 2 .. 6 \/ k = 7 + nt \/ k \in 7 .. 6 + nt \/ k \in 8 + nt .. 7 + nt + ne
      OBVIOUS
    <2> QED
      BY <2>1, <2>2, <2>3
  <1>2. CASE k \in 2 .. 6
    <2>1. k = 2 \/ k = 3 \/ k = 4 \/ k = 5 \/ k = 6
      BY <1>2
    <2>2. /\ L[2] = FieldLine("id", m.id) /\ L[3] = FieldLine("parent", ParentText(m.parent))
          /\ L[4] = FieldLine("position", m.position) /\ L[5] = FieldLine("kind", m.kind)
          /\ L[6] = FieldLine("tags", TagsText(nt))
      BY DEF Written
    <2>3. \A key, v : FieldLine(key, v).is = "field"
      BY DEF FieldLine, Line
    <2> QED
      BY <2>1, <2>2, <2>3
  <1>3. CASE k = 7 + nt
    <2>1. L[k] = FieldLine("archived", ArchivedText(m.archived))
      BY <1>3 DEF Written
    <2> QED
      BY <2>1 DEF FieldLine, Line
  <1>4. ASSUME NEW t \in 1 .. nt, k = 6 + t PROVE L[k].is # "close"
    <2>1. L[k] = TagLine(m.tags[t])
      BY <1>4 DEF Written
    <2>2. \A v : TagLine(v).is = "item"
      BY DEF TagLine, Line
    <2> QED
      BY <2>1, <2>2
  <1>5. ASSUME NEW e \in 1 .. ne, k = 7 + nt + e PROVE L[k].is # "close"
    <2>1. L[k] = m.extra[e]
      BY <1>5 DEF Written
    <2>2. m.extra[e].is # "close"
      BY DEF Extra, Size
    <2> QED
      BY <2>1, <2>2
  <1> QED
    BY <1>1, <1>2, <1>3, <1>4, <1>5

\* The lines below the first c.
LEMMA LinesBelow ==
    ASSUME NEW F \in Seq(SourceLine), NEW c \in Nat, NEW z \in Nat, Len(F) = c + z,
           NEW after, after = SubSeq(F, c + 1, Len(F))
    PROVE  after \in Seq(SourceLine) /\ Len(after) = z /\ \A k \in 1 .. z : after[k] = F[c + k]
  <1>1. PICK a, n : a = c + 1 /\ n = Len(F)
    OBVIOUS
  <1>2. a \in Nat /\ n \in Nat /\ 1 <= a /\ a <= n + 1 /\ n - a + 1 = z
    BY <1>1
  <1>3. after = SubSeq(F, a, n) /\ \A k \in a .. n : k \in 1 .. Len(F)
    BY <1>1
  <1>4. after \in Seq(SourceLine) /\ Len(after) = z
    BY <1>2, <1>3
  <1>5. ASSUME NEW k \in 1 .. z PROVE after[k] = F[c + k]
    <2>1. k \in 1 .. n - a + 1 /\ a + k - 1 = c + k
      BY <1>1, <1>2
    <2>2. after[k] = F[a + k - 1]
      BY <1>2, <1>3, <2>1
    <2> QED
      BY <2>1, <2>2
  <1> QED
    BY <1>4, <1>5

\* A page a save writes is read back as it was written.
LEMMA PageReadBack ==
    ASSUME NEW p, Writable(p)
    PROVE  /\ SerializeSource(p) \in Seq(SourceLine) /\ Closing(SerializeSource(p)) > 0
           /\ ParseSource(SerializeSource(p)) = p
  <1> DEFINE m == p.meta
             body == p.body
             L == SerializeMetadata(m)
             rest == IF body = <<>> THEN <<>> ELSE <<Blank>> \o body
             F == SerializeSource(p)
  <1>1. Fields(m) /\ Extra(m.extra) /\ body \in Seq(SourceLine) /\ p.managed
    BY DEF Writable
  <1>2. PICK nt, ne : nt = Len(m.tags) /\ ne = Len(m.extra)
    OBVIOUS
  <1>3. nt \in Nat /\ ne \in Nat /\ Size(m, nt, ne)
    BY <1>1, <1>2, MetadataLines DEF Size
  <1>4. /\ L \in Seq(SourceLine) /\ Len(L) = 8 + nt + ne
        /\ L[1] = Line("open", "", <<>>, FALSE) /\ L[8 + nt + ne] = Line("close", "", <<>>, FALSE)
    BY <1>1, <1>2, MetadataLines
  <1>5. Written(L, m, nt, ne)
    BY <1>1, <1>2, MetadataLines DEF Written
  <1>6. F = L \o rest
    BY <1>1 DEF SerializeSource
  <1>7. Blank \in SourceLine /\ Blank.is = "blank" /\ L[1].is = "open" /\ L[8 + nt + ne].is = "close"
    <2>1. "" \in Key
      BY SourceAssumption
    <2> DEFINE none == <<>>
               no == FALSE
    <2>2. none \in Seq(Piece) /\ no \in BOOLEAN /\ Blank = Line("blank", "", none, no)
      BY DEF Blank
    <2> HIDE DEF none, no
    <2>3. Line("blank", "", none, no) \in SourceLine /\ Line("blank", "", none, no).is = "blank"
      BY <2>1, <2>2 DEF Line, SourceLine
    <2>4. Blank \in SourceLine /\ Blank.is = "blank"
      BY <2>2, <2>3
    <2>5. Line("open", "", <<>>, FALSE).is = "open" /\ Line("close", "", <<>>, FALSE).is = "close"
      BY DEF Line
    <2> HIDE DEF L
    <2> QED
      BY <1>4, <2>4, <2>5
  <1> HIDE DEF m, L, F
  <1>8. PICK c : c = 8 + nt + ne
    OBVIOUS
  <1>9. /\ rest \in Seq(SourceLine)
        /\ body = <<>> => rest = <<>>
        /\ body # <<>> => rest # <<>> /\ rest[1].is = "blank" /\ Tail(rest) = body
    <2>1. CASE body = <<>>
      BY <2>1
    <2>2. CASE body # <<>>
      <3> DEFINE one == <<Blank>>
                 r == one \o body
      <3>1. one \in Seq(SourceLine) /\ Len(one) = 1 /\ one[1] = Blank
        BY <1>7, Single
      <3> HIDE DEF one, body
      <3>2. Joined(r, one, body, 1, Len(body))
        BY <1>1, <3>1, Concat
      <3> HIDE DEF r
      <3>3. /\ r \in Seq(SourceLine) /\ Len(r) = 1 + Len(body) /\ Len(body) \in Nat
            /\ \A k \in 1 .. Len(body) : r[1 + k] = body[k]
        BY <1>1, <3>2 DEF Joined
      <3>4. r[1] = Blank
        <4>1. 1 \in 1 .. 1
          OBVIOUS
        <4> QED
          BY <3>1, <3>2, <4>1 DEF Joined
      <3>5. r # <<>>
        BY <3>3
      <3>6. Tail(r) \in Seq(SourceLine) /\ Len(Tail(r)) = Len(body)
        BY <3>3, <3>5
      <3>7. \A k \in 1 .. Len(body) : Tail(r)[k] = body[k]
        BY <3>3, <3>5, <3>6
      <3>8. Tail(r) = body
        BY <1>1, <3>6, <3>7
      <3> QED
        BY <1>7, <2>2, <3>3, <3>4, <3>5, <3>8 DEF r, one, body
    <2> QED
      BY <2>1, <2>2
  <1> HIDE DEF rest, body
  <1>10. Joined(F, L, rest, c, Len(rest))
    BY <1>4, <1>6, <1>8, <1>9, Concat
  <1>11. /\ F \in Seq(SourceLine) /\ Len(F) = c + Len(rest) /\ Len(rest) \in Nat
         /\ \A k \in 1 .. c : F[k] = L[k]
         /\ \A k \in 1 .. Len(rest) : F[c + k] = rest[k]
    BY <1>9, <1>10 DEF Joined
  <1>12. c \in Nat /\ c >= 8 /\ 1 \in 1 .. c /\ c \in 1 .. c
    BY <1>3, <1>8
  <1>13. Opening(F) = 1
    <2>1. F[1].is = "open" /\ Len(F) > 0
      BY <1>7, <1>11, <1>12
    <2> QED
      BY <1>11, <2>1, OpeningFacts
  <1>14. Closing(F) = c
    <2>1. F[c].is = "close"
      BY <1>7, <1>8, <1>11, <1>12
    <2>2. ASSUME NEW k \in 2 .. c - 1 PROVE F[k].is # "close"
      <3>1. k \in 2 .. 7 + nt + ne /\ k \in 1 .. c
        BY <1>3, <1>8
      <3>2. L[k].is # "close"
        BY <1>1, <1>3, <1>5, <3>1, OpenTill DEF m
      <3> QED
        BY <1>11, <3>1, <3>2
    <2>3. Opening(F) + 1 = 2 /\ Opening(F) > 0 /\ c \in 2 .. Len(F)
      BY <1>11, <1>12, <1>13
    <2> QED
      BY <1>11, <2>1, <2>2, <2>3, ClosingFacts
  <1>15. ParseBlock(BlockOf(F)) = m
    <2> DEFINE b == SubSeq(F, 2, c - 1)
    <2>1. BlockOf(F) = b
      BY <1>13, <1>14 DEF BlockOf
    <2>2. b \in Seq(SourceLine) /\ Len(b) = c - 2 /\ \A k \in 1 .. c - 2 : b[k] = F[k + 1]
      BY <1>11, <1>12
    <2> HIDE DEF b
    <2>3. PICK n : n = c - 2
      OBVIOUS
    <2>4. n = 6 + nt + ne /\ Len(b) = n
      BY <1>3, <1>8, <2>2, <2>3
    <2>5. \A k \in 1 .. n : b[k] = L[k + 1]
      BY <1>11, <1>12, <2>2, <2>3
    <2>6. Fields(m) /\ Extra(m.extra)
      BY <1>1 DEF m
    <2>7. ParseBlock(b) = m
      <3>1. Between(b, L, n, nt, ne)
        BY <2>2, <2>4, <2>5 DEF Between
      <3> QED
        BY ONLY <1>3, <1>5, <2>6, <3>1, BlockReadBack
    <2> QED
      BY <2>1, <2>7
  <1>16. BodyOf(F) = body
    <2> DEFINE after == SubSeq(F, c + 1, Len(F))
    <2>1. after \in Seq(SourceLine) /\ Len(after) = Len(rest) /\ \A k \in 1 .. Len(rest) : after[k] = F[c + k]
      <3>1. PICK z : z = Len(rest)
        OBVIOUS
      <3>2. z \in Nat /\ Len(F) = c + z
        BY <1>11, <3>1
      <3> HIDE DEF after
      <3>3. after \in Seq(SourceLine) /\ Len(after) = z /\ \A k \in 1 .. z : after[k] = F[c + k]
        BY <1>11, <1>12, <3>2, LinesBelow DEF after
      <3> QED
        BY <3>1, <3>3
    <2>2. BodyOf(F) = IF after # <<>> /\ after[1].is = "blank" THEN Tail(after) ELSE after
      BY <1>14 DEF BodyOf
    <2> HIDE DEF after
    <2>3. after = rest
      BY <1>9, <1>11, <2>1, SMTT(20)
    <2> QED
      BY <1>9, <2>2, <2>3
  <1>17. ParseSource(F) = [managed |-> TRUE, meta |-> m, body |-> body]
    BY <1>12, <1>14, <1>15, <1>16 DEF ParseSource
  <1> QED
    BY <1>11, <1>12, <1>14, <1>17 DEF F, m, body, Writable

\* A file that has a block is read to such a page, and its unknown lines are in that page.
LEMMA ParsedWritable ==
    ASSUME NEW F \in Seq(SourceLine), Closing(F) > 0
    PROVE  /\ Writable(ParseSource(F)) /\ ParseSource(F).managed
           /\ ParseSource(F).meta.extra = UnknownLines(F)
           /\ ParseSource(F).body = BodyOf(F)
  <1> DEFINE b == BlockOf(F)
             p == ParseSource(F)
  <1>1. b \in Seq(SourceLine) /\ BodyOf(F) \in Seq(SourceLine) /\ \A k \in 1 .. Len(b) : b[k].is # "close"
    BY PartsOfFile
  <1>2. Closing(F) # 0
    OBVIOUS
  <1>3. p = [managed |-> TRUE, meta |-> ParseBlock(b), body |-> BodyOf(F)]
    BY <1>2 DEF ParseSource
  <1>4. UnknownLines(F) = UnknownOf(b)
    BY DEF UnknownLines, UnknownOf
  <1> HIDE DEF b, p
  <1>5. Fields(ParseBlock(b)) /\ Extra(ParseBlock(b).extra) /\ ParseBlock(b).extra = UnknownOf(b)
    BY <1>1, BlockReads
  <1>6. Writable(p) /\ p.managed /\ p.meta.extra = UnknownOf(b) /\ p.body = BodyOf(F)
    BY <1>1, <1>3, <1>5 DEF Writable
  <1> QED
    BY <1>4, <1>6 DEF p

-----------------------------------------------------------------------------
(* The file and the page *)

SourceInv ==
    /\ file \in Seq(SourceLine) /\ loaded \in Seq(SourceLine) /\ byHand \in Seq(SourceLine)
    /\ Closing(byHand) > 0 => Closing(file) > 0
    /\ UnknownLinesStay

\* A save of such a page.
LEMMA SaveWrites ==
    ASSUME NEW p, Writable(p), Save(p)
    PROVE  /\ file' \in Seq(SourceLine) /\ loaded' \in Seq(SourceLine) /\ Closing(file') > 0
           /\ UnknownLines(file') = p.meta.extra /\ BodyOf(file') = p.body
           /\ written' = p /\ ParseSource(file') = p /\ SerializeSource(ParseSource(file')) = file'
           /\ byHand' = byHand
  <1>1. file' = SerializeSource(p) /\ loaded' = file' /\ written' = p /\ byHand' = byHand
    BY DEF Save
  <1>2. file' \in Seq(SourceLine) /\ Closing(file') > 0 /\ ParseSource(file') = p
    BY <1>1, PageReadBack
  <1>3. UnknownLines(file') = p.meta.extra /\ BodyOf(file') = p.body
    BY <1>2, ParsedWritable
  <1> QED
    BY <1>1, <1>2, <1>3

\* A page that is written with other fields, another body or both.
MovedTo(w, d, e) == [w EXCEPT !.meta.parent = d, !.meta.position = e]
MovedMeta(b, d, e) == [b EXCEPT !.parent = d, !.position = e]
Retagged(w, d, e) == [w EXCEPT !.body = d, !.meta.tags = e]
RetaggedMeta(b, e) == [b EXCEPT !.tags = e]

\* A page with another body,
LEMMA BodyReplaced ==
    ASSUME NEW a, NEW b, NEW c, NEW d, NEW w, w = [managed |-> a, meta |-> b, body |-> c]
    PROVE  [w EXCEPT !.body = d] = [managed |-> a, meta |-> b, body |-> d]
  OBVIOUS

\* with other fields,
LEMMA MetaSet ==
    ASSUME NEW a, NEW b, NEW c, NEW d, NEW w, w = [managed |-> a, meta |-> b, body |-> c]
    PROVE  [w EXCEPT !.meta = d] = [managed |-> a, meta |-> d, body |-> c]
  OBVIOUS

\* as a move changes them,
LEMMA MetaReplaced ==
    ASSUME NEW a, NEW b, NEW c, NEW w, w = [managed |-> a, meta |-> b, body |-> c], NEW d, NEW e
    PROVE  MovedTo(w, d, e) = [managed |-> a, meta |-> MovedMeta(b, d, e), body |-> c]
  <1> DEFINE one == [b EXCEPT !.parent = d]
             two == [one EXCEPT !.position = e]
             u == [w EXCEPT !.meta = one]
  <1>1. w.meta = b
    OBVIOUS
  <1>2. u = [managed |-> a, meta |-> one, body |-> c]
    <2> HIDE DEF one
    <2> QED
      BY MetaSet
  <1>3. u.meta = one
    <2> HIDE DEF one, u
    <2> QED
      BY <1>2
  <1>4. [w EXCEPT !.meta.parent = d, !.meta.position = e]
           = [[w EXCEPT !.meta = [w.meta EXCEPT !.parent = d]]
                 EXCEPT !.meta = [[w EXCEPT !.meta = [w.meta EXCEPT !.parent = d]].meta EXCEPT !.position = e]]
    OBVIOUS
  <1>5. [w EXCEPT !.meta.parent = d, !.meta.position = e] = [u EXCEPT !.meta = [u.meta EXCEPT !.position = e]]
    BY <1>1, <1>4, Zenon
  <1>6. [u EXCEPT !.meta = two] = [managed |-> a, meta |-> two, body |-> c]
    <2> HIDE DEF one, two, u
    <2> QED
      BY <1>2, MetaSet
  <1>7. two = [b EXCEPT !.parent = d, !.position = e]
    OBVIOUS
  <1> QED
    BY <1>3, <1>5, <1>6, <1>7, Zenon DEF MovedTo, MovedMeta

\* and as the edit form does.
LEMMA TagsReplaced ==
    ASSUME NEW a, NEW b, NEW c, NEW w, w = [managed |-> a, meta |-> b, body |-> c], NEW d, NEW e
    PROVE  Retagged(w, d, e) = [managed |-> a, meta |-> RetaggedMeta(b, e), body |-> d]
  <1> DEFINE one == [b EXCEPT !.tags = e]
             u == [w EXCEPT !.body = d]
  <1>1. u = [managed |-> a, meta |-> b, body |-> d]
    BY BodyReplaced
  <1>2. u.meta = b
    <2> HIDE DEF u
    <2> QED
      BY <1>1
  <1>3. [w EXCEPT !.body = d, !.meta.tags = e]
           = [[w EXCEPT !.body = d] EXCEPT !.meta = [[w EXCEPT !.body = d].meta EXCEPT !.tags = e]]
    OBVIOUS
  <1>4. [u EXCEPT !.meta = one] = [managed |-> a, meta |-> one, body |-> d]
    <2> HIDE DEF one, u
    <2> QED
      BY <1>1, MetaSet
  <1> QED
    BY <1>2, <1>3, <1>4, Zenon DEF Retagged, RetaggedMeta

\* A page with a block can be written after a move,
LEMMA MovedWritable ==
    ASSUME NEW q, Writable(q), NEW d \in Parents
    PROVE  LET p == MovedTo(q, d, <<"7">>)
           IN  Writable(p) /\ p.meta.extra = q.meta.extra /\ p.body = q.body
  <1> DEFINE seven == <<"7">>
             m == q.meta
             n == MovedMeta(m, d, seven)
             p == MovedTo(q, d, seven)
             yes == TRUE
  <1>1. Fields(m) /\ m \in Meta /\ Extra(m.extra) /\ q = [managed |-> yes, meta |-> m, body |-> q.body]
        /\ q.body \in Seq(SourceLine)
    BY DEF Writable, Fields
  <1>2. Clean(d) /\ d # <<"null">> /\ d \in Seq(Piece) /\ seven \in Positions
    BY SourceAssumption DEF Positions, Clean
  <1> HIDE DEF m, seven, yes
  <1>3. p = [managed |-> yes, meta |-> n, body |-> q.body]
    BY <1>1, MetaReplaced
  <1>4. Fields(n) /\ n.extra = m.extra
    BY <1>1, <1>2 DEF Fields, Meta, MovedMeta
  <1> HIDE DEF n, p
  <1>5. Writable(p) /\ p.meta.extra = m.extra /\ p.body = q.body
    BY <1>1, <1>3, <1>4 DEF Writable, yes
  <1> QED
    BY <1>5 DEF p, m, seven

\* and after an edit; its unknown lines are the ones it had.
LEMMA RetaggedWritable ==
    ASSUME NEW q, Writable(q), NEW body \in Texts, NEW tags \in TagLists
    PROVE  LET p == Retagged(q, body, tags)
           IN  Writable(p) /\ p.meta.extra = q.meta.extra /\ p.body = body
  <1> DEFINE m == q.meta
             n == RetaggedMeta(m, tags)
             p == Retagged(q, body, tags)
             yes == TRUE
  <1>1. Fields(m) /\ m \in Meta /\ Extra(m.extra) /\ q = [managed |-> yes, meta |-> m, body |-> q.body]
    BY DEF Writable, Fields
  <1>2. body \in Seq(SourceLine) /\ tags \in Seq(Seq(Piece)) /\ \A t \in 1 .. Len(tags) : Clean(tags[t])
    <2>1. body \in Seq(SourceLine)
      BY SourceAssumption
    <2>2. tags \in Seq(Seq(Piece)) /\ \A t \in DOMAIN tags : Clean(tags[t])
      BY SourceAssumption
    <2>3. DOMAIN tags = 1 .. Len(tags)
      BY <2>2
    <2> QED
      BY <2>1, <2>2, <2>3
  <1> HIDE DEF m, yes
  <1>3. p = [managed |-> yes, meta |-> n, body |-> body]
    BY <1>1, TagsReplaced
  <1>4. Fields(n) /\ n.extra = m.extra
    BY <1>1, <1>2 DEF Fields, Meta, RetaggedMeta
  <1> HIDE DEF n, p
  <1>5. Writable(p) /\ p.meta.extra = m.extra /\ p.body = body
    BY <1>1, <1>2, <1>3, <1>4 DEF Writable, yes
  <1> QED
    BY <1>5 DEF p, m

\* What a change by the program writes, on a page with a block and on one without.
LEMMA ManagedPage ==
    ASSUME loaded \in Seq(SourceLine)
    PROVE  /\ WikiPage.managed <=> Closing(loaded) > 0
           /\ WikiPage.managed => /\ Writable(WikiPage) /\ WikiPage.meta.extra = UnknownLines(loaded)
                                  /\ WikiPage.body = BodyOf(loaded)
           /\ ~WikiPage.managed => WikiPage = [managed |-> FALSE, meta |-> Fresh, body |-> loaded]
  <1>1. Closing(loaded) \in Nat
    BY ClosingFacts, OpeningFacts
  <1>2. CASE Closing(loaded) > 0
    BY <1>2, ParsedWritable DEF WikiPage
  <1>3. CASE Closing(loaded) = 0
    <2>1. WikiPage = [managed |-> FALSE, meta |-> Fresh, body |-> loaded]
      BY <1>3 DEF WikiPage, ParseSource
    <2> QED
      BY <1>3, <2>1
  <1> QED
    BY <1>1, <1>2, <1>3

\* A file that was just read is as a person left it.
LEMMA SourceInvInit == SourceInit => SourceInv
  <1> SUFFICES ASSUME SourceInit PROVE SourceInv
    OBVIOUS
  <1>1. file \in Seq(SourceLine) /\ loaded = file /\ byHand = file /\ text = ParseSource(file).body
    BY SourceAssumption DEF SourceInit
  <1>2. Closing(byHand) > 0 => BodyOf(file) = text
    BY <1>1, ParsedWritable
  <1> QED
    BY <1>1, <1>2 DEF SourceInv, UnknownLinesStay

\* Inserting and removing a line leaves lines.
LEMMA EditedLines ==
    ASSUME NEW F \in Seq(SourceLine)
    PROVE  /\ \A k \in 1 .. (Len(F) + 1), l \in SourceLine : InsertAt(F, k, l) \in Seq(SourceLine)
           /\ \A k \in DOMAIN F : RemoveAt(F, k) \in Seq(SourceLine)
  <1>1. ASSUME NEW k \in 1 .. (Len(F) + 1), NEW l \in SourceLine PROVE InsertAt(F, k, l) \in Seq(SourceLine)
    <2> DEFINE a == SubSeq(F, 1, k - 1)
               b == <<l>>
               c == SubSeq(F, k, Len(F))
    <2>1. a \in Seq(SourceLine) /\ b \in Seq(SourceLine) /\ c \in Seq(SourceLine)
      OBVIOUS
    <2>2. InsertAt(F, k, l) = a \o b \o c
      BY DEF InsertAt
    <2> HIDE DEF a, b, c
    <2>3. a \o b \in Seq(SourceLine)
      BY <2>1
    <2>4. (a \o b) \o c \in Seq(SourceLine)
      BY <2>1, <2>3
    <2> QED
      BY <2>2, <2>4
  <1>2. ASSUME NEW k \in DOMAIN F PROVE RemoveAt(F, k) \in Seq(SourceLine)
    <2> DEFINE a == SubSeq(F, 1, k - 1)
               c == SubSeq(F, k + 1, Len(F))
    <2>1. a \in Seq(SourceLine) /\ c \in Seq(SourceLine)
      OBVIOUS
    <2>2. RemoveAt(F, k) = a \o c
      BY DEF RemoveAt
    <2> HIDE DEF a, c
    <2> QED
      BY <2>1, <2>2
  <1> QED
    BY <1>1, <1>2

\* What a change by the program does, seen from the page it writes.
LEMMA MoveStep ==
    ASSUME SourceInv, MovePage
    PROVE  /\ SourceInv' /\ text' = text
           /\ ParseSource(file') = written' /\ SerializeSource(ParseSource(file')) = file'
  <1>1. PICK d \in Parents : Save(MovedTo(WikiPage, d, <<"7">>))
    BY DEF MovePage, MovedTo
  <1> DEFINE p == MovedTo(WikiPage, d, <<"7">>)
  <1>2. file = loaded /\ loaded \in Seq(SourceLine) /\ WikiPage.managed /\ text' = text
    BY <1>1 DEF MovePage, Save, SourceInv
  <1>3. Writable(WikiPage) /\ WikiPage.meta.extra = UnknownLines(file) /\ WikiPage.body = BodyOf(file)
    BY <1>2, ManagedPage
  <1>4. Writable(p) /\ p.meta.extra = UnknownLines(file) /\ p.body = BodyOf(file)
    BY <1>3, MovedWritable
  <1> HIDE DEF p
  <1>5. /\ file' \in Seq(SourceLine) /\ loaded' \in Seq(SourceLine) /\ Closing(file') > 0
        /\ UnknownLines(file') = UnknownLines(file) /\ BodyOf(file') = BodyOf(file)
        /\ written' = p /\ ParseSource(file') = p /\ SerializeSource(ParseSource(file')) = file'
        /\ byHand' = byHand
    <2>1. Save(p)
      BY <1>1 DEF p
    <2> QED
      BY <1>4, <2>1, SaveWrites
  <1>6. SourceInv'
    BY <1>2, <1>5 DEF SourceInv, UnknownLinesStay
  <1> QED
    BY <1>2, <1>5, <1>6

\* An edit with the form: the text typed is the body then, with a block or without one.
LEMMA WriteStep ==
    ASSUME SourceInv, WriteBody
    PROVE  /\ SourceInv'
           /\ written'.managed => ParseSource(file') = written' /\ SerializeSource(ParseSource(file')) = file'
  <1>1. PICK body \in Texts :
           /\ \/ ~WikiPage.managed /\ Save([WikiPage EXCEPT !.body = body])
              \/ /\ WikiPage.managed
                 /\ \E tags \in TagLists : Save(Retagged(WikiPage, body, tags))
           /\ text' = body
    BY DEF WriteBody, Retagged
  <1>2. file = loaded /\ loaded \in Seq(SourceLine) /\ body \in Seq(SourceLine)
    BY <1>1, SourceAssumption DEF Save, SourceInv
  <1>3. CASE WikiPage.managed
    <2>1. PICK tags \in TagLists : Save(Retagged(WikiPage, body, tags))
      BY <1>1, <1>3
    <2> DEFINE p == Retagged(WikiPage, body, tags)
    <2>2. Writable(WikiPage) /\ WikiPage.meta.extra = UnknownLines(file)
      BY <1>2, <1>3, ManagedPage
    <2>3. Writable(p) /\ p.meta.extra = UnknownLines(file) /\ p.body = body
      BY <2>2, RetaggedWritable
    <2> HIDE DEF p
    <2>4. /\ file' \in Seq(SourceLine) /\ loaded' \in Seq(SourceLine) /\ Closing(file') > 0
          /\ UnknownLines(file') = UnknownLines(file) /\ BodyOf(file') = body
          /\ written' = p /\ ParseSource(file') = p /\ SerializeSource(ParseSource(file')) = file'
          /\ byHand' = byHand
      <3>1. Save(p)
        BY <2>1 DEF p
      <3> QED
        BY <2>3, <3>1, SaveWrites
    <2>5. SourceInv'
      BY <1>1, <2>4 DEF SourceInv, UnknownLinesStay
    <2> QED
      BY <2>4, <2>5
  <1>4. CASE ~WikiPage.managed
    <2>1. Save([WikiPage EXCEPT !.body = body])
      BY <1>1, <1>4
    <2>2. WikiPage = [managed |-> FALSE, meta |-> Fresh, body |-> loaded] /\ ~(Closing(file) > 0)
      BY <1>2, <1>4, ManagedPage
    <2>3. [WikiPage EXCEPT !.body = body] = [managed |-> FALSE, meta |-> Fresh, body |-> body]
      <3> DEFINE no == FALSE
      <3>1. WikiPage = [managed |-> no, meta |-> Fresh, body |-> loaded]
        BY <2>2
      <3> HIDE DEF no
      <3>2. [WikiPage EXCEPT !.body = body] = [managed |-> no, meta |-> Fresh, body |-> body]
        BY <3>1, BodyReplaced
      <3> QED
        BY <3>2 DEF no
    <2>4. file' = body /\ loaded' = body /\ ~written'.managed /\ byHand' = byHand
      BY <2>1, <2>3 DEF Save, SerializeSource
    <2>5. ~(Closing(byHand) > 0)
      BY <2>2 DEF SourceInv
    <2>6. SourceInv'
      BY <1>2, <2>4, <2>5 DEF SourceInv, UnknownLinesStay
    <2> QED
      BY <2>4, <2>6
  <1> QED
    BY <1>3, <1>4

\* Every step keeps the unknown lines and the body.
LEMMA SourceInvNext == SourceInv /\ [SourceNext]_sourceVars => SourceInv'
  <1> SUFFICES ASSUME SourceInv, [SourceNext]_sourceVars PROVE SourceInv'
    OBVIOUS
  <1>1. CASE EditByHand
    <2>1. file' \in Seq(SourceLine)
      BY <1>1, SourceAssumption, EditedLines DEF EditByHand, SourceInv
    <2>2. byHand' = file' /\ text' = ParseSource(file').body /\ loaded' = loaded
      BY <1>1 DEF EditByHand
    <2>3. Closing(byHand') > 0 => BodyOf(file') = text'
      BY <2>1, <2>2, ParsedWritable
    <2> QED
      BY <2>1, <2>2, <2>3 DEF SourceInv, UnknownLinesStay
  <1>2. CASE Load
    BY <1>2 DEF Load, SourceInv, UnknownLinesStay
  <1>3. CASE MovePage
    BY <1>3, MoveStep
  <1>4. CASE WriteBody
    BY <1>4, WriteStep
  <1>5. CASE UNCHANGED sourceVars
    BY <1>5 DEF sourceVars, SourceInv, UnknownLinesStay
  <1> QED
    BY <1>1, <1>2, <1>3, <1>4, <1>5 DEF SourceNext

\* The invariant of the file and the page.
LEMMA SourceInvAlways == SourceSpec => []SourceInv
  BY SourceInvInit, SourceInvNext, PTL DEF SourceSpec

\* Whatever the program changes on a page, and however often: the lines of the block it has no rule
\* for are in the file, in their order, and the body is the one last written by a person.
THEOREM UnknownLinesAlwaysStay == SourceSpec => []UnknownLinesStay
  <1>1. SourceInv => UnknownLinesStay
    BY DEF SourceInv
  <1> QED
    BY <1>1, SourceInvAlways, PTL

\* Every page a save writes is read back as it was meant, and writing it again changes nothing.
THEOREM AlwaysReadAsSaved == SourceSpec => ReadAsSaved
  <1>1. ASSUME SourceInv, [SourceNext]_sourceVars, changes' # changes, written'.managed
        PROVE  ParseSource(file') = written' /\ SerializeSource(ParseSource(file')) = file'
    <2>1. CASE EditByHand
      BY <1>1, <2>1 DEF EditByHand
    <2>2. CASE Load
      BY <1>1, <2>2 DEF Load
    <2>3. CASE MovePage
      BY <1>1, <2>3, MoveStep
    <2>4. CASE WriteBody
      BY <1>1, <2>4, WriteStep
    <2>5. CASE UNCHANGED sourceVars
      BY <1>1, <2>5 DEF sourceVars
    <2> QED
      BY <1>1, <2>1, <2>2, <2>3, <2>4, <2>5 DEF SourceNext
  <1>2. SourceInv /\ [SourceNext]_sourceVars =>
           [changes' # changes /\ written'.managed =>
               ParseSource(file') = written' /\ SerializeSource(ParseSource(file')) = file']_sourceVars
    BY <1>1
  <1> QED
    BY <1>2, SourceInvAlways, PTL DEF SourceSpec, ReadAsSaved
==============================================================================
