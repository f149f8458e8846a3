---------------------------- MODULE ServerProofs -----------------------------
(***************************************************************************)
(* Proofs about Server, for any number of clients, pages, requests and     *)
(* changes by hand: a move starts from where its form showed the page, and *)
(* the pages stay a forest, whatever the order of creations, moves and     *)
(* deletions by forms that may be out of date.                             *)
(***************************************************************************)
EXTENDS Server, FiniteSetTheorems, TLAPS

\* What a handler leaves behind: the pages as they were, or a folder loaded again.
LEMMA Served ==
    ASSUME Handle
    PROVE  UNCHANGED <<disk, loaded, touched>> \/ \E d : Reloaded(d)
  <1>1. CASE Get \/ NotAllowed \/ PostAttach
    BY <1>1 DEF Get, NotAllowed, PostAttach, store
  <1>2. CASE PostNew
    BY <1>2 DEF PostNew, store
  <1>3. CASE PostDelete
    BY <1>3 DEF PostDelete, store
  <1>4. CASE PostMove
    BY <1>4 DEF PostMove, store
  <1>5. CASE PostReload
    BY <1>5 DEF PostReload
  <1> QED
    BY <1>1, <1>2, <1>3, <1>4, <1>5 DEF Handle

\* Clients, time and what is read of a request leave the store alone.
LEMMA StoreSteps ==
    ASSUME Next
    PROVE  EditByHand \/ Handle \/ UNCHANGED store
  <1>1. ASSUME NEW c \in Client, Open(c) \/ SubmitMove(c) \/ SubmitOther(c)
        PROVE  UNCHANGED store
    <2>1. \E r : Ask(c, r)
      BY <1>1 DEF Open, SubmitMove, SubmitOther
    <2> QED
      BY <2>1 DEF Ask, store
  <1>2. ASSUME NEW c \in Client, Send(c) \/ Close(c)
        PROVE  UNCHANGED store
    BY <1>2 DEF Send, Close, store
  <1>3. CASE Tick \/ Drip
    BY <1>3 DEF Tick, Drip, store
  <1>4. CASE Accept \/ ReadPieces \/ Drop \/ Refuse
    BY <1>4 DEF Accept, ReadPieces, Drop, Refuse, store
  <1> QED
    BY <1>1, <1>2, <1>3, <1>4 DEF Next, Serve

\* Every step keeps: what differs from what was loaded was changed by hand.
LEMMA OnlyTouchedDifferKept == OnlyTouchedDiffer /\ [Next]_vars => OnlyTouchedDiffer'
  <1> SUFFICES ASSUME OnlyTouchedDiffer, [Next]_vars PROVE OnlyTouchedDiffer'
    OBVIOUS
  <1>1. CASE UNCHANGED <<disk, loaded, touched>>
    BY <1>1 DEF OnlyTouchedDiffer
  <1>2. CASE \E d : Reloaded(d)
    BY <1>2 DEF Reloaded, OnlyTouchedDiffer
  <1>3. CASE EditByHand
    <2>1. PICK p \in DOMAIN disk \cap ByHand :
              /\ \/ \E q : disk' = [disk EXCEPT ![p].parent = q]
                 \/ disk' = Restrict(disk, DOMAIN disk \ {p})
              /\ touched' = touched \cup {p} /\ loaded' = loaded
      BY <1>3 DEF EditByHand
    <2>2. \A r \in Page \ {p} :
              /\ r \in DOMAIN disk' <=> r \in DOMAIN disk
              /\ r \in DOMAIN disk => disk'[r] = disk[r]
      BY <2>1 DEF Restrict
    <2> QED
      BY <2>1, <2>2 DEF OnlyTouchedDiffer
  <1>4. [Next]_vars => \/ EditByHand \/ Handle
                       \/ UNCHANGED <<disk, loaded, touched>>
    BY StoreSteps DEF vars, store
  <1> QED
    BY <1>1, <1>2, <1>3, <1>4, Served

\* The store knows of every file but those that changed by hand since its load,
\* whatever the handlers did (every store operation ends by loading the folder).
THEOREM LoadedIsKnown == Spec => []OnlyTouchedDiffer
  <1>1. Init => OnlyTouchedDiffer
    BY DEF Init, OnlyTouchedDiffer
  <1> QED
    BY <1>1, OnlyTouchedDifferKept, PTL DEF Spec

\* Only post_move ends a move's connection with the files changed.
LEMMA MovesByHandler ==
    ASSUME Next, NEW c \in Client, NEW p \in Page, Moves(c, p)
    PROVE  PostMove
  <1>1. /\ serving = c /\ request[c].kind = "move"
        /\ disk' # disk /\ request'[c] = NoRequest /\ request[c] # NoRequest
    BY DEF Moves, Connected, NoRequest
  <1>2. ~EditByHand
    BY <1>1 DEF EditByHand, conn
  <1>3. Handle
    BY <1>1, <1>2, StoreSteps DEF store
  <1> QED
    BY <1>1, <1>3 DEF Handle, Get, NotAllowed, PostNew, PostDelete, PostReload, PostAttach,
           Dispatched, store

\* A confirmed move starts from where its form showed the page (post_move's hidden
\* fields, plan_move's stale check), whichever tab or hand moved it since.
THEOREM MovesAreInformed == Spec => MoveFromWhatWasSeen
  <1>1. OnlyTouchedDiffer /\ [Next]_vars =>
            [\A c \in Client, p \in Page : Moves(c, p) => disk[p] = request[c].from]_vars
    <2> SUFFICES ASSUME OnlyTouchedDiffer, Next, NEW c \in Client, NEW p \in Page, Moves(c, p)
                 PROVE  disk[p] = request[c].from
      OBVIOUS
    <2>1. /\ serving = c /\ request[c].page = p
          /\ p \in DOMAIN disk /\ disk' # disk
      BY DEF Moves
    <2>2. StartsWhereTheFormSays(p) /\ PlanMove(p, request[c].to)
      BY <2>1, MovesByHandler DEF PostMove, store
    <2>3. request[c].from = loaded[p] /\ p \notin touched
      BY <2>1, <2>2 DEF StartsWhereTheFormSays, PlanMove, CheckNotStale, Subtree
    <2> QED
      BY <2>1, <2>3 DEF OnlyTouchedDiffer
  <1> QED
    BY <1>1, LoadedIsKnown, PTL DEF Spec, MoveFromWhatWasSeen

-----------------------------------------------------------------------------
(* Lines of ancestors *)

\* Every non-empty set of numbers has a least one.
LEMMA LeastNumber ==
    ASSUME NEW T, T \subseteq Nat, T # {}
    PROVE  \E x \in T : \A y \in T : x <= y
  <1> DEFINE R == OpToRel(<, Nat)
  <1>1. PICK x \in T : \A y \in T : <<y, x>> \notin R
    BY WFMin, NatLessThanWellFounded, Zenon
  <1>2. ASSUME NEW y \in T PROVE ~(y < x)
    BY <1>1 DEF OpToRel
  <1> QED
    BY <1>2

\* One step up, and what Ancestor defines: the first n steps up from p.
Up(t, x) == IF x \in DOMAIN t THEN t[x].parent ELSE NoPage
Climbs(t, p, n, f) == f = [k \in 0 .. n |-> IF k = 0 THEN p ELSE Up(t, f[k - 1])]

\* There is always a climb of n steps.
LEMMA ClimbExists ==
    ASSUME NEW t, NEW p, NEW n \in Nat
    PROVE  \E f : Climbs(t, p, n, f)
  <1> DEFINE Bad == {m \in Nat : ~\E f : Climbs(t, p, m, f)}
  <1>1. ASSUME Bad # {} PROVE FALSE
    <2>1. PICK m \in Bad : \A y \in Bad : m <= y
      BY <1>1, LeastNumber
    <2>2. m # 0
      <3> DEFINE g == [k \in 0 .. 0 |-> p]
      <3>1. Climbs(t, p, 0, g)
        BY DEF Climbs
      <3> QED
        BY <3>1
    <2>3. m - 1 \in Nat /\ m - 1 \notin Bad
      BY <2>1, <2>2
    <2>4. PICK f : Climbs(t, p, m - 1, f)
      BY <2>3
    <2> DEFINE g == [k \in 0 .. m |-> IF k = 0 THEN p ELSE Up(t, f[k - 1])]
    <2>5. \A k \in 0 .. m - 1 : g[k] = f[k]
      BY <2>3, <2>4 DEF Climbs
    <2>6. \A k \in 0 .. m : g[k] = IF k = 0 THEN p ELSE Up(t, g[k - 1])
      <3> SUFFICES ASSUME NEW k \in 0 .. m, k # 0 PROVE g[k] = Up(t, g[k - 1])
        OBVIOUS
      <3>1. k - 1 \in 0 .. m - 1
        BY <2>1
      <3> QED
        BY <3>1, <2>5
    <2>7. Climbs(t, p, m, g)
      <3> HIDE DEF g
      <3>1. g = [k \in 0 .. m |-> g[k]]
        BY DEF g
      <3> QED
        BY <2>6, <3>1 DEF Climbs
    <2> QED
      BY <2>7
  <1> QED
    BY <1>1

\* A shorter climb is the beginning of a longer one.
LEMMA ClimbsAgree ==
    ASSUME NEW t, NEW p, NEW m \in Nat, NEW n \in Nat, NEW f, NEW g,
           Climbs(t, p, m, f), Climbs(t, p, n, g), NEW k \in 0 .. m, k <= n
    PROVE  f[k] = g[k]
  <1> DEFINE Bad == {i \in 0 .. k : f[i] # g[i]}
  <1>1. ASSUME Bad # {} PROVE FALSE
    <2>1. PICK i \in Bad : \A y \in Bad : i <= y
      <3>1. Bad \subseteq Nat
        OBVIOUS
      <3> QED
        BY <1>1, <3>1, LeastNumber
    <2>2. i # 0
      BY DEF Climbs
    <2>3. i - 1 \in 0 .. k /\ f[i - 1] = g[i - 1]
      BY <2>1, <2>2
    <2> QED
      BY <2>2, <2>3 DEF Climbs
  <1> QED
    BY <1>1

\* Ancestor climbs one step at a time.
LEMMA AncestorSteps ==
    ASSUME NEW t, NEW p
    PROVE  /\ Ancestor(t, p, 0) = p
           /\ \A n \in Nat : Ancestor(t, p, n + 1) = Up(t, Ancestor(t, p, n))
  <1>1. ASSUME NEW n \in Nat
        PROVE  \E f : Climbs(t, p, n, f) /\ Ancestor(t, p, n) = f[n]
    <2> DEFINE f == CHOOSE f : Climbs(t, p, n, f)
    <2>1. Climbs(t, p, n, f)
      BY ClimbExists
    <2>2. Ancestor(t, p, n) = f[n]
      BY DEF Ancestor, Climbs, Up
    <2> QED
      BY <2>1, <2>2
  <1>2. Ancestor(t, p, 0) = p
    BY <1>1 DEF Climbs
  <1>3. ASSUME NEW n \in Nat PROVE Ancestor(t, p, n + 1) = Up(t, Ancestor(t, p, n))
    <2>1. PICK f : Climbs(t, p, n, f) /\ Ancestor(t, p, n) = f[n]
      BY <1>1
    <2>2. PICK g : Climbs(t, p, n + 1, g) /\ Ancestor(t, p, n + 1) = g[n + 1]
      BY <1>1
    <2>3. f[n] = g[n]
      BY <2>1, <2>2, ClimbsAgree
    <2> QED
      BY <2>1, <2>2, <2>3 DEF Climbs
  <1> QED
    BY <1>2, <1>3

\* Climbing n steps from the parent is climbing one more from the page.
LEMMA AncestorOfParent ==
    ASSUME NEW t, NEW p, NEW n \in Nat
    PROVE  Ancestor(t, p, n + 1) = Ancestor(t, Up(t, p), n)
  <1> DEFINE Bad == {i \in Nat : Ancestor(t, p, i + 1) # Ancestor(t, Up(t, p), i)}
  <1>1. ASSUME Bad # {} PROVE FALSE
    <2>1. PICK i \in Bad : \A y \in Bad : i <= y
      BY <1>1, LeastNumber
    <2>2. i # 0
      <3>1. Ancestor(t, p, 0 + 1) = Up(t, Ancestor(t, p, 0))
        BY AncestorSteps
      <3> QED
        BY <3>1, AncestorSteps
    <2>3. i - 1 \in Nat /\ i - 1 \notin Bad
      BY <2>1, <2>2
    <2>4. Ancestor(t, p, i + 1) = Up(t, Ancestor(t, p, i))
      BY AncestorSteps
    <2>5. Ancestor(t, Up(t, p), (i - 1) + 1) = Up(t, Ancestor(t, Up(t, p), i - 1))
      <3>1. \A k \in Nat : Ancestor(t, Up(t, p), k + 1) = Up(t, Ancestor(t, Up(t, p), k))
        BY AncestorSteps, ZenonT(20)
      <3> QED
        BY <2>3, <3>1
    <2> QED
      BY <2>3, <2>4, <2>5
  <1> QED
    BY <1>1

\* Pages of a tree; the lines of ancestors in it that come to an end.
Tree(t) == DOMAIN t \subseteq Page
Ends(t, p) == \E n \in Nat : Ancestor(t, p, n) = NoPage

\* A line that has ended stays ended.
LEMMA EndedStaysEnded ==
    ASSUME NEW t, Tree(t), NEW p, NEW n \in Nat, Ancestor(t, p, n) = NoPage,
           NEW m \in Nat, n <= m
    PROVE  Ancestor(t, p, m) = NoPage
  <1> DEFINE Bad == {i \in Nat : n <= i /\ Ancestor(t, p, i) # NoPage}
  <1>1. ASSUME Bad # {} PROVE FALSE
    <2>1. PICK i \in Bad : \A y \in Bad : i <= y
      BY <1>1, LeastNumber
    <2>2. i - 1 \in Nat /\ i - 1 \notin Bad /\ n <= i - 1
      BY <2>1
    <2>3. Ancestor(t, p, (i - 1) + 1) = Up(t, Ancestor(t, p, i - 1))
      BY <2>2, AncestorSteps
    <2>4. Ancestor(t, p, i - 1) = NoPage /\ NoPage \notin DOMAIN t
      BY <2>2, ServerAssumption DEF Tree
    <2> QED
      BY <2>2, <2>3, <2>4 DEF Up
  <1> QED
    BY <1>1

\* Two steps of a line that are at one page go on alike.
LEMMA SameOnward ==
    ASSUME NEW t, NEW p, NEW i \in Nat, NEW j \in Nat,
           Ancestor(t, p, i) = Ancestor(t, p, j), NEW k \in Nat
    PROVE  Ancestor(t, p, i + k) = Ancestor(t, p, j + k)
  <1> DEFINE Bad == {n \in Nat : Ancestor(t, p, i + n) # Ancestor(t, p, j + n)}
  <1>1. ASSUME Bad # {} PROVE FALSE
    <2>1. PICK n \in Bad : \A y \in Bad : n <= y
      BY <1>1, LeastNumber
    <2>2. n - 1 \in Nat /\ n - 1 \notin Bad
      BY <2>1
    <2>3. /\ Ancestor(t, p, (i + (n - 1)) + 1) = Up(t, Ancestor(t, p, i + (n - 1)))
          /\ Ancestor(t, p, (j + (n - 1)) + 1) = Up(t, Ancestor(t, p, j + (n - 1)))
      BY <2>2, AncestorSteps
    <2> QED
      BY <2>2, <2>3
  <1> QED
    BY <1>1

\* A line that ends does so within as many steps as there may be pages, plus one:
\* up to there its pages are different, and there are no more.
LEMMA EndsWithoutLoop ==
    ASSUME NEW t, Tree(t), NEW p
    PROVE  ~Loops(t, p) <=> Ends(t, p)
  <1> DEFINE N == Cardinality(Page)
             T == {n \in Nat : Ancestor(t, p, n) = NoPage}
  <1>1. N \in Nat
    BY FS_CardinalityType, ServerAssumption
  <1>2. ~Loops(t, p) => Ends(t, p)
    BY <1>1 DEF Loops, Ends
  <1>3. ASSUME Ends(t, p) PROVE ~Loops(t, p)
    <2>1. PICK m \in T : \A y \in T : m <= y
      BY <1>3, LeastNumber DEF Ends
    <2>2. ASSUME m > N + 1 PROVE FALSE
      <3> DEFINE f == [n \in 0 .. N |-> Ancestor(t, p, n)]
      <3>1. ASSUME NEW n \in 0 .. N PROVE Ancestor(t, p, n) \in Page
        <4>1. n \in Nat /\ n + 1 \in Nat /\ n + 1 \notin T
          BY <1>1, <2>1, <2>2
        <4>2. Ancestor(t, p, n + 1) = Up(t, Ancestor(t, p, n)) /\ Ancestor(t, p, n + 1) # NoPage
          BY <4>1, AncestorSteps
        <4>3. Ancestor(t, p, n) \in DOMAIN t
          BY <4>2 DEF Up
        <4> QED
          BY <4>3 DEF Tree
      <3>2. f \in [0 .. N -> Page]
        BY <3>1
      <3>3. /\ IsFiniteSet(0 .. N) /\ Cardinality(0 .. N) = N + 1
        BY <1>1, FS_Interval
      <3>4. PICK i \in 0 .. N, j \in 0 .. N : i # j /\ f[i] = f[j]
        <4>1. Cardinality(Page) < Cardinality(0 .. N)
          BY <1>1, <3>3
        <4> HIDE DEF f, N
        <4> QED
          BY <3>2, <3>3, <4>1, FS_PigeonHole, ServerAssumption
      <3>5. ASSUME NEW x \in 0 .. N, NEW y \in 0 .. N, x < y,
                   Ancestor(t, p, x) = Ancestor(t, p, y)
            PROVE  FALSE
        <4>1. x \in Nat /\ y \in Nat /\ m - y \in Nat /\ x + (m - y) \in Nat
          BY <1>1, <2>1, <2>2, <3>5
        <4>2. Ancestor(t, p, x + (m - y)) = Ancestor(t, p, y + (m - y))
          BY <3>5, <4>1, SameOnward
        <4>3. y + (m - y) = m /\ x + (m - y) < m
          BY <3>5, <4>1, <2>1
        <4>4. x + (m - y) \in T
          BY <4>1, <4>2, <4>3, <2>1
        <4> QED
          BY <2>1, <4>3, <4>4, <4>1
      <3> QED
        BY <1>1, <3>4, <3>5
    <2>3. Ancestor(t, p, N + 1) = NoPage
      BY <1>1, <2>1, <2>2, EndedStaysEnded
    <2> QED
      BY <2>3 DEF Loops
  <1> QED
    BY <1>2, <1>3

\* A line is Line: past its end it meets no page.
LEMMA OffTheLine ==
    ASSUME NEW t, Tree(t), NEW q, ~Loops(t, q), NEW p \in Page, p \notin Line(t, q),
           NEW n \in Nat
    PROVE  Ancestor(t, q, n) # p
  <1>1. Cardinality(Page) \in Nat /\ p # NoPage
    BY FS_CardinalityType, ServerAssumption
  <1>2. CASE n \in 0 .. Cardinality(Page)
    BY <1>1, <1>2 DEF Line
  <1>3. CASE n >= Cardinality(Page) + 1
    BY <1>1, <1>3, EndedStaysEnded DEF Loops
  <1> QED
    BY <1>1, <1>2, <1>3

\* The line from q is the same in two trees that differ in a page off it.
LEMMA LineKept ==
    ASSUME NEW t, NEW u, NEW q, NEW p,
           \A x : x # p => Up(u, x) = Up(t, x),
           \A n \in Nat : Ancestor(t, q, n) # p,
           Ends(t, q)
    PROVE  Ends(u, q)
  <1> DEFINE Bad == {n \in Nat : Ancestor(u, q, n) # Ancestor(t, q, n)}
  <1>1. ASSUME Bad # {} PROVE FALSE
    <2>1. PICK n \in Bad : \A y \in Bad : n <= y
      BY <1>1, LeastNumber
    <2>2. n # 0
      BY AncestorSteps
    <2>3. n - 1 \in Nat /\ n - 1 \notin Bad
      BY <2>1, <2>2
    <2>4. Ancestor(t, q, (n - 1) + 1) = Up(t, Ancestor(t, q, n - 1))
      BY <2>3, AncestorSteps
    <2>5. Ancestor(u, q, (n - 1) + 1) = Up(u, Ancestor(u, q, n - 1))
      BY <2>3, AncestorSteps
    <2> QED
      BY <2>3, <2>4, <2>5
  <1> QED
    BY <1>1 DEF Ends

\* If only the step up from p changed, or a step now ends a line, and the line from p
\* ends, then every line that ended ends.
LEMMA LinesStillEnd ==
    ASSUME NEW t, NEW u, NEW p, Ends(u, p),
           \A x : x # p => Up(u, x) \in {Up(t, x), NoPage},
           NEW q, Ends(t, q)
    PROVE  Ends(u, q)
  <1> DEFINE Bad == {n \in Nat : \E x : Ancestor(t, x, n) = NoPage /\ ~Ends(u, x)}
  <1>1. \A x : Ends(u, Up(u, x)) => Ends(u, x)
    BY AncestorOfParent DEF Ends
  <1>2. Ends(u, NoPage)
    BY AncestorSteps DEF Ends
  <1>3. ASSUME Bad # {} PROVE FALSE
    <2>1. PICK n \in Bad : \A y \in Bad : n <= y
      BY <1>3, LeastNumber
    <2>2. PICK x : Ancestor(t, x, n) = NoPage /\ ~Ends(u, x)
      OBVIOUS
    <2>3. n # 0
      BY <1>2, <2>2, AncestorSteps
    <2>4. n - 1 \in Nat /\ n - 1 \notin Bad
      BY <2>1, <2>3
    <2>5. Ancestor(t, Up(t, x), n - 1) = NoPage
      <3>1. Ancestor(t, x, (n - 1) + 1) = Ancestor(t, Up(t, x), n - 1)
        BY <2>4, AncestorOfParent
      <3> QED
        BY <2>2, <3>1
    <2>6. Ends(u, Up(t, x))
      BY <2>4, <2>5
    <2> QED
      BY <1>1, <1>2, <2>2, <2>6
  <1> QED
    BY <1>3 DEF Ends

-----------------------------------------------------------------------------
(* What a handler makes of a forest *)

\* Every step keeps the pages among those there can be.
LEMMA PagesAreKnownKept == PagesAreKnown /\ [Next]_vars => PagesAreKnown'
  <1> SUFFICES ASSUME PagesAreKnown, Next PROVE PagesAreKnown'
    BY DEF vars, store, PagesAreKnown
  <1>1. CASE UNCHANGED <<disk, loaded>>
    BY <1>1 DEF PagesAreKnown
  <1>2. CASE EditByHand
    BY <1>2 DEF EditByHand, PagesAreKnown, Restrict
  <1>3. CASE PostNew
    BY <1>3 DEF PostNew, PagesAreKnown, Reloaded, store, Placed
  <1>4. CASE PostDelete
    BY <1>4 DEF PostDelete, PagesAreKnown, Reloaded, store, Restrict
  <1>5. CASE PostMove
    BY <1>5 DEF PostMove, PagesAreKnown, Reloaded, store, Managed, Placed
  <1>6. CASE PostReload
    BY <1>6 DEF PostReload, PagesAreKnown, Reloaded
  <1> QED
    BY <1>1, <1>2, <1>3, <1>4, <1>5, <1>6, StoreSteps
       DEF Handle, Get, NotAllowed, PostAttach, store

\* A sound tree, read off its lines.
LEMMA ForestByLines ==
    ASSUME NEW t, Tree(t)
    PROVE  IsForest(t) <=> \A p \in DOMAIN t : Ends(t, p) /\ CheckParent(t, t[p].parent)
  BY EndsWithoutLoop DEF IsForest

\* A page put under q, when it is not on q's line: post_new of a page there was not,
\* post_move of one there was.
LEMMA PlacedInForest ==
    ASSUME NEW t, Tree(t), IsForest(t), NEW p \in Page, NEW r,
           CheckParent(t, r.parent), r.parent # p,
           ~Loops(t, r.parent), p \notin Line(t, r.parent),
           Tree(Placed(t, p, r))
    PROVE  IsForest(Placed(t, p, r))
  <1> DEFINE u == Placed(t, p, r)
             q == r.parent
  <1>1. /\ DOMAIN u = DOMAIN t \cup {p} /\ u[p] = r
        /\ \A x \in DOMAIN t : x # p => u[x] = t[x]
    BY DEF Placed
  <1>2. /\ \A x : x # p => Up(u, x) = Up(t, x)
        /\ Up(u, p) = q
    BY <1>1 DEF Up
  <1> HIDE DEF u
  <1>3. Ends(u, q)
    <2>1. Ends(t, q)
      BY EndsWithoutLoop
    <2>2. \A n \in Nat : Ancestor(t, q, n) # p
      BY OffTheLine
    <2> QED
      BY <1>2, <2>1, <2>2, LineKept
  <1>4. Ends(u, p)
    BY <1>2, <1>3, AncestorOfParent DEF Ends
  <1>5. ASSUME NEW x \in DOMAIN u PROVE Ends(u, x) /\ CheckParent(u, u[x].parent)
    <2>1. CASE x = p
      BY <1>1, <1>4, <2>1 DEF CheckParent, Managed
    <2>2. CASE x # p
      <3>1. x \in DOMAIN t /\ u[x] = t[x] /\ Ends(t, x) /\ CheckParent(t, t[x].parent)
        BY <1>1, <2>2, ForestByLines
      <3>2. Ends(u, x)
        BY <1>2, <1>4, <3>1, LinesStillEnd
      <3> QED
        BY <1>1, <3>1, <3>2 DEF CheckParent, Managed
    <2> QED
      BY <2>1, <2>2
  <1>6. Tree(u)
    BY DEF u
  <1> QED
    BY <1>5, <1>6, ForestByLines DEF u

\* post_delete of a page without children.
LEMMA RemovedFromForest ==
    ASSUME NEW t, Tree(t), IsForest(t), NEW p \in DOMAIN t, ChildrenOf(t, p) = {}
    PROVE  IsForest(Restrict(t, DOMAIN t \ {p}))
  <1> DEFINE u == Restrict(t, DOMAIN t \ {p})
  <1>1. DOMAIN u = DOMAIN t \ {p} /\ \A x \in DOMAIN u : u[x] = t[x]
    BY DEF Restrict
  <1> HIDE DEF u
  <1>2. \A x : x # p => Up(u, x) = Up(t, x)
    BY <1>1 DEF Up
  <1>3. Ends(u, p)
    <2>1. Up(u, p) = NoPage
      BY <1>1 DEF Up
    <2>2. Ancestor(u, p, 0 + 1) = Ancestor(u, NoPage, 0)
      BY <2>1, AncestorOfParent
    <2> QED
      BY <2>2, AncestorSteps DEF Ends
  <1>4. ASSUME NEW x \in DOMAIN u PROVE Ends(u, x) /\ CheckParent(u, u[x].parent)
    <2>1. x \in DOMAIN t /\ u[x] = t[x] /\ Ends(t, x) /\ CheckParent(t, t[x].parent)
      BY <1>1, ForestByLines
    <2>2. t[x].parent # p
      BY <2>1 DEF ChildrenOf, IsForest
    <2>3. Ends(u, x)
      BY <1>2, <1>3, <2>1, LinesStillEnd
    <2> QED
      BY <1>1, <2>1, <2>2, <2>3 DEF CheckParent, Managed
  <1>5. Tree(u)
    BY <1>1 DEF Tree
  <1> QED
    BY <1>4, <1>5, ForestByLines DEF u

\* No request makes a cycle, an orphan or a child of an unmanaged page of a sound tree
\* (check_parent, check_cycle and the empty-children test of delete_page), for any
\* number of pages, clients and forms, however old.
THEOREM ForestKept == Spec => FormsKeepTheForest
  <1>1. Init => PagesAreKnown
    BY ServerAssumption DEF Init, PagesAreKnown
  <1>2. Spec => []PagesAreKnown
    BY <1>1, PagesAreKnownKept, PTL DEF Spec
  <1>3. PagesAreKnown /\ PagesAreKnown' /\ [Next]_vars =>
            [disk = loaded /\ disk' = loaded' /\ IsForest(disk) => IsForest(disk')]_vars
    <2> SUFFICES ASSUME PagesAreKnown, PagesAreKnown', Next,
                        disk = loaded, disk' = loaded', IsForest(disk)
                 PROVE  IsForest(disk')
      OBVIOUS
    <2>1. Tree(disk) /\ Tree(disk')
      BY DEF PagesAreKnown, Tree
    <2>2. CASE UNCHANGED disk \/ UNCHANGED loaded
      BY <2>2
    <2>3. CASE PostNew
      <3> DEFINE q == request[serving].parent
      <3>1. SUFFICES ASSUME ~UNCHANGED disk PROVE IsForest(disk')
        BY <2>2
      <3>2. PICK p \in Page \ (DOMAIN disk \cup DOMAIN loaded) :
                disk' = Placed(disk, p, [parent |-> q, at |-> NextPosition(q)])
        BY <2>3, <3>1 DEF PostNew, Reloaded, store
      <3>3. /\ CheckParent(disk, q) /\ ~Loops(disk, q)
            /\ Line(disk, q) \subseteq DOMAIN disk
        BY <2>3, <3>1 DEF PostNew, store
      <3>4. q # p
        BY <3>2, <3>3, ServerAssumption DEF CheckParent, Managed
      <3> QED
        BY <2>1, <3>2, <3>3, <3>4, PlacedInForest
    <2>4. CASE PostDelete
      <3>1. SUFFICES ASSUME ~UNCHANGED disk PROVE IsForest(disk')
        BY <2>2
      <3>2. PICK p \in DOMAIN disk : /\ ChildrenOf(disk, p) = {}
                                     /\ disk' = Restrict(disk, DOMAIN disk \ {p})
        BY <2>4, <3>1 DEF PostDelete, Reloaded, store
      <3> QED
        BY <2>1, <3>2, RemovedFromForest
    <2>5. CASE PostMove
      <3> DEFINE p == request[serving].page
                 r == request[serving].to
      <3>1. SUFFICES ASSUME ~UNCHANGED disk PROVE IsForest(disk')
        BY <2>2
      <3>2. p \in DOMAIN disk /\ PlanMove(p, r) /\ disk' = Placed(disk, p, r)
        BY <2>5, <3>1 DEF PostMove, Reloaded, store, Managed
      <3>3. /\ CheckParent(disk, r.parent) /\ r.parent # p
            /\ ~Loops(disk, r.parent) /\ p \notin Line(disk, r.parent)
        <4>1. CASE r.parent = NoPage
          <5>1. \A n \in Nat : Ancestor(disk, NoPage, n) = NoPage
            <6>1. Ancestor(disk, NoPage, 0) = NoPage
              BY AncestorSteps
            <6> QED
              BY <2>1, <6>1, EndedStaysEnded
          <5>2. ~Loops(disk, NoPage) /\ Line(disk, NoPage) = {}
            BY <5>1, FS_CardinalityType, ServerAssumption DEF Loops, Line
          <5> QED
            BY <3>2, <4>1, <5>2 DEF PlanMove, MakesCycle
        <4>2. CASE r.parent # NoPage
          BY <3>2, <4>2 DEF PlanMove, MakesCycle, IsAncestor
        <4> QED
          BY <4>1, <4>2
      <3>4. p \in Page
        BY <2>1, <3>2 DEF Tree
      <3> QED
        BY <2>1, <3>2, <3>3, <3>4, PlacedInForest
    <2>6. CASE PostReload
      BY <2>2, <2>6 DEF PostReload, Reloaded
    <2>7. EditByHand => UNCHANGED loaded
      BY DEF EditByHand
    <2> QED
      BY <2>2, <2>3, <2>4, <2>5, <2>6, <2>7, StoreSteps
         DEF Handle, Get, NotAllowed, PostAttach, store
  <1> QED
    BY <1>2, <1>3, PTL DEF Spec, FormsKeepTheForest

==============================================================================
