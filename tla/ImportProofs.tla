---------------------------- MODULE ImportProofs -----------------------------
(***************************************************************************)
(* Proofs about the import of notebooks.                                   *)
(*                                                                         *)
(* NotebookImport, for any number of imports, contents of the notebook,    *)
(* nodes, kills and acts of people: an import overwrites nothing and,      *)
(* where it saw the folder it locked, creates no page a second time and    *)
(* reports success only of what is committed.                              *)
(*                                                                         *)
(* CtdReader, for any file whose elements are as CherryTree writes them,   *)
(* however its nodes nest and wherever it breaks off: the walk builds the  *)
(* nodes that the file says, each where it is and with what is in it.      *)
(***************************************************************************)
EXTENDS NotebookImport, CtdReader, SequenceTheorems, FiniteSetTheorems, TLAPS

-----------------------------------------------------------------------------
(* The order of file names: strict and total, so a folder has a first file *)

\* Every non-empty set of numbers has a least one.
LEMMA LeastNumber ==
    ASSUME NEW T, T \subseteq Nat, T # {}
    PROVE  \E x \in T : \A y \in T : x <= y
  <1> DEFINE R == OpToRel(<, Nat)
  <1>1. PICK x \in T : \A y \in T : <<y, x>> \notin R
    BY WFMin, NatLessThanWellFounded, Zenon
  <1>2. ASSUME NEW y \in T PROVE ~(y < x)
    BY <1>1 DEF OpToRel
  <1> QED
    BY <1>2

\* The letters of a name are numbers.
LEMMA LettersAreNumbers ==
    ASSUME NEW f \in Seq(Nat), NEW n \in 1 .. Len(f)
    PROVE  f[n] \in Nat
  OBVIOUS

\* No name comes before itself.
LEMMA BeforeIsStrict ==
    ASSUME NEW f \in Seq(Nat)
    PROVE  ~Before(f, f)
  BY DEF Before

\* The order of names carries over a name in between.
LEMMA BeforeIsTransitive ==
    ASSUME NEW f \in Seq(Nat), NEW g \in Seq(Nat), NEW h \in Seq(Nat),
           Before(f, g), Before(g, h)
    PROVE  Before(f, h)
  <1>1. PICK i \in 1 .. Len(f) : /\ \A j \in 1 .. i - 1 : j <= Len(g) /\ f[j] = g[j]
                                 /\ i > Len(g) \/ f[i] < g[i]
    BY DEF Before
  <1>2. PICK k \in 1 .. Len(g) : /\ \A j \in 1 .. k - 1 : j <= Len(h) /\ g[j] = h[j]
                                 /\ k > Len(h) \/ g[k] < h[k]
    BY DEF Before
  <1>3. CASE i < k
    <2>1. i <= Len(h) /\ g[i] = h[i] /\ f[i] < g[i]
      <3>1. i \in 1 .. k - 1
        BY <1>3
      <3>2. i <= Len(h) /\ g[i] = h[i]
        BY <1>2, <3>1
      <3>3. ~(i > Len(g))
        BY <1>3
      <3> QED
        BY <1>1, <3>2, <3>3
    <2>2. ASSUME NEW j \in 1 .. i - 1 PROVE j <= Len(h) /\ f[j] = h[j]
      <3>1. j \in 1 .. k - 1
        BY <1>3
      <3>2. j <= Len(h) /\ g[j] = h[j]
        BY <1>2, <3>1
      <3>3. f[j] = g[j]
        BY <1>1
      <3> QED
        BY <3>2, <3>3
    <2> QED
      BY <2>1, <2>2 DEF Before
  <1>4. CASE k <= i
    <2>1. k \in 1 .. Len(f) /\ \A j \in 1 .. k - 1 : j <= Len(h) /\ f[j] = h[j]
      BY <1>1, <1>2, <1>4
    <2>2. ASSUME k <= Len(h) PROVE f[k] < h[k]
      <3>1. k \in 1 .. Len(f) /\ k \in 1 .. Len(g) /\ k \in 1 .. Len(h)
        BY <2>1, <2>2
      <3>2. f[k] \in Nat /\ g[k] \in Nat /\ h[k] \in Nat
        BY <3>1, LettersAreNumbers
      <3>3. g[k] < h[k]
        BY <1>2, <2>2
      <3>4. f[k] <= g[k]
        <4>1. CASE k = i
          <5>1. ~(i > Len(g))
            BY <3>1, <4>1
          <5>2. f[i] < g[i]
            BY <1>1, <5>1
          <5>3. f[k] < g[k]
            BY <4>1, <5>2
          <5> QED
            BY <3>2, <5>3, SMTT(20)
        <4>2. CASE k < i
          <5>1. f[k] = g[k]
            BY <1>1, <4>2
          <5> QED
            BY <3>2, <5>1, SMTT(20)
        <4> QED
          BY <1>4, <4>1, <4>2
      <3> QED
        BY <3>2, <3>3, <3>4, SMTT(20)
    <2>3. k > Len(h) \/ f[k] < h[k]
      BY <2>2
    <2> QED
      BY <2>1, <2>3 DEF Before
  <1> QED
    BY <1>3, <1>4

\* Of two names one comes first: they are ordered by their first difference.
LEMMA BeforeIsTotal ==
    ASSUME NEW f \in Seq(Nat), NEW g \in Seq(Nat), f # g
    PROVE  Before(f, g) \/ Before(g, f)
  <1> DEFINE D == {i \in 1 .. Len(f) \cup 1 .. Len(g) : i > Len(f) \/ i > Len(g) \/ f[i] # g[i]}
  <1>1. D # {}
    BY SMTT(30)
  <1>2. D \subseteq Nat
    OBVIOUS
  <1>3. PICK i \in D : \A y \in D : i <= y
    BY <1>1, <1>2, LeastNumber
  <1>4. \A j \in 1 .. i - 1 : j <= Len(f) /\ j <= Len(g) /\ f[j] = g[j]
    BY <1>3
  <1>5. CASE i > Len(f)
    BY <1>4, <1>5 DEF Before
  <1>6. CASE i > Len(g)
    BY <1>4, <1>6 DEF Before
  <1>7. CASE i <= Len(f) /\ i <= Len(g)
    <2>1. f[i] \in Nat /\ g[i] \in Nat /\ f[i] # g[i]
      BY <1>7
    <2>2. CASE f[i] < g[i]
      <3>1. i \in 1 .. Len(f) /\ ~(i > Len(g))
        BY <1>7
      <3> QED
        BY <1>4, <2>2, <3>1 DEF Before
    <2>3. CASE g[i] < f[i]
      <3>1. i \in 1 .. Len(g)
        BY <1>7
      <3> QED
        BY <1>4, <2>3, <3>1 DEF Before
    <2> QED
      BY <2>1, <2>2, <2>3
  <1> QED
    BY <1>5, <1>6, <1>7

\* A non-empty finite set of files has one before all others: one whose set of
\* files before it is least by inclusion.
LEMMA FirstFile ==
    ASSUME NEW S, IsFiniteSet(S), S \subseteq Seq(Nat), S # {}
    PROVE  \E f \in S : \A g \in S \ {f} : Before(f, g)
  <1> DEFINE R        == StrictSubsetOrdering(S)
             Under(f) == {g \in S : Before(g, f)}
             T        == {Under(f) : f \in S}
  <1>1. T \subseteq FiniteSubsetsOf(S) /\ T # {}
    <2>1. ASSUME NEW f \in S PROVE Under(f) \in SUBSET S /\ IsFiniteSet(Under(f))
      BY FS_Subset
    <2> QED
      BY <2>1 DEF FiniteSubsetsOf
  <1>2. PICK x \in T : \A y \in T : <<y, x>> \notin R
    BY <1>1, WFMin, FS_StrictSubsetOrderingWellFounded, Zenon
  <1>3. PICK f \in S : x = Under(f)
    BY <1>2
  <1>4. ASSUME NEW g \in S \ {f}, ~Before(f, g) PROVE FALSE
    <2>1. g \in Under(f)
      BY <1>4, BeforeIsTotal
    <2>2. g \notin Under(g)
      BY <1>4, BeforeIsStrict
    <2>3. Under(g) \subseteq Under(f)
      BY <2>1, BeforeIsTransitive
    <2>4. Under(g) \in T /\ Under(g) # x
      BY <1>3, <2>1, <2>2
    <2>5. <<Under(g), x>> \in R
      BY <1>3, <2>3, <2>4 DEF StrictSubsetOrdering
    <2> QED
      BY <1>2, <2>4, <2>5
  <1> QED
    BY <1>4

-----------------------------------------------------------------------------
(* What a step does to the pages of the folder *)

\* A record with fields of it changed is a record.
LEMMA RecordsChange ==
    ASSUME NEW r, IsRecord(r), NEW graph, NEW todo, NEW left, NEW fresh,
           NEW apply, NEW book
    PROVE  /\ IsRecord([r EXCEPT !.pc = "open", !.apply = apply, !.book = book])
           /\ IsRecord([r EXCEPT !.pc = "lock", !.graph = graph])
           /\ IsRecord([r EXCEPT !.pc = "plan", !.fresh = fresh, !.todo = todo])
           /\ IsRecord([r EXCEPT !.pc = "write"])
           /\ IsRecord([r EXCEPT !.pc = "write", !.todo = todo])
           /\ IsRecord([r EXCEPT !.pc = "attach", !.graph = graph, !.left = left])
           /\ IsRecord([r EXCEPT !.pc = "report"])
           /\ IsRecord([r EXCEPT !.left = left])
  <1> DEFINE T == [pc    : {"idle", "open", "lock", "plan", "write", "attach", "report"},
                   apply : {r.apply, apply}, book : {r.book, book}, graph : {r.graph, graph},
                   todo  : {r.todo, todo}, left : {r.left, left}, fresh : {r.fresh, fresh}]
  <1>1. r \in T
    BY DEF IsRecord
  <1>2. \A t \in T : IsRecord(t)
    BY DEF IsRecord
  <1>3. [r EXCEPT !.pc = "open", !.apply = apply, !.book = book] \in T
    BY <1>1
  <1>4. [r EXCEPT !.pc = "lock", !.graph = graph] \in T
    BY <1>1
  <1>5. [r EXCEPT !.pc = "plan", !.fresh = fresh, !.todo = todo] \in T
    BY <1>1
  <1>6. [r EXCEPT !.pc = "write"] \in T
    BY <1>1
  <1>7. [r EXCEPT !.pc = "write", !.todo = todo] \in T
    BY <1>1
  <1>8. [r EXCEPT !.pc = "attach", !.graph = graph, !.left = left] \in T
    BY <1>1
  <1>9. [r EXCEPT !.pc = "report"] \in T
    BY <1>1
  <1>10. [r EXCEPT !.left = left] \in T
    BY <1>1
  <1> HIDE DEF T
  <1> QED
    BY <1>2, <1>3, <1>4, <1>5, <1>6, <1>7, <1>8, <1>9, <1>10

\* Only creating a page changes the folder, people apart.
LEMMA OnlyCreation ==
    ASSUME NEW p \in Process, Import(p)
    PROVE  disk' = disk \/ CreatePage(p)
  BY DEF Import, OpenStore, TakeLock, Accept, NextNode, Commit, Report, Stop, ReadNotebook,
         AddAttachment

\* People count what they do, and leave the imports alone.
LEMMA PeopleCount ==
    ASSUME People, people \in Nat
    PROVE  people' \in Nat /\ people' # people /\ proc' = proc /\ held' = held
  <1>1. CASE CommitByHand
    BY <1>1 DEF CommitByHand, Act
  <1>2. CASE CheckOut
    BY <1>2 DEF CheckOut, Act
  <1>3. ASSUME NEW b \in Book, SaveNotebook(b)
        PROVE  people' \in Nat /\ people' # people /\ proc' = proc /\ held' = held
    BY <1>3 DEF SaveNotebook, Act
  <1>4. ASSUME NEW f \in DOMAIN disk, DropMarker(f) \/ DeletePage(f)
        PROVE  people' \in Nat /\ people' # people /\ proc' = proc /\ held' = held
    BY <1>4 DEF DropMarker, DeletePage, Act
  <1>5. ASSUME NEW f \in DOMAIN disk, NEW title \in Title, EditPage(f, title)
        PROVE  people' \in Nat /\ people' # people /\ proc' = proc /\ held' = held
    BY <1>5 DEF EditPage, Act
  <1>6. ASSUME NEW f \in DOMAIN disk, NEW parent \in Parent, MovePage(f, parent)
        PROVE  people' \in Nat /\ people' # people /\ proc' = proc /\ held' = held
    BY <1>6 DEF MovePage, Act
  <1> QED
    BY <1>1, <1>2, <1>3, <1>4, <1>5, <1>6 DEF People

\* A page that is created is new to the graph and to the folder; the import goes
\* on with a graph of the folder as it is then.
LEMMA Creation ==
    ASSUME Records, NEW p \in Process, CreatePage(p)
    PROVE  /\ At(p, "write") /\ held' = held /\ people' = people
           /\ \E rec : /\ proc' = [proc EXCEPT ![p] = rec] /\ IsRecord(rec)
                       /\ rec.pc = "attach" /\ rec.graph = disk'
           /\ \E f, page : /\ page.id \notin Ids(proc[p].graph)
                           /\ DOMAIN disk' = DOMAIN disk \cup {f} /\ f \notin DOMAIN disk
                           /\ disk'[f] = page
                           /\ \A e \in DOMAIN disk : disk'[e] = disk[e]
  <1> DEFINE page == PageFor(proc[p].book, Current(p))
             title == NodesOf(p)[Current(p)].title
             rec  == [proc[p] EXCEPT !.pc = "attach", !.graph = disk',
                                     !.left = NodesOf(p)[Current(p)].assets]
  <1>1. /\ At(p, "write") /\ held' = held /\ people' = people
        /\ page.id \notin Ids(proc[p].graph)
        /\ \E f \in FreeName(disk, proc[p].graph, page, title) :
              disk' = With(disk, f, page) /\ proc' = [proc EXCEPT ![p] = rec]
    BY Zenon DEF CreatePage, Now
  <1>2. IsRecord(rec)
    BY RecordsChange DEF Records
  <1>3. rec.pc = "attach" /\ rec.graph = disk'
    BY DEF Records, IsRecord
  <1> HIDE DEF page, title, rec
  <1>4. PICK f \in FreeName(disk, proc[p].graph, page, title) :
            disk' = With(disk, f, page) /\ proc' = [proc EXCEPT ![p] = rec]
    BY <1>1
  <1>5. /\ DOMAIN disk' = DOMAIN disk \cup {f} /\ f \notin DOMAIN disk
        /\ disk'[f] = page /\ \A e \in DOMAIN disk : disk'[e] = disk[e]
    BY <1>4 DEF With, FreeName
  <1> QED
    BY <1>1, <1>2, <1>3, <1>4, <1>5

\* An import that does not run.
LEMMA Rested == Idle.pc = "idle" /\ Idle.fresh = FALSE /\ IsRecord(Idle)
  <1>1. PICK b : Idle = [pc |-> "idle", apply |-> FALSE, book |-> b, graph |-> <<>>,
                         todo |-> {}, left |-> {}, fresh |-> FALSE]
    BY Zenon DEF Idle
  <1> QED
    BY <1>1 DEF IsRecord

-----------------------------------------------------------------------------
(* The inductive invariant *)

\* Every step keeps the types of what an import remembers.
LEMMA RecordsKept == Records /\ [Next]_vars => Records'
  <1> SUFFICES ASSUME Records, [Next]_vars PROVE Records'
    OBVIOUS
  <1>1. CASE UNCHANGED vars
    BY <1>1 DEF Records, vars
  <1>2. CASE People
    BY <1>2, PeopleCount DEF Records
  <1>3. ASSUME NEW p \in Process, Import(p) PROVE Records'
    <2>1. CASE OpenStore(p)
      BY <2>1, RecordsChange DEF OpenStore, Now, Records
    <2>2. CASE TakeLock(p)
      BY <2>2, RecordsChange DEF TakeLock, Now, Records
    <2>3. CASE Accept(p)
      BY <2>3, RecordsChange DEF Accept, Now, Records
    <2>4. CASE CreatePage(p)
      BY <2>4, RecordsChange, Creation DEF Records
    <2>5. CASE NextNode(p)
      BY <2>5, RecordsChange DEF NextNode, Now, Records
    <2>6. CASE Commit(p)
      BY <2>6, RecordsChange DEF Commit, Now, Records
    <2>7. CASE Report(p) \/ Stop(p)
      BY <2>7, RecordsChange, Rested DEF Report, Stop, Ends, Now, Records
    <2>8. ASSUME NEW apply \in BOOLEAN, ReadNotebook(p, apply) PROVE Records'
      BY <2>8, RecordsChange, Rested DEF ReadNotebook, Now, Records
    <2>9. ASSUME NEW a \in Asset, AddAttachment(p, a) PROVE Records'
      BY <2>9, RecordsChange DEF AddAttachment, Now, Records
    <2> QED
      BY <1>3, <2>1, <2>2, <2>3, <2>4, <2>5, <2>6, <2>7, <2>8, <2>9 DEF Import
  <1> QED
    BY <1>1, <1>2, <1>3 DEF Next

\* Only one import is past the lock: the lock is taken when nobody has it, and
\* goes with the one that ends.
LEMMA OneImportKept == Records /\ OneImport /\ [Next]_vars => OneImport'
  <1> SUFFICES ASSUME Records, OneImport, [Next]_vars PROVE OneImport'
    OBVIOUS
  <1>1. CASE UNCHANGED vars
    BY <1>1 DEF OneImport, Holding, vars
  <1>2. CASE People
    BY <1>2, PeopleCount DEF Records, IsRecord, OneImport, Holding
  <1>3. ASSUME NEW p \in Process, Import(p) PROVE OneImport'
    <2>1. CASE OpenStore(p)
      BY <2>1 DEF OpenStore, Now, Records, IsRecord, OneImport, Holding
    <2>2. CASE TakeLock(p)
      BY <2>2 DEF TakeLock, Now, Records, IsRecord, OneImport, Holding
    <2>3. CASE Accept(p)
      BY <2>3 DEF Accept, At, Now, Records, IsRecord, OneImport, Holding
    <2>4. CASE CreatePage(p)
      BY <2>4, Creation DEF At, Records, IsRecord, OneImport, Holding
    <2>5. CASE NextNode(p)
      BY <2>5 DEF NextNode, At, Now, Records, IsRecord, OneImport, Holding
    <2>6. CASE Commit(p)
      BY <2>6 DEF Commit, At, Now, Records, IsRecord, OneImport, Holding
    <2>7. CASE Report(p) \/ Stop(p)
      <3>1. proc' = [proc EXCEPT ![p] = Idle] /\ (Holding(p) \/ held' = held)
        BY <2>7 DEF Report, Stop, At, Ends, Now, Records, IsRecord, Holding
      <3> QED
        BY <3>1, Rested DEF Records, IsRecord, OneImport, Holding
    <2>8. ASSUME NEW apply \in BOOLEAN, ReadNotebook(p, apply) PROVE OneImport'
      BY <2>8, Rested DEF ReadNotebook, Now, Records, IsRecord, OneImport, Holding
    <2>9. ASSUME NEW a \in Asset, AddAttachment(p, a) PROVE OneImport'
      BY <2>9 DEF AddAttachment, At, Now, Records, IsRecord, OneImport, Holding
    <2> QED
      BY <1>3, <2>1, <2>2, <2>3, <2>4, <2>5, <2>6, <2>7, <2>8, <2>9 DEF Import
  <1> QED
    BY <1>1, <1>2, <1>3 DEF Next

\* While an import holds the lock people only edit texts and titles: no id is new.
LEMMA PeopleKeepIds ==
    ASSUME People, NEW p \in Process, Holding(p), OneImport
    PROVE  Ids(disk') \subseteq Ids(disk)
  <1>1. held /\ ~At(p, "idle")
    BY DEF Holding, OneImport, At
  <1>2. CASE disk' = disk
    BY <1>2
  <1>3. ASSUME NEW f \in DOMAIN disk, NEW title \in Title, EditPage(f, title)
        PROVE  Ids(disk') \subseteq Ids(disk)
    BY <1>3 DEF EditPage, Ids
  <1> QED
    BY <1>1, <1>2, <1>3
    DEF People, CommitByHand, CheckOut, SaveNotebook, DropMarker, DeletePage, MovePage

\* Every step keeps the graph of the import in step with the folder it locked.
LEMMA GraphCoversKept == IInv /\ [Next]_vars => GraphCovers'
  <1> SUFFICES ASSUME IInv, [Next]_vars, NEW q \in Process, proc'[q].fresh
               PROVE  (Holding(q))' /\ Ids(disk') \subseteq Ids(proc'[q].graph)
    BY DEF GraphCovers
  <1> USE DEF IInv
  <1>1. CASE UNCHANGED vars
    BY <1>1 DEF GraphCovers, Holding, vars
  <1>2. CASE People
    BY <1>2, PeopleCount, PeopleKeepIds DEF Records, IsRecord, GraphCovers, Holding
  <1>3. ASSUME NEW p \in Process, Import(p)
        PROVE  (Holding(q))' /\ Ids(disk') \subseteq Ids(proc'[q].graph)
    <2>1. CASE OpenStore(p)
      BY <2>1 DEF OpenStore, At, Now, Records, IsRecord, GraphCovers, Holding
    <2>2. CASE TakeLock(p)
      BY <2>2 DEF TakeLock, Now, Records, IsRecord, GraphCovers, Holding
    <2>3. CASE Accept(p)
      BY <2>3 DEF Accept, Now, Records, IsRecord, GraphCovers, Holding
    <2>4. CASE CreatePage(p)
      BY <2>4, Creation DEF At, Records, IsRecord, OneImport, GraphCovers, Holding
    <2>5. CASE NextNode(p)
      BY <2>5 DEF NextNode, Now, Records, IsRecord, GraphCovers, Holding
    <2>6. CASE Commit(p)
      BY <2>6 DEF Commit, Now, Records, IsRecord, GraphCovers, Holding
    <2>7. CASE Report(p) \/ Stop(p)
      BY <2>7, Rested DEF Report, Stop, Ends, Now, Records, IsRecord, GraphCovers, Holding
    <2>8. ASSUME NEW apply \in BOOLEAN, ReadNotebook(p, apply)
          PROVE  (Holding(q))' /\ Ids(disk') \subseteq Ids(proc'[q].graph)
      BY <2>8, Rested DEF ReadNotebook, Now, Records, IsRecord, GraphCovers, Holding
    <2>9. ASSUME NEW a \in Asset, AddAttachment(p, a)
          PROVE  (Holding(q))' /\ Ids(disk') \subseteq Ids(proc'[q].graph)
      BY <2>9 DEF AddAttachment, Now, Records, IsRecord, GraphCovers, Holding
    <2> QED
      BY <1>3, <2>1, <2>2, <2>3, <2>4, <2>5, <2>6, <2>7, <2>8, <2>9 DEF Import
  <1> QED
    BY <1>1, <1>2, <1>3 DEF Next

\* The invariant holds at the start,
LEMMA FirstState == Init => IInv
  <1> SUFFICES ASSUME Init PROVE IInv
    OBVIOUS
  <1>1. held = FALSE /\ people = 0 /\ proc = [p \in Process |-> Idle]
    BY DEF Init
  <1>2. Records
    BY <1>1, Rested DEF Records, IsRecord
  <1> QED
    BY <1>1, <1>2, Rested DEF IInv, OneImport, GraphCovers, Holding

\* and every step keeps it.
LEMMA InductiveStep == IInv /\ [Next]_vars => IInv'
  BY RecordsKept, OneImportKept, GraphCoversKept DEF IInv

\* Only an import itself becomes one that saw the folder it locked.
LEMMA FreshIsOwn ==
    ASSUME Records, NEW p \in Process, proc'[p].fresh,
           UNCHANGED vars \/ People \/ \E q \in Process \ {p} : Import(q)
    PROVE  proc[p].fresh
  <1>1. ASSUME NEW q \in Process \ {p}, Import(q) PROVE proc'[p] = proc[p]
    BY <1>1 DEF Import, OpenStore, TakeLock, Accept, CreatePage, NextNode, Commit, Report, Stop,
                Ends, ReadNotebook, AddAttachment, Now, Records
  <1> QED
    BY <1>1, PeopleCount DEF Records, vars

-----------------------------------------------------------------------------
(* Folders of pages that are their nodes' *)

\* A graph answers for an id with one of the files that carry it: the first.
LEMMA FirstPage ==
    ASSUME NEW d, IsFiniteSet(DOMAIN d), DOMAIN d \subseteq File, NEW id \in Ids(d)
    PROVE  \E f \in DOMAIN d : d[f].id = id /\ PageOf(d, id) = d[f]
  <1> DEFINE S    == {f \in DOMAIN d : d[f].id = id}
             P(f) == d[f].id = id /\ \A g \in DOMAIN d \ {f} : d[g].id = id => Before(f, g)
  <1>1. IsFiniteSet(S) /\ S # {}
    <2>1. S \in SUBSET DOMAIN d
      OBVIOUS
    <2>2. S # {}
      BY DEF Ids
    <2> QED
      BY <2>1, <2>2, FS_Subset
  <1>2. S \subseteq Seq(Nat)
    <2>1. Segment \subseteq Nat
      BY NamingAssumption DEF Segment
    <2>2. ASSUME NEW n \in Seq(Segment) PROVE n \in Seq(Nat)
      <3>1. n \in [1 .. Len(n) -> Segment] /\ Len(n) \in Nat
        OBVIOUS
      <3>2. n \in [1 .. Len(n) -> Nat]
        BY <2>1, <3>1
      <3> QED
        BY <3>1, <3>2
    <2> QED
      BY <2>2 DEF File
  <1>3. PICK f \in S : \A g \in S \ {f} : Before(f, g)
    <2> HIDE DEF S
    <2> QED
      BY <1>1, <1>2, FirstFile
  <1>4. \E first \in DOMAIN d : P(first)
    BY <1>3
  <1>5. PICK e : e = (CHOOSE first \in DOMAIN d : P(first))
    OBVIOUS
  <1>6. e \in DOMAIN d /\ P(e)
    BY <1>4, <1>5
  <1>7. PageOf(d, id) = d[e]
    BY <1>5 DEF PageOf
  <1> QED
    BY <1>6, <1>7

\* The page of a node is a page, with the node's marker.
LEMMA PageOfNode ==
    ASSUME NEW b \in Book, NEW i \in DOMAIN Nodes[b]
    PROVE  /\ PageFor(b, i) \in Page /\ Original(PageFor(b, i))
           /\ PageFor(b, i).source = <<b, Nodes[b][i].sid>>
           /\ PageFor(b, i).source # NoMarker
  <1>1. \A j \in DOMAIN Nodes[b] : Nodes[b][j] \in Node
    BY ImportAssumption
  <1>2. \A j \in DOMAIN Nodes[b] : <<b, Nodes[b][j].sid>> \in Marker
    BY <1>1 DEF Node, Marker
  <1>3. \A j \in DOMAIN Nodes[b] : IdAt(b, j) \in PageId
    BY <1>2, ImportAssumption DEF IdAt
  <1>4. Nodes[b][i].parent # 0 => Nodes[b][i].parent \in DOMAIN Nodes[b]
    BY <1>1, ImportAssumption DEF Node
  <1>5. PageFor(b, i) \in Page
    BY <1>1, <1>2, <1>3, <1>4 DEF PageFor, Page, Parent, Node
  <1>6. PageFor(b, i).source = <<b, Nodes[b][i].sid>> /\ PageFor(b, i).source # NoMarker
    BY DEF PageFor, NoMarker
  <1>7. PageFor(b, i).id = IdAt(b, i)
    BY DEF PageFor
  <1> QED
    BY <1>5, <1>6, <1>7 DEF Original, IsPageOf

\* A folder with a page of a node added is one.
LEMMA FolderGrows ==
    ASSUME NEW d, Folder(d), NEW f \in File, NEW page \in Page, Original(page)
    PROVE  Folder(With(d, f, page))
  <1>1. IsFiniteSet(DOMAIN d \cup {f})
    BY FS_AddElement DEF Folder
  <1>2. DOMAIN With(d, f, page) = DOMAIN d \cup {f}
    BY DEF With
  <1>3. \A g \in DOMAIN d \cup {f} : With(d, f, page)[g] = IF g = f THEN page ELSE d[g]
    BY DEF With
  <1> QED
    BY <1>1, <1>2, <1>3 DEF Folder, IsFolder

\* A page people touched is still the page of its marker's node.
LEMMA TouchedStays ==
    ASSUME NEW page \in Page, Original(page)
    PROVE  /\ \A title \in Title :
                 LET q == [page EXCEPT !.text = "edited", !.title = title]
                 IN  q \in Page /\ Original(q)
           /\ \A parent \in Parent :
                 LET q == [page EXCEPT !.text = "edited", !.parent = parent]
                 IN  q \in Page /\ Original(q)
  <1>1. ASSUME NEW q \in Page, q.id = page.id, q.source = page.source, q.text = "edited"
        PROVE  Original(q)
    BY <1>1 DEF Original, IsPageOf
  <1>2. ASSUME NEW title \in Title, NEW q, q = [page EXCEPT !.text = "edited", !.title = title]
        PROVE  q \in Page /\ Original(q)
    <2>1. q \in Page /\ q.id = page.id /\ q.source = page.source /\ q.text = "edited"
      BY <1>2 DEF Page
    <2> QED
      BY <1>1, <2>1
  <1>3. ASSUME NEW parent \in Parent, NEW q, q = [page EXCEPT !.text = "edited", !.parent = parent]
        PROVE  q \in Page /\ Original(q)
    <2>1. q \in Page /\ q.id = page.id /\ q.source = page.source /\ q.text = "edited"
      BY <1>3 DEF Page
    <2> QED
      BY <1>1, <2>1
  <1> QED
    BY <1>2, <1>3

\* People edit, move, delete, commit and check out pages; the folder and the last commit
\* remain folders of nodes' pages.
LEMMA PeopleKeepFolders ==
    ASSUME People, Folder(disk), Folder(head.disk)
    PROVE  Folder(disk') /\ Folder(head'.disk)
  <1>1. CASE CommitByHand
    BY <1>1 DEF CommitByHand
  <1>2. CASE CheckOut
    <2>1. IsFiniteSet(DOMAIN disk \cup DOMAIN head.disk)
      BY FS_Union DEF Folder
    <2> QED
      BY <1>2, <2>1 DEF CheckOut, Folder, IsFolder
  <1>3. ASSUME NEW b \in Book, SaveNotebook(b)
        PROVE  Folder(disk') /\ Folder(head'.disk)
    BY <1>3 DEF SaveNotebook
  <1>4. ASSUME NEW f \in DOMAIN disk, NEW title \in Title, EditPage(f, title)
        PROVE  Folder(disk') /\ Folder(head'.disk)
    <2> DEFINE page == [disk[f] EXCEPT !.text = "edited", !.title = title]
    <2>1. disk' = [disk EXCEPT ![f] = page] /\ head' = head
      <3>1. disk' = [disk EXCEPT ![f].text = "edited", ![f].title = title] /\ head' = head
        BY <1>4 DEF EditPage
      <3>2. disk[f] \in Page
        BY DEF Folder, IsFolder
      <3> QED
        BY <3>1, <3>2
    <2>2. page \in Page /\ Original(page)
      <3>1. disk[f] \in Page /\ Original(disk[f])
        BY DEF Folder, IsFolder
      <3> QED
        BY <3>1, TouchedStays
    <2> HIDE DEF page
    <2> QED
      BY <2>1, <2>2 DEF Folder, IsFolder
  <1>5. ASSUME NEW f \in DOMAIN disk, DropMarker(f)
        PROVE  Folder(disk') /\ Folder(head'.disk)
    <2>1. disk' = [disk EXCEPT ![f].source = NoMarker] /\ head' = head
      BY <1>5 DEF DropMarker
    <2>2. [disk[f] EXCEPT !.source = NoMarker] \in Page
      BY DEF Folder, IsFolder, Page
    <2>3. Original([disk[f] EXCEPT !.source = NoMarker])
      BY DEF Folder, IsFolder, Page, Original
    <2> QED
      BY <2>1, <2>2, <2>3 DEF Folder, IsFolder
  <1>6. ASSUME NEW f \in DOMAIN disk, DeletePage(f)
        PROVE  Folder(disk') /\ Folder(head'.disk)
    <2>1. IsFiniteSet(DOMAIN disk \ {f})
      BY FS_RemoveElement DEF Folder
    <2> QED
      BY <1>6, <2>1 DEF DeletePage, Folder, IsFolder
  <1>7. ASSUME NEW f \in DOMAIN disk, NEW parent \in Parent, MovePage(f, parent)
        PROVE  Folder(disk') /\ Folder(head'.disk)
    <2> DEFINE page == [disk[f] EXCEPT !.text = "edited", !.parent = parent]
               rest == [g \in DOMAIN disk \ {f} |-> disk[g]]
    <2>1. PICK g \in FreeName(rest, disk, page, page.title) : disk' = With(rest, g, page)
      BY <1>7 DEF MovePage
    <2>2. head' = head /\ g \in File
      BY <1>7, <2>1 DEF MovePage, FreeName
    <2>3. page \in Page /\ Original(page)
      <3>1. disk[f] \in Page /\ Original(disk[f])
        BY DEF Folder, IsFolder
      <3> QED
        BY <3>1, TouchedStays
    <2>4. Folder(rest)
      <3>1. IsFiniteSet(DOMAIN disk \ {f})
        BY FS_RemoveElement DEF Folder
      <3> QED
        BY <3>1 DEF Folder, IsFolder
    <2> HIDE DEF page, rest
    <2> QED
      BY <2>1, <2>2, <2>3, <2>4, FolderGrows
  <1> QED
    BY <1>1, <1>2, <1>3, <1>4, <1>5, <1>6, <1>7 DEF People

\* The node an import is at is one it has still to create.
LEMMA CurrentIsLeft ==
    ASSUME Folders, NEW p \in Process, proc[p].todo # {}
    PROVE  /\ Current(p) \in proc[p].todo
           /\ Current(p) \in DOMAIN Nodes[proc[p].book]
  <1> DEFINE T == proc[p].todo
  <1>1. T \subseteq DOMAIN Nodes[proc[p].book]
    BY DEF Folders
  <1>2. T \subseteq Nat
    BY <1>1, ImportAssumption DEF Folders
  <1>3. \E i \in T : \A j \in T : i <= j
    BY <1>2, LeastNumber
  <1> QED
    BY <1>1, <1>3 DEF Current

\* A page that is created is its node's, under a name of the folder.
LEMMA CreatesAPageOfNode ==
    ASSUME IInv, Folders, NEW p \in Process, CreatePage(p)
    PROVE  /\ Folder(disk') /\ Done(disk', proc[p].book, Current(p))
           /\ Current(p) \in DOMAIN Nodes[proc[p].book]
           /\ proc'[p].pc = "attach" /\ proc'[p].todo = proc[p].todo
           /\ proc'[p].book = proc[p].book /\ proc'[p].fresh = proc[p].fresh
           /\ \A q \in Process \ {p} : proc'[q] = proc[q]
           /\ file' = file /\ head' = head
  <1> DEFINE b    == proc[p].book
             i    == Current(p)
             page == PageFor(b, i)
             title == NodesOf(p)[i].title
             rec  == [proc[p] EXCEPT !.pc = "attach", !.graph = disk',
                                     !.left = NodesOf(p)[i].assets]
  <1>1. /\ proc[p].todo # {} /\ file' = file /\ head' = head
        /\ \E f \in FreeName(disk, proc[p].graph, page, title) :
              disk' = With(disk, f, page) /\ proc' = [proc EXCEPT ![p] = rec]
    BY Zenon DEF CreatePage, Now
  <1>2. b \in Book /\ i \in DOMAIN Nodes[b]
    BY <1>1, CurrentIsLeft DEF Folders
  <1>3. PICK f \in FreeName(disk, proc[p].graph, page, title) :
            disk' = With(disk, f, page) /\ proc' = [proc EXCEPT ![p] = rec]
    BY <1>1
  <1>4. f \in File
    BY <1>3 DEF FreeName
  <1>5. /\ page \in Page /\ Original(page)
        /\ page.source = <<b, Nodes[b][i].sid>>
    BY <1>2, PageOfNode
  <1>6. Folder(disk')
    BY <1>3, <1>4, <1>5, FolderGrows DEF Folders
  <1>7. f \in DOMAIN disk' /\ disk'[f] = page
    BY <1>3 DEF With
  <1>8. Done(disk', b, i)
    BY <1>5, <1>7 DEF Done
  <1>9. /\ rec.pc = "attach" /\ rec.todo = proc[p].todo
        /\ rec.book = b /\ rec.fresh = proc[p].fresh
    BY DEF IInv, Records, IsRecord
  <1>10. proc'[p] = rec /\ \A q \in Process \ {p} : proc'[q] = proc[q]
    <2> HIDE DEF rec
    <2> QED
      BY <1>3 DEF IInv, Records
  <1> QED
    BY <1>1, <1>2, <1>6, <1>8, <1>9, <1>10

\* The folder, the last commit and the imports stay of this kind.
LEMMA FoldersKept == IInv /\ Folders /\ [Next]_vars => Folders'
  <1> SUFFICES ASSUME IInv, Folders, [Next]_vars PROVE Folders'
    OBVIOUS
  <1> USE DEF IInv
  <1>1. CASE UNCHANGED vars
    BY <1>1 DEF Folders, vars
  <1>2. CASE People
    <2>1. file' \in Book
      BY <1>2 DEF People, CommitByHand, CheckOut, SaveNotebook, EditPage, MovePage, DropMarker,
                  DeletePage, Folders
    <2> QED
      BY <1>2, <2>1, PeopleCount, PeopleKeepFolders DEF Records, Folders
  <1>3. ASSUME NEW p \in Process, Import(p) PROVE Folders'
    <2>1. Idle.book \in Book /\ Idle.todo = {}
      BY DEF Folders, Idle
    <2>2. CASE OpenStore(p)
      BY <2>2 DEF OpenStore, Now, Records, IsRecord, Folders
    <2>3. CASE TakeLock(p)
      BY <2>3 DEF TakeLock, Now, Records, IsRecord, Folders, ToCreate
    <2>4. CASE Accept(p)
      BY <2>4 DEF Accept, Now, Records, IsRecord, Folders
    <2>5. CASE CreatePage(p)
      BY <2>5, CreatesAPageOfNode DEF Folders
    <2>6. CASE NextNode(p)
      BY <2>6 DEF NextNode, Now, Records, IsRecord, Folders
    <2>7. CASE Commit(p)
      BY <2>7 DEF Commit, Now, Records, IsRecord, Folders
    <2>8. CASE Report(p) \/ Stop(p)
      BY <2>1, <2>8 DEF Report, Stop, Ends, Now, Records, Folders
    <2>9. ASSUME NEW apply \in BOOLEAN, ReadNotebook(p, apply) PROVE Folders'
      <3>1. /\ proc'[p] = [Idle EXCEPT !.pc = "open", !.apply = apply, !.book = file]
            /\ \A q \in Process \ {p} : proc'[q] = proc[q]
            /\ disk' = disk /\ head' = head /\ file' = file
        BY <2>9 DEF ReadNotebook, Now, Records
      <3>2. proc'[p].book = file /\ proc'[p].todo = {}
        BY <2>1, <3>1, Rested DEF IsRecord
      <3> QED
        BY <3>1, <3>2 DEF Folders
    <2>10. ASSUME NEW a \in Asset, AddAttachment(p, a) PROVE Folders'
      BY <2>10 DEF AddAttachment, Now, Records, IsRecord, Folders
    <2> QED
      BY <1>3, <2>2, <2>3, <2>4, <2>5, <2>6, <2>7, <2>8, <2>9, <2>10 DEF Import
  <1> QED
    BY <1>1, <1>2, <1>3 DEF Next

-----------------------------------------------------------------------------
(* Progress of an import *)

\* What is done stays done while pages keep their markers.
LEMMA DoneStays ==
    ASSUME NEW d, NEW e, NEW b, NEW i, Done(d, b, i),
           \A f \in DOMAIN d : f \in DOMAIN e /\ e[f].source = d[f].source
    PROVE  Done(e, b, i)
  BY DEF Done

\* While an import holds the lock people keep the markers of the pages.
LEMMA PeopleKeepMarkers ==
    ASSUME People, NEW p \in Process, Holding(p), OneImport, Folders
    PROVE  \A f \in DOMAIN disk : f \in DOMAIN disk' /\ disk'[f].source = disk[f].source
  <1>1. held /\ ~At(p, "idle")
    BY DEF Holding, OneImport, At
  <1>2. CASE disk' = disk
    BY <1>2
  <1>3. ASSUME NEW g \in DOMAIN disk, NEW title \in Title, EditPage(g, title),
               NEW f \in DOMAIN disk
        PROVE  f \in DOMAIN disk' /\ disk'[f].source = disk[f].source
    <2>1. disk[f] \in Page
      BY DEF Folders, Folder, IsFolder
    <2> QED
      BY <1>3, <2>1 DEF EditPage, Page
  <1> QED
    BY <1>1, <1>2, <1>3
    DEF People, CommitByHand, CheckOut, SaveNotebook, DropMarker, DeletePage, MovePage

\* An import with no occupied page finds what it does not create: the page that
\* answers for a node's id carries the node's marker.
LEMMA AcceptedIsDone ==
    ASSUME Folders, NEW p \in Process, Progress(p), At(p, "plan"),
           Occupied(proc[p].book, proc[p].graph) = {},
           NEW i \in DOMAIN Nodes[proc[p].book], i \notin proc[p].todo
    PROVE  Done(disk, proc[p].book, i)
  <1> DEFINE b == proc[p].book
             g == proc[p].graph
  <1>1. Folder(g) /\ IdAt(b, i) \in Ids(g)
    BY DEF Progress, ToCreate
  <1>2. PageOf(g, IdAt(b, i)).source = <<b, Nodes[b][i].sid>>
    BY <1>1 DEF Occupied
  <1>3. PICK f \in DOMAIN g : PageOf(g, IdAt(b, i)) = g[f]
    BY <1>1, FirstPage DEF Folder, IsFolder
  <1>4. f \in DOMAIN disk /\ disk[f].source = g[f].source
    BY DEF Progress
  <1> QED
    BY <1>2, <1>3, <1>4 DEF Done

\* Others do not disturb an import that holds the lock: people keep the markers,
\* and what they commit is the folder; other imports wait.
LEMMA OthersKeepProgress ==
    ASSUME IInv, Folders, NEW q \in Process, proc[q].fresh, Progress(q),
           UNCHANGED vars \/ People \/ \E p \in Process \ {q} : Import(p)
    PROVE  Progress(q)'
  <1> DEFINE b == proc[q].book
  <1> USE DEF IInv
  <1>1. Holding(q)
    BY DEF GraphCovers
  <1>2. /\ proc'[q] = proc[q] /\ head'.disk \in {head.disk, disk}
        /\ \A f \in DOMAIN disk : f \in DOMAIN disk' /\ disk'[f].source = disk[f].source
    <2>1. CASE UNCHANGED vars
      BY <2>1 DEF vars
    <2>2. CASE People
      <3>1. head'.disk \in {head.disk, disk}
        <4>1. CASE CommitByHand
          BY <4>1 DEF CommitByHand
        <4>2. CASE ~CommitByHand
          BY <2>2, <4>2 DEF People, CheckOut, SaveNotebook, EditPage, MovePage, DropMarker,
                             DeletePage
        <4> QED
          BY <4>1, <4>2
      <3> QED
        BY <1>1, <2>2, <3>1, PeopleCount, PeopleKeepMarkers DEF Records
    <2>3. ASSUME NEW p \in Process \ {q}, Import(p)
          PROVE  proc'[q] = proc[q] /\ disk' = disk /\ head' = head
      <3>1. ~Holding(p) /\ held
        BY <1>1, <2>3 DEF OneImport
      <3>2. CASE OpenStore(p)
        BY <2>3, <3>2 DEF OpenStore, Now, Records
      <3>3. CASE Stop(p)
        BY <2>3, <3>3 DEF Stop, Ends, Now, Records
      <3>4. ASSUME NEW apply \in BOOLEAN, ReadNotebook(p, apply)
            PROVE  proc'[q] = proc[q] /\ disk' = disk /\ head' = head
        BY <2>3, <3>4 DEF ReadNotebook, Now, Records
      <3> QED
        BY <2>3, <3>1, <3>2, <3>3, <3>4
        DEF Import, TakeLock, Accept, CreatePage, NextNode, Commit, Report, AddAttachment,
            Holding, At
    <2> QED
      BY <2>1, <2>2, <2>3
  <1>3. ASSUME NEW i \in DOMAIN Nodes[b], Done(disk, b, i) PROVE Done(disk', b, i)
    BY <1>2, <1>3, DoneStays
  <1>4. ASSUME NEW i \in DOMAIN Nodes[b], At(q, "report"), i \notin proc[q].todo,
               Done(head.disk, b, i)
        PROVE  Done(head'.disk, b, i)
    <2>1. Done(disk, b, i)
      BY <1>4 DEF Progress, At
    <2> QED
      BY <1>2, <1>4, <2>1
  <1> QED
    BY <1>2, <1>3, <1>4 DEF Progress, At, Current

\* An import's own steps carry it on: what it does not create it has found, what
\* it has created is there, and what it reports is what it committed.
LEMMA OwnProgress ==
    ASSUME IInv, Folders, NEW p \in Process, Import(p),
           proc[p].fresh => Progress(p), proc'[p].fresh
    PROVE  Progress(p)'
  <1> DEFINE b == proc[p].book
  <1> USE DEF IInv
  <1>1. CASE OpenStore(p)
    BY <1>1 DEF OpenStore, At, Now, Records, IsRecord, GraphCovers, Holding
  <1>2. CASE TakeLock(p)
    <2>1. PICK fresh : fresh = (proc[p].graph = disk)
      OBVIOUS
    <2>2. /\ proc'[p] = [proc[p] EXCEPT !.pc = "plan", !.fresh = fresh,
                                        !.todo = ToCreate(b, proc[p].graph)]
          /\ disk' = disk
      BY <1>2, <2>1 DEF TakeLock, Now, Records
    <2>3. /\ proc'[p].pc = "plan" /\ proc'[p].todo = ToCreate(b, proc[p].graph)
          /\ proc'[p].book = b /\ proc'[p].graph = proc[p].graph
          /\ proc'[p].fresh = fresh
      BY <2>2 DEF Records, IsRecord
    <2>4. proc[p].graph = disk
      BY <2>1, <2>3, Zenon
    <2> QED
      BY <2>2, <2>3, <2>4 DEF Progress, At, Folders
  <1>3. CASE Accept(p)
    <2>1. /\ proc'[p] = [proc[p] EXCEPT !.pc = "write"] /\ disk' = disk
          /\ At(p, "plan") /\ Occupied(b, proc[p].graph) = {}
      BY <1>3 DEF Accept, Now, Records
    <2>2. /\ proc'[p].pc = "write" /\ proc'[p].todo = proc[p].todo
          /\ proc'[p].book = b /\ proc[p].fresh
      BY <2>1 DEF Records, IsRecord
    <2>3. ASSUME NEW i \in DOMAIN Nodes[b], i \notin proc[p].todo PROVE Done(disk, b, i)
      BY <2>1, <2>2, <2>3, AcceptedIsDone
    <2> QED
      BY <2>1, <2>2, <2>3 DEF Progress, At
  <1>4. CASE CreatePage(p)
    <2>1. /\ proc'[p].pc = "attach" /\ proc'[p].todo = proc[p].todo
          /\ proc'[p].book = b /\ proc[p].fresh
          /\ Done(disk', b, Current(p))
      BY <1>4, CreatesAPageOfNode
    <2>2. At(p, "write") /\ \A f \in DOMAIN disk : f \in DOMAIN disk' /\ disk'[f] = disk[f]
      BY <1>4, Creation
    <2>3. ASSUME NEW i \in DOMAIN Nodes[b], i \notin proc[p].todo PROVE Done(disk', b, i)
      <3>1. Done(disk, b, i)
        BY <2>1, <2>2, <2>3 DEF Progress, At
      <3> QED
        BY <2>2, <3>1, DoneStays
    <2>4. Current(p)' = Current(p)
      BY <2>1 DEF Current
    <2> QED
      BY <2>1, <2>3, <2>4 DEF Progress, At
  <1>5. CASE NextNode(p)
    <2>1. /\ proc'[p] = [proc[p] EXCEPT !.pc = "write", !.todo = @ \ {Current(p)}]
          /\ disk' = disk /\ At(p, "attach")
      BY <1>5 DEF NextNode, Now, Records
    <2>2. /\ proc'[p].pc = "write" /\ proc'[p].todo = proc[p].todo \ {Current(p)}
          /\ proc'[p].book = b /\ proc[p].fresh
      BY <2>1 DEF Records, IsRecord
    <2> QED
      BY <2>1, <2>2 DEF Progress, At
  <1>6. CASE Commit(p)
    <2>1. /\ proc'[p] = [proc[p] EXCEPT !.pc = "report"] /\ At(p, "write")
          /\ proc[p].todo = {} /\ disk' = disk /\ head'.disk = disk
      BY <1>6 DEF Commit, Now, Records
    <2>2. /\ proc'[p].pc = "report" /\ proc'[p].todo = {}
          /\ proc'[p].book = b /\ proc[p].fresh
      BY <2>1 DEF Records, IsRecord
    <2> QED
      BY <2>1, <2>2 DEF Progress, At
  <1>7. CASE Report(p) \/ Stop(p)
    BY <1>7, Rested DEF Report, Stop, Ends, Now, Records
  <1>8. ASSUME NEW apply \in BOOLEAN, ReadNotebook(p, apply) PROVE Progress(p)'
    BY <1>8, Rested DEF ReadNotebook, Now, Records, IsRecord
  <1>9. ASSUME NEW a \in Asset, AddAttachment(p, a) PROVE Progress(p)'
    <2>1. /\ proc'[p] = [proc[p] EXCEPT !.left = @ \ {a}] /\ At(p, "attach")
          /\ disk' = disk /\ head' = head
      BY <1>9 DEF AddAttachment, Now, Records
    <2>2. /\ proc'[p].pc = "attach" /\ proc'[p].todo = proc[p].todo
          /\ proc'[p].book = b /\ proc[p].fresh
      BY <2>1 DEF Records, IsRecord, At
    <2>3. Current(p)' = Current(p)
      BY <2>2 DEF Current
    <2> QED
      BY <2>1, <2>2, <2>3 DEF Progress, At
  <1> QED
    BY <1>1, <1>2, <1>3, <1>4, <1>5, <1>6, <1>7, <1>8, <1>9 DEF Import

-----------------------------------------------------------------------------
(* The theorems *)

\* One import holds the lock at a time, and one that saw the folder it locked
\* knows of every page in it, whatever people do meanwhile.
THEOREM Inductive == Spec => []IInv
  BY FirstState, InductiveStep, PTL DEF Spec

\* No import removes or rewrites a page that is in the folder (create_page under
\* a free name is all it does to pages; "no --overwrite").
THEOREM NothingIsOverwritten == Spec => NothingOverwritten
  <1>1. IInv /\ [Next]_vars =>
            [people' = people =>
                \A f \in DOMAIN disk : f \in DOMAIN disk' /\ disk'[f] = disk[f]]_vars
    <2> SUFFICES ASSUME IInv, Next, people' = people, NEW f \in DOMAIN disk
                 PROVE  f \in DOMAIN disk' /\ disk'[f] = disk[f]
      OBVIOUS
    <2>1. PICK p \in Process : Import(p)
      BY PeopleCount DEF Next, IInv, Records, IsRecord
    <2>2. CASE CreatePage(p)
      BY <2>2, Creation DEF IInv
    <2> QED
      BY <2>1, <2>2, OnlyCreation
  <1> QED
    BY <1>1, Inductive, PTL DEF Spec, NothingOverwritten

\* An import that saw the folder it locked creates no page under an id the folder
\* has (cmd_import's plan, create_page's refusal): importing twice is importing once.
THEOREM NothingTwice == Spec => NoSecondPage
  <1>1. IInv /\ [Next]_vars =>
            [\A p \in Process :
                proc[p].fresh /\ proc'[p] # proc[p] =>
                   \A f \in DOMAIN disk' \ DOMAIN disk : disk'[f].id \notin Ids(disk)]_vars
    <2> SUFFICES ASSUME IInv, Next, NEW p \in Process, proc[p].fresh, proc'[p] # proc[p],
                        NEW f \in DOMAIN disk' \ DOMAIN disk
                 PROVE  disk'[f].id \notin Ids(disk)
      OBVIOUS
    <2>1. PICK q \in Process : Import(q)
      BY PeopleCount DEF Next, IInv, Records, IsRecord
    <2>2. CreatePage(q)
      BY <2>1, OnlyCreation
    <2>3. q = p
      BY <2>2, Creation DEF IInv, Records, IsRecord
    <2>4. PICK g, page : /\ page.id \notin Ids(proc[p].graph)
                         /\ DOMAIN disk' = DOMAIN disk \cup {g} /\ disk'[g] = page
      BY <2>2, <2>3, Creation DEF IInv
    <2> QED
      BY <2>4 DEF IInv, GraphCovers
  <1> QED
    BY <1>1, Inductive, PTL DEF Spec, NoSecondPage

\* An import that reports success, having seen the folder it locked, has committed
\* every node whose id is its own as the node's page, or as what people made of that
\* page since (cmd_import's plan, its refusal of occupied pages, its writes, and the
\* commit before the report).
THEOREM ReportsAreTrue == Spec => []ReportMeansImported
  <1>1. Init => ReportInv
    <2> SUFFICES ASSUME Init PROVE ReportInv
      OBVIOUS
    <2>1. IInv
      BY FirstState
    <2>2. Folder(<<>>)
      BY FS_EmptySet DEF Folder, IsFolder
    <2>3. /\ disk = <<>> /\ head.disk = <<>> /\ file \in Book
          /\ proc = [p \in Process |-> Idle]
      BY DEF Init
    <2>4. Idle.book \in Book /\ Idle.todo = {}
      BY <2>3 DEF Idle
    <2>5. Folders
      BY <2>2, <2>3, <2>4 DEF Folders
    <2> QED
      BY <2>1, <2>3, <2>5, Rested DEF ReportInv
  <1>2. ReportInv /\ [Next]_vars => ReportInv'
    <2> SUFFICES ASSUME ReportInv, [Next]_vars, NEW p \in Process, proc'[p].fresh
                 PROVE  Progress(p)'
      BY InductiveStep, FoldersKept DEF ReportInv
    <2>1. CASE Import(p)
      BY <2>1, OwnProgress DEF ReportInv
    <2>2. CASE UNCHANGED vars \/ People \/ \E q \in Process \ {p} : Import(q)
      <3>1. proc[p].fresh
        BY <2>2, FreshIsOwn DEF ReportInv, IInv
      <3> QED
        BY <2>2, <3>1, OthersKeepProgress DEF ReportInv
    <2> QED
      BY <2>1, <2>2 DEF Next
  <1>3. ReportInv => ReportMeansImported
    <2> SUFFICES ASSUME ReportInv, NEW p \in Process, At(p, "report"), proc[p].fresh,
                        NEW i \in DOMAIN Nodes[proc[p].book],
                        \A j \in DOMAIN Nodes[proc[p].book] \ {i} :
                           Nodes[proc[p].book][j].sid # Nodes[proc[p].book][i].sid
                 PROVE  \E f \in DOMAIN head.disk : IsPageOf(head.disk[f], proc[p].book, i)
      BY DEF ReportMeansImported
    <2> DEFINE b == proc[p].book
    <2>1. Done(head.disk, b, i) /\ b \in Book
      BY DEF ReportInv, Progress, Folders
    <2>2. PICK f \in DOMAIN head.disk : head.disk[f].source = <<b, Nodes[b][i].sid>>
      BY <2>1 DEF Done
    <2>3. head.disk[f] \in Page /\ Original(head.disk[f])
      BY DEF ReportInv, Folders, Folder, IsFolder
    <2>4. PICK c \in Book : \E j \in DOMAIN Nodes[c] : IsPageOf(head.disk[f], c, j)
      BY <2>2, <2>3 DEF Original, NoMarker
    <2>5. PICK j \in DOMAIN Nodes[c] : IsPageOf(head.disk[f], c, j)
      BY <2>4
    <2>6. <<c, Nodes[c][j].sid>> = <<b, Nodes[b][i].sid>>
      BY <2>2, <2>5 DEF IsPageOf
    <2>7. c = b /\ j = i
      BY <2>6
    <2> QED
      BY <2>5, <2>7
  <1> QED
    BY <1>1, <1>2, <1>3, PTL DEF Spec

-----------------------------------------------------------------------------
(* Sequences of whatever they hold *)

SeqLike(s) == s \in Seq({s[i] : i \in DOMAIN s})

\* The numbers of a sequence's places.
LEMMA PlacesOf ==
    ASSUME NEW s, SeqLike(s)
    PROVE  Len(s) \in Nat /\ DOMAIN s = 1 .. Len(s)
  BY LenProperties DEF SeqLike

\* A function on the first n numbers is a sequence.
LEMMA FirstPlaces ==
    ASSUME NEW n \in Nat, NEW s, s = [i \in 1 .. n |-> s[i]]
    PROVE  SeqLike(s) /\ Len(s) = n /\ DOMAIN s = 1 .. n
  <1> DEFINE S == {s[i] : i \in DOMAIN s}
  <1>1. DOMAIN s = 1 .. n
    OBVIOUS
  <1>2. s \in [1 .. n -> S]
    BY <1>1
  <1>3. s \in Seq(S)
    BY <1>2
  <1>4. Len(s) = n
    BY <1>1, <1>3, LenProperties
  <1> QED
    BY <1>1, <1>3, <1>4 DEF SeqLike

\* Sequences that agree place by place are one.
LEMMA SamePlaces ==
    ASSUME NEW s, NEW t, SeqLike(s), SeqLike(t), Len(s) = Len(t),
           \A i \in 1 .. Len(s) : s[i] = t[i]
    PROVE  s = t
  <1> DEFINE S == {s[i] : i \in DOMAIN s} \cup {t[i] : i \in DOMAIN t}
  <1>1. s \in Seq(S) /\ t \in Seq(S)
    BY SeqMonotonic DEF SeqLike
  <1> QED
    BY <1>1, SeqEqual

\* One more at the end.
LEMMA OneMore ==
    ASSUME NEW s, SeqLike(s), NEW x
    PROVE  /\ SeqLike(Append(s, x)) /\ Len(Append(s, x)) = Len(s) + 1
           /\ \A i \in 1 .. Len(s) : Append(s, x)[i] = s[i]
           /\ Append(s, x)[Len(s) + 1] = x
           /\ Front(Append(s, x)) = s /\ Last(Append(s, x)) = x /\ Append(s, x) # <<>>
  <1> DEFINE S == {s[i] : i \in DOMAIN s} \cup {x}
             t == Append(s, x)
  <1>1. s \in Seq(S) /\ x \in S
    BY SeqMonotonic DEF SeqLike
  <1>2. /\ t \in Seq(S) /\ Len(t) = Len(s) + 1 /\ t # <<>>
        /\ \A i \in 1 .. Len(s) : t[i] = s[i]
        /\ t[Len(s) + 1] = x
    BY <1>1, AppendProperties
  <1>3. Len(s) \in Nat /\ DOMAIN s = 1 .. Len(s) /\ DOMAIN t = 1 .. Len(t)
    BY <1>1, <1>2, LenProperties
  <1> HIDE DEF t
  <1>4. t = [i \in 1 .. Len(t) |-> t[i]]
    BY <1>2, <1>3
  <1>5. SeqLike(t)
    BY <1>2, <1>3, <1>4, FirstPlaces
  <1>6. Last(t) = x
    BY <1>2 DEF Last
  <1>7. Front(t) = s
    <2>1. Len(t) - 1 = Len(s)
      BY <1>2, <1>3
    <2>2. \A i \in 1 .. Len(s) : t[i] \in S
      BY <1>1, <1>2, ElementOfSeq
    <2>3. /\ SubSeq(t, 1, Len(s)) \in Seq(S) /\ Len(SubSeq(t, 1, Len(s))) = Len(s)
          /\ \A i \in 1 .. Len(s) : SubSeq(t, 1, Len(s))[i] = t[i]
      BY <1>3, <2>2, SubSeqProperties
    <2>4. SubSeq(t, 1, Len(s)) = s
      BY <1>1, <1>2, <2>3, SeqEqual
    <2> QED
      BY <2>1, <2>4 DEF Front
  <1> QED
    BY <1>2, <1>5, <1>6, <1>7 DEF t

-----------------------------------------------------------------------------
(* Listed: the values of a function in the order of its numbers *)

\* How many there are up to a number, and that a finite list is a sequence.
LEMMA ListedIsSequence ==
    ASSUME NEW f, IsFiniteSet(DOMAIN f)
    PROVE  /\ SeqLike(Listed(f)) /\ Len(Listed(f)) = Cardinality(DOMAIN f)
           /\ Cardinality(DOMAIN f) \in Nat
  <1> DEFINE n == Cardinality(DOMAIN f)
             s == Listed(f)
  <1>1. n \in Nat
    BY FS_CardinalityType
  <1>2. s = [i \in 1 .. n |-> s[i]]
    BY DEF Listed
  <1> HIDE DEF s, n
  <1>3. SeqLike(s) /\ Len(s) = n
    BY <1>1, <1>2, FirstPlaces
  <1> QED
    BY <1>1, <1>3 DEF s, n

\* Nothing to list.
LEMMA NothingListed ==
    ASSUME NEW f, DOMAIN f = {}
    PROVE  Listed(f) = <<>>
  <1>1. Cardinality({}) = 0 /\ 1 .. 0 = {}
    BY FS_EmptySet
  <1> QED
    BY <1>1 DEF Listed

\* The rank of a number is between 1 and how many there are.
LEMMA RankIsBound ==
    ASSUME NEW S, IsFiniteSet(S), S \subseteq Int, NEW i \in S
    PROVE  Upto(S, i) \in 1 .. Cardinality(S)
  <1> DEFINE U == {j \in S : j <= i}
  <1>1. IsFiniteSet(U) /\ Cardinality(U) <= Cardinality(S)
    BY FS_Subset
  <1>2. i \in U
    OBVIOUS
  <1>3. Cardinality(U) \in Nat /\ Cardinality(U) # 0 /\ Cardinality(S) \in Nat
    BY <1>1, <1>2, FS_CardinalityType, FS_EmptySet
  <1> HIDE DEF U
  <1>4. Cardinality(U) \in 1 .. Cardinality(S)
    BY <1>1, <1>3
  <1> QED
    BY <1>4 DEF Upto, U

\* A later number has a higher rank.
LEMMA RankGrows ==
    ASSUME NEW S, IsFiniteSet(S), S \subseteq Int, NEW i \in S, NEW j \in S, i < j
    PROVE  Upto(S, i) < Upto(S, j)
  <1> DEFINE U == {n \in S : n <= i}
             V == {n \in S : n <= j}
  <1>1. IsFiniteSet(U) /\ IsFiniteSet(V)
    BY FS_Subset
  <1>2. U \subseteq V /\ j \in V /\ j \notin U
    <2>1. i \in Int /\ j \in Int /\ \A n \in S : n \in Int
      OBVIOUS
    <2>2. j \in V /\ j \notin U
      BY <2>1
    <2>3. ASSUME NEW n \in U PROVE n \in V
      BY <2>1
    <2> QED
      BY <2>2, <2>3
  <1> HIDE DEF U, V
  <1>3. Cardinality(U) <= Cardinality(V) /\ Cardinality(U) # Cardinality(V)
    BY <1>1, <1>2, FS_Subset
  <1>4. Cardinality(U) \in Nat /\ Cardinality(V) \in Nat
    BY <1>1, FS_CardinalityType
  <1>5. Cardinality(U) < Cardinality(V)
    BY <1>3, <1>4
  <1> QED
    BY <1>5 DEF Upto, U, V

\* The number of those up to i, when all else is above i, is as before.
LEMMA UptoGrows ==
    ASSUME NEW S, IsFiniteSet(S), S \subseteq Int, NEW m \in Int, \A i \in S : i < m
    PROVE  /\ \A i \in S : Upto(S \cup {m}, i) = Upto(S, i) /\ Upto(S, i) \in 1 .. Cardinality(S)
           /\ Upto(S \cup {m}, m) = Cardinality(S) + 1
           /\ Cardinality(S \cup {m}) = Cardinality(S) + 1
           /\ IsFiniteSet(S \cup {m}) /\ Cardinality(S) \in Nat
  <1> DEFINE T == S \cup {m}
  <1>1. Cardinality(S) \in Nat /\ IsFiniteSet(T) /\ Cardinality(T) = Cardinality(S) + 1
    BY FS_CardinalityType, FS_AddElement
  <1>2. {j \in T : j <= m} = T
    <2>1. \A j \in T : j <= m
      OBVIOUS
    <2> HIDE DEF T
    <2> QED
      BY <2>1
  <1>3. ASSUME NEW i \in S
        PROVE  Upto(T, i) = Upto(S, i) /\ Upto(S, i) \in 1 .. Cardinality(S)
    <2>1. ~(m <= i) /\ \A j : j \in T <=> j \in S \/ j = m
      OBVIOUS
    <2> HIDE DEF T
    <2>2. {j \in T : j <= i} = {j \in S : j <= i}
      BY <2>1
    <2> QED
      BY <2>2, RankIsBound DEF Upto
  <1> QED
    BY <1>1, <1>2, <1>3 DEF Upto

\* Each rank is taken: no two numbers of a set have the same.
LEMMA RanksTaken ==
    ASSUME NEW S, IsFiniteSet(S), S \subseteq Int, NEW k \in 1 .. Cardinality(S)
    PROVE  {i \in S : Upto(S, i) = k} # {}
  <1> DEFINE N == Cardinality(S)
  <1>1. N \in Nat
    BY FS_CardinalityType
  <1>2. \A i \in S : Upto(S, i) \in 1 .. N
    BY RankIsBound
  <1>3. ASSUME NEW i \in S, NEW j \in S, i < j PROVE Upto(S, i) < Upto(S, j)
    BY <1>3, RankGrows
  <1>4. ASSUME NEW i \in S, NEW j \in S, Upto(S, i) = Upto(S, j) PROVE i = j
    <2>1. i \in Int /\ j \in Int /\ ~(i < j) /\ ~(j < i)
      BY <1>1, <1>2, <1>3, <1>4
    <2> QED
      BY <2>1
  <1>5. SUFFICES ASSUME \A i \in S : Upto(S, i) # k PROVE FALSE
    OBVIOUS
  <1> DEFINE T == (1 .. N) \ {k}
             f == [i \in S |-> Upto(S, i)]
  <1>6. IsFiniteSet(1 .. N) /\ Cardinality(1 .. N) = N
    BY <1>1, FS_Interval
  <1>7. IsFiniteSet(T) /\ Cardinality(T) < N
    <2>1. IsFiniteSet(T) /\ Cardinality(T) = Cardinality(1 .. N) - 1
      BY <1>6, FS_RemoveElement
    <2> QED
      BY <1>1, <1>6, <2>1
  <1>8. f \in [S -> T]
    BY <1>2, <1>5
  <1> HIDE DEF f, T
  <1>9. PICK i \in S, j \in S : i # j /\ f[i] = f[j]
    BY <1>7, <1>8, FS_PigeonHole
  <1> QED
    BY <1>4, <1>9 DEF f

\* A place of a list holds the value of the number of that rank.
LEMMA ListedAt ==
    ASSUME NEW f, NEW k \in 1 .. Cardinality(DOMAIN f)
    PROVE  Listed(f)[k] = f[CHOOSE i \in {j \in DOMAIN f : Upto(DOMAIN f, j) = k} : TRUE]
  BY DEF Listed

\* One more number above the others: its value comes last.
LEMMA ListedGrows ==
    ASSUME NEW f, NEW g, NEW m \in Int, IsFiniteSet(DOMAIN f), DOMAIN f \subseteq Int,
           \A i \in DOMAIN f : i < m /\ g[i] = f[i], DOMAIN g = DOMAIN f \cup {m}
    PROVE  Listed(g) = Append(Listed(f), g[m])
  <1> DEFINE S == DOMAIN f
             T == DOMAIN g
             n == Cardinality(S)
  <1>1. /\ \A i \in S : Upto(T, i) = Upto(S, i) /\ Upto(S, i) \in 1 .. n
        /\ Upto(T, m) = n + 1 /\ Cardinality(T) = n + 1 /\ IsFiniteSet(T) /\ n \in Nat
    <2>1. /\ IsFiniteSet(S) /\ S \subseteq Int /\ (\A i \in S : i < m) /\ T = S \cup {m}
      OBVIOUS
    <2> HIDE DEF S, T, n
    <2>2. /\ \A i \in S : Upto(S \cup {m}, i) = Upto(S, i) /\ Upto(S, i) \in 1 .. Cardinality(S)
          /\ Upto(S \cup {m}, m) = Cardinality(S) + 1
          /\ Cardinality(S \cup {m}) = Cardinality(S) + 1
          /\ IsFiniteSet(S \cup {m}) /\ Cardinality(S) \in Nat
      BY <2>1, UptoGrows
    <2> QED
      BY <2>1, <2>2 DEF n
  <1>2. ASSUME NEW k \in 1 .. n
        PROVE  /\ Listed(g)[k] = Listed(f)[k]
    <2> DEFINE A == {j \in S : Upto(S, j) = k}
               B == {j \in T : Upto(T, j) = k}
    <2>1. A = B
      BY <1>1
    <2>2. k \in 1 .. Cardinality(T)
      BY <1>1
    <2>3. Listed(f)[k] = f[CHOOSE i \in A : TRUE]
      BY ListedAt
    <2>4. Listed(g)[k] = g[CHOOSE i \in B : TRUE]
      BY <2>2, ListedAt
    <2>5. A # {}
      BY RanksTaken
    <2> HIDE DEF A, B
    <2>6. (CHOOSE i \in A : TRUE) \in A
      BY <2>5
    <2> QED
      BY <2>1, <2>3, <2>4, <2>6 DEF A
  <1>3. Listed(g)[n + 1] = g[m]
    <2> DEFINE B == {j \in T : Upto(T, j) = n + 1}
    <2>1. B = {m}
      BY <1>1
    <2>2. Listed(g)[n + 1] = g[CHOOSE i \in B : TRUE]
      <3>1. n + 1 \in 1 .. Cardinality(T)
        BY <1>1
      <3> QED
        BY <3>1, ListedAt
    <2> HIDE DEF B
    <2>3. (CHOOSE i \in B : TRUE) = m
      BY <2>1
    <2> QED
      BY <2>2, <2>3
  <1>4. /\ SeqLike(Listed(f)) /\ Len(Listed(f)) = n
        /\ SeqLike(Listed(g)) /\ Len(Listed(g)) = n + 1
    BY <1>1, ListedIsSequence
  <1> DEFINE u == Append(Listed(f), g[m])
  <1>5. /\ SeqLike(u) /\ Len(u) = n + 1 /\ u[n + 1] = g[m]
        /\ \A k \in 1 .. n : u[k] = Listed(f)[k]
    BY <1>4, OneMore
  <1> HIDE DEF u
  <1>6. \A k \in 1 .. n + 1 : Listed(g)[k] = u[k]
    BY <1>1, <1>2, <1>3, <1>5
  <1>7. Listed(g) = u
    BY <1>4, <1>5, <1>6, SamePlaces
  <1> QED
    BY <1>7 DEF u

-----------------------------------------------------------------------------
(* FlattenSeq, one part at a time *)

Flattens(s, n, f) == f = [i \in 1 .. n |-> IF i = 1 THEN s[i] ELSE f[i - 1] \o s[i]]

\* Its value at a place.
LEMMA FlatteningAt ==
    ASSUME NEW s, NEW n, NEW f, Flattens(s, n, f), NEW i \in 1 .. n
    PROVE  f[i] = IF i = 1 THEN s[i] ELSE f[i - 1] \o s[i]
  <1> DEFINE G == [j \in 1 .. n |-> IF j = 1 THEN s[j] ELSE f[j - 1] \o s[j]]
  <1>1. f = G
    BY DEF Flattens
  <1>2. G[i] = IF i = 1 THEN s[i] ELSE f[i - 1] \o s[i]
    OBVIOUS
  <1> HIDE DEF G
  <1> QED
    BY <1>1, <1>2

\* There is a function that holds the first parts of s, one after the other,
LEMMA FlatteningExists ==
    ASSUME NEW s, NEW n \in Nat
    PROVE  \E f : Flattens(s, n, f)
  <1> DEFINE Bad == {m \in Nat : ~\E f : Flattens(s, m, f)}
  <1>1. ASSUME Bad # {} PROVE FALSE
    <2>1. PICK m \in Bad : \A y \in Bad : m <= y
      BY <1>1, LeastNumber
    <2>2. m # 0
      <3> DEFINE g == [i \in 1 .. 0 |-> s[i]]
      <3>1. Flattens(s, 0, g)
        BY DEF Flattens
      <3> QED
        BY <3>1
    <2>3. m - 1 \in Nat /\ m - 1 \notin Bad
      BY <2>1, <2>2
    <2>4. PICK f : Flattens(s, m - 1, f)
      BY <2>3
    <2> DEFINE g == [i \in 1 .. m |-> IF i = 1 THEN s[i] ELSE f[i - 1] \o s[i]]
    <2>5. ASSUME NEW i \in 1 .. m - 1 PROVE g[i] = f[i]
      <3>1. i \in 1 .. m
        BY <2>3
      <3>2. f[i] = IF i = 1 THEN s[i] ELSE f[i - 1] \o s[i]
        BY <2>4, FlatteningAt
      <3> QED
        BY <3>1, <3>2
    <2>6. \A i \in 1 .. m : g[i] = IF i = 1 THEN s[i] ELSE g[i - 1] \o s[i]
      <3> SUFFICES ASSUME NEW i \in 1 .. m, i # 1 PROVE g[i] = g[i - 1] \o s[i]
        OBVIOUS
      <3>1. i - 1 \in 1 .. m - 1
        BY <2>1
      <3> QED
        BY <3>1, <2>5
    <2>7. Flattens(s, m, g)
      <3> HIDE DEF g
      <3>1. g = [i \in 1 .. m |-> g[i]]
        BY DEF g
      <3> QED
        BY <2>6, <3>1 DEF Flattens
    <2> QED
      BY <2>7
  <1> QED
    BY <1>1

\* its last value is what the whole is flattened to,
LEMMA FlattenByParts ==
    ASSUME NEW s, SeqLike(s), s # <<>>
    PROVE  \E f : Flattens(s, Len(s), f) /\ FlattenSeq(s) = f[Len(s)] /\ Len(s) > 0
  <1>1. Len(s) \in Nat /\ DOMAIN s = 1 .. Len(s)
    BY PlacesOf
  <1>2. Len(s) # 0
    BY EmptySeq DEF SeqLike
  <1> DEFINE f == CHOOSE g : Flattens(s, Len(s), g)
  <1>3. Flattens(s, Len(s), f)
    BY <1>1, FlatteningExists
  <1>4. FlattenSeq(s) = f[Len(s)]
    BY <1>2 DEF FlattenSeq, Flattens
  <1> HIDE DEF f
  <1> QED
    BY <1>1, <1>2, <1>3, <1>4

\* and two such functions of sequences that agree on their first parts agree there.
LEMMA FlatteningsAgree ==
    ASSUME NEW s, NEW t, NEW n \in Nat, NEW m \in Nat, n <= m,
           \A i \in 1 .. n : s[i] = t[i],
           NEW f, NEW g, Flattens(s, n, f), Flattens(t, m, g)
    PROVE  n \in 1 .. n => f[n] = g[n]
  <1> DEFINE Bad == {i \in Nat : i \in 1 .. n /\ ~(f[i] = g[i])}
  <1>1. ASSUME Bad # {} PROVE FALSE
    <2>1. PICK i \in Bad : \A y \in Bad : i <= y
      BY <1>1, LeastNumber
    <2>2. i \in 1 .. n /\ i \in 1 .. m
      BY <2>1
    <2>3. /\ f[i] = IF i = 1 THEN s[i] ELSE f[i - 1] \o s[i]
          /\ g[i] = IF i = 1 THEN t[i] ELSE g[i - 1] \o t[i]
      BY <2>2, FlatteningAt
    <2>4. CASE i = 1
      BY <2>1, <2>2, <2>3, <2>4
    <2>5. CASE i # 1
      <3>1. i - 1 \in Nat /\ i - 1 \notin Bad /\ i - 1 \in 1 .. n
        BY <2>1, <2>2, <2>5
      <3>2. f[i - 1] = g[i - 1]
        BY <3>1
      <3> QED
        BY <2>1, <2>2, <2>3, <2>5, <3>2
    <2> QED
      BY <2>4, <2>5
  <1> QED
    BY <1>1

\* A sequence one part longer flattens to that part more.
LEMMA FlattenLonger ==
    ASSUME NEW s, SeqLike(s), NEW n \in Nat, Len(s) = n, s # <<>>,
           NEW t, SeqLike(t), Len(t) = n + 1, t # <<>>,
           \A i \in 1 .. n : s[i] = t[i]
    PROVE  FlattenSeq(t) = FlattenSeq(s) \o t[n + 1]
  <1>1. PICK f : Flattens(s, n, f) /\ FlattenSeq(s) = f[n] /\ n > 0
    BY FlattenByParts
  <1>2. PICK g : Flattens(t, n + 1, g) /\ FlattenSeq(t) = g[n + 1]
    BY FlattenByParts
  <1>3. n + 1 \in Nat /\ n <= n + 1 /\ n \in 1 .. n /\ n + 1 \in 1 .. n + 1 /\ n + 1 # 1
        /\ (n + 1) - 1 = n
    BY <1>1
  <1>4. f[n] = g[n]
    BY <1>1, <1>2, <1>3, FlatteningsAgree, SMTT(20)
  <1>5. g[n + 1] = g[n] \o t[n + 1]
    <2>1. g[n + 1] = IF n + 1 = 1 THEN t[n + 1] ELSE g[(n + 1) - 1] \o t[n + 1]
      <3>1. \A i \in 1 .. n + 1 : g[i] = IF i = 1 THEN t[i] ELSE g[i - 1] \o t[i]
        BY <1>2, FlatteningAt
      <3> QED
        BY <1>3, <3>1
    <2> QED
      BY <1>3, <2>1
  <1> QED
    BY <1>1, <1>2, <1>4, <1>5

\* Nothing flattens to nothing, and one more part comes at the end.
LEMMA FlattenOneMore ==
    ASSUME NEW s, SeqLike(s), NEW x, SeqLike(x)
    PROVE  FlattenSeq(<<>>) = <<>> /\ FlattenSeq(Append(s, x)) = FlattenSeq(s) \o x
  <1>1. FlattenSeq(<<>>) = <<>>
    BY EmptySeq DEF FlattenSeq
  <1> DEFINE t == Append(s, x)
  <1>2. /\ SeqLike(t) /\ Len(t) = Len(s) + 1 /\ t # <<>>
        /\ \A i \in 1 .. Len(s) : t[i] = s[i]
        /\ t[Len(s) + 1] = x
    BY OneMore
  <1> HIDE DEF t
  <1>3. CASE s = <<>>
    <2>1. PICK g : Flattens(t, Len(t), g) /\ FlattenSeq(t) = g[Len(t)]
      BY <1>2, FlattenByParts
    <2>2. Len(t) = 1
      BY <1>2, <1>3, EmptySeq
    <2>3. g[1] = t[1]
      BY <2>1, <2>2, FlatteningAt
    <2>4. <<>> \o x = x
      BY ConcatEmptySeq DEF SeqLike
    <2>5. FlattenSeq(t) = x /\ FlattenSeq(s) \o x = x
      BY <1>1, <1>2, <1>3, <2>1, <2>2, <2>3, <2>4
    <2> QED
      BY <1>1, <2>5 DEF t
  <1>4. CASE s # <<>>
    <2>1. Len(s) \in Nat /\ \A i \in 1 .. Len(s) : s[i] = t[i]
      BY <1>2, PlacesOf
    <2>2. FlattenSeq(t) = FlattenSeq(s) \o t[Len(s) + 1]
      BY <1>2, <1>4, <2>1, FlattenLonger
    <2> QED
      BY <1>1, <1>2, <2>2 DEF t
  <1> QED
    BY <1>3, <1>4

-----------------------------------------------------------------------------
(* Nodes that start, end and are open *)

\* What is relied on in the file that is read.
LEMMA FileFacts ==
    ASSUME NEW es, WellFormed(es)
    PROVE  /\ SeqLike(es) /\ WellFormed(es)
           /\ Len(es) \in Nat /\ DOMAIN es = 1 .. Len(es)
  <1>1. es \in Seq(Range(es)) /\ WellFormed(es)
    BY DEF WellFormed
  <1>2. Range(es) = {es[i] : i \in DOMAIN es}
    BY DEF Range
  <1>3. SeqLike(es)
    BY <1>1, <1>2 DEF SeqLike
  <1> QED
    BY <1>1, <1>3, PlacesOf

\* One more event: it is a node's start or end, or nothing to count.
LEMMA NodesGrow ==
    ASSUME NEW es, NEW p \in Nat, NEW k \in 1 .. p, NEW is
    PROVE  /\ IsFiniteSet(NodesIn(es, k, p, is)) /\ IsFiniteSet(NodesIn(es, k, p - 1, is))
           /\ Cardinality(NodesIn(es, k, p, is)) \in Nat
           /\ Cardinality(NodesIn(es, k, p - 1, is)) \in Nat
           /\ Is(es, p, is, "node") =>
                 /\ NodesIn(es, k, p, is) = NodesIn(es, k, p - 1, is) \cup {p}
                 /\ Cardinality(NodesIn(es, k, p, is)) = Cardinality(NodesIn(es, k, p - 1, is)) + 1
           /\ ~Is(es, p, is, "node") => NodesIn(es, k, p, is) = NodesIn(es, k, p - 1, is)
  <1> DEFINE S == NodesIn(es, k, p - 1, is)
             T == NodesIn(es, k, p, is)
  <1>1. IsFiniteSet(k .. p) /\ IsFiniteSet(k .. (p - 1))
    BY FS_Interval
  <1>2. IsFiniteSet(S) /\ IsFiniteSet(T)
    BY <1>1, FS_Subset DEF NodesIn
  <1>3. Cardinality(S) \in Nat /\ Cardinality(T) \in Nat
    BY <1>2, FS_CardinalityType
  <1>4. Is(es, p, is, "node") => T = S \cup {p}
    BY DEF NodesIn
  <1>5. ~Is(es, p, is, "node") => T = S
    BY DEF NodesIn
  <1>6. p \notin S
    BY DEF NodesIn
  <1> HIDE DEF S, T
  <1>7. Cardinality(S \cup {p}) = Cardinality(S) + 1
    BY <1>2, <1>6, FS_AddElement
  <1> QED
    BY <1>2, <1>3, <1>4, <1>5, <1>7 DEF S, T

\* The open nodes are finitely many positions before p.
LEMMA OpenIsFinite ==
    ASSUME NEW es, NEW p \in Nat
    PROVE  /\ Open(es, p) \subseteq 1 .. (p - 1) /\ Open(es, p) \subseteq Int /\ IsFiniteSet(Open(es, p))
           /\ Open(es, p) \subseteq NodesIn(es, 1, p - 1, "start")
           /\ Cardinality(Open(es, p)) \in Nat
  <1>1. Open(es, p) \subseteq 1 .. (p - 1)
    BY DEF Open
  <1>2. IsFiniteSet(1 .. (p - 1))
    BY FS_Interval
  <1>3. Open(es, p) \subseteq NodesIn(es, 1, p - 1, "start")
    BY DEF Open, NodesIn
  <1>4. IsFiniteSet(Open(es, p))
    BY <1>1, <1>2, FS_Subset
  <1> QED
    BY <1>1, <1>3, <1>4, FS_CardinalityType

\* The holder is the last of them,
LEMMA HolderIs ==
    ASSUME NEW es, NEW p \in Nat, NEW m \in Open(es, p), \A j \in Open(es, p) : j <= m
    PROVE  Holder(es, p) = m
  <1>1. m \in Nat /\ \A j \in Open(es, p) : j \in Nat
    BY OpenIsFinite
  <1>2. \A k \in Open(es, p) : (\A j \in Open(es, p) : j <= k) <=> k = m
    BY <1>1
  <1> QED
    BY <1>2 DEF Holder

\* when there is one.
LEMMA LastOpen ==
    ASSUME NEW es, NEW p \in Nat, Open(es, p) # {}
    PROVE  Holder(es, p) \in Open(es, p) /\ \A j \in Open(es, p) : j <= Holder(es, p)
  <1>1. \A j \in Open(es, p) : j \in 1 .. (p - 1)
    BY OpenIsFinite
  <1> DEFINE T == {i \in Nat : p - i \in Open(es, p)}
  <1>2. T # {}
    <2>1. PICK j \in Open(es, p) : TRUE
      OBVIOUS
    <2>2. p - j \in Nat /\ p - (p - j) = j
      BY <1>1, <2>1
    <2> QED
      BY <2>1, <2>2
  <1>3. PICK i \in T : \A y \in T : i <= y
    BY <1>2, LeastNumber
  <1>4. ASSUME NEW j \in Open(es, p) PROVE j <= p - i
    <2>1. p - j \in Nat /\ p - (p - j) = j /\ i \in Nat
      BY <1>1, <1>3
    <2>2. i <= p - j
      BY <1>3, <2>1
    <2> QED
      BY <1>1, <2>1, <2>2
  <1>5. p - i \in Open(es, p)
    BY <1>3
  <1>6. Holder(es, p) = p - i
    BY <1>4, <1>5, HolderIs
  <1> QED
    BY <1>4, <1>5, <1>6

\* A holder is before what it holds, and a node.
LEMMA HolderBefore ==
    ASSUME NEW es, NEW p \in Nat
    PROVE  /\ Holder(es, p) \in Nat
           /\ p # 0 => Holder(es, p) < p
           /\ Holder(es, p) # 0 => Holder(es, p) \in Open(es, p) /\ Holder(es, p) \in NodesIn(es, 1, p - 1, "start")
           /\ Holder(es, p) = 0 <=> Open(es, p) = {}
  <1>1. CASE Open(es, p) = {}
    <2>1. Holder(es, p) = 0
      BY <1>1 DEF Holder
    <2> QED
      BY <1>1, <2>1
  <1>2. CASE Open(es, p) # {}
    <2>1. Holder(es, p) \in Open(es, p)
      BY <1>2, LastOpen
    <2>2. Holder(es, p) \in 1 .. (p - 1) /\ Holder(es, p) \in NodesIn(es, 1, p - 1, "start")
      BY <2>1, OpenIsFinite
    <2> QED
      BY <1>2, <2>1, <2>2
  <1> QED
    BY <1>1, <1>2

\* A node stays open while more have started than ended.
LEMMA StaysOpen ==
    ASSUME NEW es, NEW p \in Nat, NEW k \in 1 .. (p - 1)
    PROVE  k \in Open(es, p + 1) <=>
               /\ k \in Open(es, p)
               /\ Cardinality(NodesIn(es, k, p, "start")) > Cardinality(NodesIn(es, k, p, "end"))
  <1>1. k \in 1 .. p /\ (p + 1) - 1 = p /\ p \in k .. p
    OBVIOUS
  <1>2. \A j \in k .. p : j = p \/ j \in k .. (p - 1)
    OBVIOUS
  <1>3. \A j \in k .. (p - 1) : j \in k .. p
    OBVIOUS
  <1> QED
    BY <1>1, <1>2, <1>3 DEF Open

\* One that starts is open, nothing else is after it.
LEMMA OpensItself ==
    ASSUME NEW es, NEW p \in Nat, p # 0
    PROVE  p \in Open(es, p + 1) <=> Is(es, p, "start", "node")
  <1>1. p \in 1 .. p /\ (p + 1) - 1 = p /\ p .. p = {p} /\ p .. (p - 1) = {}
    OBVIOUS
  <1>2. ASSUME Is(es, p, "start", "node") PROVE p \in Open(es, p + 1)
    <2>1. NodesIn(es, p, p, "start") = {p} /\ NodesIn(es, p, p, "end") = {}
      BY <1>1, <1>2 DEF NodesIn, Is
    <2>2. Cardinality({p}) = 1 /\ Cardinality({}) = 0
      BY FS_Singleton, FS_EmptySet
    <2>3. Cardinality(NodesIn(es, p, p, "start")) > Cardinality(NodesIn(es, p, p, "end"))
      BY <2>1, <2>2
    <2> QED
      BY <1>1, <1>2, <2>3 DEF Open
  <1> QED
    BY <1>2 DEF Open

Above(es, p, k) == {j \in Open(es, p) : k <= j}
Balance(es, p) ==
    \A k \in Open(es, p) : Cardinality(NodesIn(es, k, p - 1, "start"))
                          = Cardinality(NodesIn(es, k, p - 1, "end")) + Cardinality(Above(es, p, k))

\* How many are open from k on.
LEMMA AboveCount ==
    ASSUME NEW es, NEW p \in Nat, NEW k
    PROVE  /\ IsFiniteSet(Above(es, p, k)) /\ Cardinality(Above(es, p, k)) \in Nat
           /\ k \in Open(es, p) => Cardinality(Above(es, p, k)) > 0
  <1>1. IsFiniteSet(Above(es, p, k))
    BY OpenIsFinite, FS_Subset DEF Above
  <1>2. Cardinality(Above(es, p, k)) \in Nat
    BY <1>1, FS_CardinalityType
  <1>3. ASSUME k \in Open(es, p) PROVE Above(es, p, k) # {}
    <2>1. k \in Int
      BY <1>3, OpenIsFinite
    <2> QED
      BY <1>3, <2>1 DEF Above
  <1>4. k \in Open(es, p) => Cardinality(Above(es, p, k)) # 0
    BY <1>1, <1>3, FS_EmptySet
  <1> QED
    BY <1>1, <1>2, <1>4

\* A node that starts is opened, the others stay open.
LEMMA StartOpens ==
    ASSUME NEW es, NEW p \in Nat, p # 0, Balance(es, p), Is(es, p, "start", "node")
    PROVE  Open(es, p + 1) = Open(es, p) \cup {p} /\ Balance(es, p + 1)
  <1>1. /\ \A k \in 1 .. p : k = p \/ k \in 1 .. (p - 1)
        /\ (p + 1) - 1 = p /\ p + 1 \in Nat /\ p \in 1 .. p
    OBVIOUS
  <1>2. Open(es, p) \subseteq 1 .. (p - 1) /\ Open(es, p + 1) \subseteq 1 .. p
    BY <1>1, OpenIsFinite
  <1>3. ASSUME NEW k \in Open(es, p)
        PROVE  /\ k \in Open(es, p + 1)
               /\ Cardinality(NodesIn(es, k, p, "start"))
                     = Cardinality(NodesIn(es, k, p, "end")) + Cardinality(Above(es, p, k)) + 1
    <2>1. k \in 1 .. p /\ k \in 1 .. (p - 1)
      BY <1>2
    <2>2. ~Is(es, p, "end", "node")
      BY DEF Is
    <2>3. /\ Cardinality(NodesIn(es, k, p, "start")) = Cardinality(NodesIn(es, k, p - 1, "start")) + 1
          /\ Cardinality(NodesIn(es, k, p, "end")) = Cardinality(NodesIn(es, k, p - 1, "end"))
          /\ Cardinality(NodesIn(es, k, p - 1, "end")) \in Nat
      BY <2>1, <2>2, NodesGrow
    <2>4. Cardinality(Above(es, p, k)) \in Nat
      BY AboveCount
    <2>5. Cardinality(NodesIn(es, k, p - 1, "start"))
             = Cardinality(NodesIn(es, k, p - 1, "end")) + Cardinality(Above(es, p, k))
      BY DEF Balance
    <2> QED
      BY <2>1, <2>3, <2>4, <2>5, StaysOpen
  <1>4. Open(es, p + 1) = Open(es, p) \cup {p}
    <2>1. p \in Open(es, p + 1)
      BY OpensItself
    <2>2. ASSUME NEW k \in Open(es, p + 1), k # p PROVE k \in Open(es, p)
      <3>1. k \in 1 .. (p - 1)
        BY <1>1, <1>2, <2>2
      <3> QED
        BY <2>2, <3>1, StaysOpen
    <2> QED
      BY <1>3, <2>1, <2>2
  <1>5. ASSUME NEW k \in Open(es, p)
        PROVE  Cardinality(Above(es, p + 1, k)) = Cardinality(Above(es, p, k)) + 1
    <2>1. k \in 1 .. (p - 1) /\ p \notin Open(es, p)
      BY <1>2
    <2>2. Above(es, p + 1, k) = Above(es, p, k) \cup {p} /\ p \notin Above(es, p, k)
      BY <1>4, <2>1 DEF Above
    <2> QED
      BY <2>2, AboveCount, FS_AddElement
  <1>6. Cardinality(Above(es, p + 1, p)) = 1
    <2>1. Above(es, p + 1, p) = {p}
      BY <1>2, <1>4 DEF Above
    <2> QED
      BY <2>1, FS_Singleton
  <1>7. Cardinality(NodesIn(es, p, p, "start")) = 1 /\ Cardinality(NodesIn(es, p, p, "end")) = 0
    <2>1. p .. p = {p}
      OBVIOUS
    <2>2. NodesIn(es, p, p, "start") = {p} /\ NodesIn(es, p, p, "end") = {}
      BY <2>1 DEF NodesIn, Is
    <2> QED
      BY <2>2, FS_Singleton, FS_EmptySet
  <1>8. ASSUME NEW k \in Open(es, p + 1)
        PROVE  Cardinality(NodesIn(es, k, p, "start"))
                  = Cardinality(NodesIn(es, k, p, "end")) + Cardinality(Above(es, p + 1, k))
    <2>1. CASE k = p
      BY <1>6, <1>7, <2>1
    <2>2. CASE k # p
      <3>1. k \in Open(es, p) /\ k \in 1 .. p
        BY <1>2, <1>4, <2>2
      <3>2. Cardinality(Above(es, p, k)) \in Nat /\ Cardinality(NodesIn(es, k, p, "end")) \in Nat
        BY <3>1, AboveCount, NodesGrow
      <3> QED
        BY <1>3, <1>5, <3>1, <3>2
    <2> QED
      BY <2>1, <2>2
  <1> QED
    BY <1>1, <1>4, <1>8 DEF Balance

\* A node that ends is the last that is open, if one is.
LEMMA EndCloses ==
    ASSUME NEW es, NEW p \in Nat, p # 0, Balance(es, p), Is(es, p, "end", "node")
    PROVE  Open(es, p + 1) = Open(es, p) \ {Holder(es, p)} /\ Balance(es, p + 1)
  <1>1. /\ \A k \in 1 .. p : k = p \/ k \in 1 .. (p - 1)
        /\ (p + 1) - 1 = p /\ p + 1 \in Nat
    OBVIOUS
  <1>2. Open(es, p) \subseteq 1 .. (p - 1) /\ Open(es, p + 1) \subseteq 1 .. p
    BY <1>1, OpenIsFinite
  <1>3. p \notin Open(es, p + 1)
    BY OpensItself DEF Is
  <1>4. Open(es, p + 1) \subseteq Open(es, p)
    <2> SUFFICES ASSUME NEW k \in Open(es, p + 1) PROVE k \in Open(es, p)
      OBVIOUS
    <2>1. k \in 1 .. (p - 1)
      BY <1>1, <1>2, <1>3
    <2> QED
      BY <2>1, StaysOpen
  <1> DEFINE m == Holder(es, p)
  <1>5. ASSUME NEW k \in Open(es, p)
        PROVE  /\ Cardinality(NodesIn(es, k, p, "start")) + 1
                     = Cardinality(NodesIn(es, k, p, "end")) + Cardinality(Above(es, p, k))
               /\ k \in Open(es, p + 1) <=> Cardinality(Above(es, p, k)) > 1
               /\ Cardinality(NodesIn(es, k, p, "end")) \in Nat
               /\ Cardinality(NodesIn(es, k, p, "start")) \in Nat
    <2>1. k \in 1 .. p /\ k \in 1 .. (p - 1)
      BY <1>2
    <2>2. ~Is(es, p, "start", "node")
      BY DEF Is
    <2>3. /\ Cardinality(NodesIn(es, k, p, "end")) = Cardinality(NodesIn(es, k, p - 1, "end")) + 1
          /\ Cardinality(NodesIn(es, k, p, "start")) = Cardinality(NodesIn(es, k, p - 1, "start"))
          /\ Cardinality(NodesIn(es, k, p - 1, "end")) \in Nat
          /\ Cardinality(NodesIn(es, k, p, "end")) \in Nat
          /\ Cardinality(NodesIn(es, k, p, "start")) \in Nat
      <3>1. \A is : /\ ~Is(es, p, is, "node") => NodesIn(es, k, p, is) = NodesIn(es, k, p - 1, is)
                    /\ Is(es, p, is, "node") =>
                          Cardinality(NodesIn(es, k, p, is)) = Cardinality(NodesIn(es, k, p - 1, is)) + 1
                    /\ Cardinality(NodesIn(es, k, p, is)) \in Nat
                    /\ Cardinality(NodesIn(es, k, p - 1, is)) \in Nat
        BY <2>1, NodesGrow
      <3> QED
        BY <2>2, <3>1
    <2>4. Cardinality(Above(es, p, k)) \in Nat
      BY AboveCount
    <2>5. Cardinality(NodesIn(es, k, p - 1, "start"))
             = Cardinality(NodesIn(es, k, p - 1, "end")) + Cardinality(Above(es, p, k))
      BY DEF Balance
    <2>6. Cardinality(NodesIn(es, k, p, "start")) > Cardinality(NodesIn(es, k, p, "end"))
             <=> Cardinality(Above(es, p, k)) > 1
      BY <2>3, <2>4, <2>5
    <2> QED
      BY <2>1, <2>3, <2>4, <2>5, <2>6, StaysOpen
  <1>6. ASSUME NEW k \in Open(es, p)
        PROVE  /\ m \in Above(es, p, k) /\ m \in Int /\ k \in Int /\ k \in Above(es, p, k)
               /\ Cardinality(Above(es, p, k)) > 1 <=> k # m
    <2>1. m \in Open(es, p) /\ \A j \in Open(es, p) : j <= m
      BY LastOpen
    <2>2. m \in Int /\ \A j \in Open(es, p) : j \in Int
      BY <1>2, <2>1
    <2>3. m \in Above(es, p, k) /\ k \in Above(es, p, k)
      BY <2>1, <2>2 DEF Above
    <2>4. IsFiniteSet(Above(es, p, k)) /\ Cardinality(Above(es, p, k)) \in Nat
          /\ Cardinality(Above(es, p, k)) > 0
      BY AboveCount
    <2>5. k = m => Above(es, p, k) = {m}
      BY <2>1, <2>2, <2>3 DEF Above
    <2>6. Cardinality(Above(es, p, k)) = 1 => k = m
      BY <2>3, <2>4, FS_Singleton
    <2>7. k = m => Cardinality(Above(es, p, k)) = 1
      BY <2>5, FS_Singleton
    <2> QED
      BY <2>2, <2>3, <2>4, <2>6, <2>7
  <1>7. Open(es, p + 1) = Open(es, p) \ {m}
    BY <1>4, <1>5, <1>6
  <1>8. ASSUME NEW k \in Open(es, p + 1)
        PROVE  Cardinality(NodesIn(es, k, p, "start"))
                  = Cardinality(NodesIn(es, k, p, "end")) + Cardinality(Above(es, p + 1, k))
    <2>1. k \in Open(es, p) /\ k # m
      BY <1>7
    <2>2. Above(es, p + 1, k) = Above(es, p, k) \ {m}
      BY <1>7 DEF Above
    <2>3. IsFiniteSet(Above(es, p, k)) /\ Cardinality(Above(es, p, k)) \in Nat /\ m \in Above(es, p, k)
      BY <1>6, <2>1, AboveCount
    <2>4. Cardinality(Above(es, p + 1, k)) = Cardinality(Above(es, p, k)) - 1
      BY <2>2, <2>3, FS_RemoveElement
    <2> QED
      BY <1>5, <2>1, <2>3, <2>4
  <1> QED
    BY <1>1, <1>7, <1>8 DEF Balance

\* Any other event leaves the same open.
LEMMA OthersKeepOpen ==
    ASSUME NEW es, NEW p \in Nat, p # 0, Balance(es, p), ~Is(es, p, "start", "node"), ~Is(es, p, "end", "node")
    PROVE  Open(es, p + 1) = Open(es, p) /\ Balance(es, p + 1) /\ Holder(es, p + 1) = Holder(es, p)
  <1>1. /\ \A k \in 1 .. p : k = p \/ k \in 1 .. (p - 1)
        /\ (p + 1) - 1 = p /\ p + 1 \in Nat
    OBVIOUS
  <1>2. Open(es, p) \subseteq 1 .. (p - 1) /\ Open(es, p + 1) \subseteq 1 .. p /\ p \notin Open(es, p + 1)
    BY <1>1, OpenIsFinite, OpensItself
  <1>3. ASSUME NEW k \in Open(es, p)
        PROVE  /\ NodesIn(es, k, p, "start") = NodesIn(es, k, p - 1, "start")
               /\ NodesIn(es, k, p, "end") = NodesIn(es, k, p - 1, "end")
               /\ Cardinality(NodesIn(es, k, p, "start")) > Cardinality(NodesIn(es, k, p, "end"))
    <2>1. k \in 1 .. p
      BY <1>2
    <2>2. /\ NodesIn(es, k, p, "start") = NodesIn(es, k, p - 1, "start")
          /\ NodesIn(es, k, p, "end") = NodesIn(es, k, p - 1, "end")
          /\ Cardinality(NodesIn(es, k, p, "end")) \in Nat
      <3>1. \A is : /\ ~Is(es, p, is, "node") => NodesIn(es, k, p, is) = NodesIn(es, k, p - 1, is)
                    /\ Is(es, p, is, "node") =>
                          Cardinality(NodesIn(es, k, p, is)) = Cardinality(NodesIn(es, k, p - 1, is)) + 1
                    /\ Cardinality(NodesIn(es, k, p, is)) \in Nat
                    /\ Cardinality(NodesIn(es, k, p - 1, is)) \in Nat
        BY <2>1, NodesGrow
      <3> QED
        BY <3>1
    <2>3. Cardinality(Above(es, p, k)) \in Nat /\ Cardinality(Above(es, p, k)) > 0
      BY AboveCount
    <2>4. Cardinality(NodesIn(es, k, p - 1, "start"))
             = Cardinality(NodesIn(es, k, p - 1, "end")) + Cardinality(Above(es, p, k))
      BY DEF Balance
    <2>5. Cardinality(NodesIn(es, k, p, "start")) > Cardinality(NodesIn(es, k, p, "end"))
      BY <2>2, <2>3, <2>4
    <2> QED
      BY <2>2, <2>5
  <1>4. Open(es, p + 1) = Open(es, p)
    <2>1. ASSUME NEW k \in Open(es, p + 1) PROVE k \in Open(es, p)
      <3>1. k \in 1 .. (p - 1)
        BY <1>1, <1>2
      <3> QED
        BY <3>1, StaysOpen
    <2>2. ASSUME NEW k \in Open(es, p) PROVE k \in Open(es, p + 1)
      BY <1>2, <1>3, StaysOpen
    <2> QED
      BY <2>1, <2>2
  <1>5. ASSUME NEW k \in Open(es, p + 1)
        PROVE  Cardinality(NodesIn(es, k, p, "start"))
                  = Cardinality(NodesIn(es, k, p, "end")) + Cardinality(Above(es, p + 1, k))
    <2>1. Above(es, p + 1, k) = Above(es, p, k)
      BY <1>4 DEF Above
    <2>2. k \in Open(es, p)
      BY <1>4
    <2> QED
      BY <1>3, <2>1, <2>2 DEF Balance
  <1>6. Balance(es, p + 1)
    BY <1>1, <1>5 DEF Balance
  <1>7. ASSUME Open(es, p) # {} PROVE Holder(es, p + 1) = Holder(es, p)
    <2>1. Holder(es, p) \in Open(es, p) /\ \A j \in Open(es, p) : j <= Holder(es, p)
      BY <1>7, LastOpen
    <2>2. Holder(es, p) \in Open(es, p + 1) /\ \A j \in Open(es, p + 1) : j <= Holder(es, p)
      BY <1>4, <2>1
    <2>3. \A q \in Nat : \A m \in Open(es, q) : (\A j \in Open(es, q) : j <= m) => Holder(es, q) = m
      BY HolderIs
    <2> QED
      BY <1>1, <2>2, <2>3
  <1>8. Holder(es, p + 1) = Holder(es, p)
    <2>1. Open(es, p) = {} => Holder(es, p + 1) = 0 /\ Holder(es, p) = 0
      <3>1. \A q \in Nat : Holder(es, q) = 0 <=> Open(es, q) = {}
        BY HolderBefore
      <3> QED
        BY <1>1, <1>4, <3>1
    <2> QED
      BY <1>7, <2>1
  <1> QED
    BY <1>4, <1>6, <1>8

-----------------------------------------------------------------------------
(* The tree: the stack of open nodes, the counters of their children *)

\* Ranks number the nodes in the order they start.
LEMMA RankFacts ==
    ASSUME NEW es, NEW p \in Nat, p # 0
    PROVE  /\ Rank(es, p - 1) \in Nat /\ Rank(es, p) \in Nat
           /\ Is(es, p, "start", "node") => Rank(es, p) = Rank(es, p - 1) + 1
           /\ ~Is(es, p, "start", "node") => Rank(es, p) = Rank(es, p - 1)
           /\ \A k \in NodesIn(es, 1, p - 1, "start") : Rank(es, k) \in 1 .. Rank(es, p - 1)
  <1>1. 1 \in 1 .. p
    OBVIOUS
  <1>2. /\ Rank(es, p - 1) \in Nat /\ Rank(es, p) \in Nat
        /\ Is(es, p, "start", "node") => Rank(es, p) = Rank(es, p - 1) + 1
        /\ ~Is(es, p, "start", "node") => Rank(es, p) = Rank(es, p - 1)
        /\ IsFiniteSet(NodesIn(es, 1, p - 1, "start"))
    BY <1>1, NodesGrow DEF Rank
  <1>3. ASSUME NEW k \in NodesIn(es, 1, p - 1, "start") PROVE Rank(es, k) \in 1 .. Rank(es, p - 1)
    <2>1. k \in 1 .. (p - 1) /\ Is(es, k, "start", "node")
      BY <1>3 DEF NodesIn
    <2>2. NodesIn(es, 1, k, "start") \subseteq NodesIn(es, 1, p - 1, "start") /\ k \in NodesIn(es, 1, k, "start")
      BY <2>1 DEF NodesIn
    <2>3. /\ IsFiniteSet(NodesIn(es, 1, k, "start"))
          /\ Cardinality(NodesIn(es, 1, k, "start")) <= Cardinality(NodesIn(es, 1, p - 1, "start"))
      BY <1>2, <2>2, FS_Subset
    <2>4. Cardinality(NodesIn(es, 1, k, "start")) \in Nat /\ Cardinality(NodesIn(es, 1, k, "start")) # 0
      BY <2>2, <2>3, FS_CardinalityType, FS_EmptySet
    <2>5. Rank(es, k) <= Rank(es, p - 1) /\ Rank(es, k) \in Nat /\ Rank(es, k) # 0
      BY <2>3, <2>4 DEF Rank
    <2> QED
      BY <1>2, <2>5
  <1> QED
    BY <1>2, <1>3

\* No two nodes have the same.
LEMMA RanksDiffer ==
    ASSUME NEW es, NEW p \in Nat, NEW j \in NodesIn(es, 1, p, "start"), NEW k \in NodesIn(es, 1, p, "start"),
           Rank(es, j) = Rank(es, k)
    PROVE  j = k
  <1>1. /\ j \in 1 .. p /\ k \in 1 .. p
        /\ j \in NodesIn(es, 1, j, "start") /\ k \in NodesIn(es, 1, k, "start")
    BY DEF NodesIn
  <1>2. /\ j < k => NodesIn(es, 1, j, "start") \subseteq NodesIn(es, 1, k, "start")
                    /\ k \notin NodesIn(es, 1, j, "start")
        /\ k < j => NodesIn(es, 1, k, "start") \subseteq NodesIn(es, 1, j, "start")
                    /\ j \notin NodesIn(es, 1, k, "start")
    BY <1>1 DEF NodesIn
  <1>3. IsFiniteSet(NodesIn(es, 1, j, "start")) /\ IsFiniteSet(NodesIn(es, 1, k, "start"))
    <2>1. 1 \in 1 .. j /\ 1 \in 1 .. k /\ j \in Nat /\ k \in Nat
      BY <1>1
    <2> QED
      BY <2>1, NodesGrow
  <1>4. ~(j < k) /\ ~(k < j)
    BY <1>1, <1>2, <1>3, FS_Subset DEF Rank
  <1> QED
    BY <1>1, <1>4

Children(es, n, p) == {j \in NodesIn(es, 1, p - 1, "start") : Holder(es, j) = n}

\* The stack is the open nodes, by their numbers.
Opened(es, p) == Listed([k \in Open(es, p) |-> Rank(es, k)])

\* What the children's counters must be, level by level.
Counted(es, p, c) ==
    /\ c \in Seq(Nat) /\ Len(c) > Cardinality(Open(es, p))
    /\ c[1] = Cardinality(Children(es, 0, p))
    /\ \A k \in Open(es, p) : c[Upto(Open(es, p), k) + 1] = Cardinality(Children(es, k, p))

\* As many are on the stack as are open; the last is the holder.
LEMMA StackFacts ==
    ASSUME NEW es, NEW p \in Nat
    PROVE  /\ SeqLike(Opened(es, p)) /\ Len(Opened(es, p)) = Cardinality(Open(es, p))
           /\ Open(es, p) = {} <=> Opened(es, p) = <<>>
           /\ Open(es, p) # {} =>
                 /\ Last(Opened(es, p)) = Rank(es, Holder(es, p))
                 /\ Front(Opened(es, p)) = Listed([k \in Open(es, p) \ {Holder(es, p)} |-> Rank(es, k)])
                 /\ Upto(Open(es, p), Holder(es, p)) = Cardinality(Open(es, p))
                 /\ Cardinality(Open(es, p) \ {Holder(es, p)}) = Cardinality(Open(es, p)) - 1
                 /\ \A k \in Open(es, p) \ {Holder(es, p)} :
                       /\ Upto(Open(es, p) \ {Holder(es, p)}, k) = Upto(Open(es, p), k)
                       /\ Upto(Open(es, p), k) \in 1 .. (Cardinality(Open(es, p)) - 1)
           /\ Open(es, p) = {} => Cardinality(Open(es, p)) = 0
  <1> DEFINE g == [k \in Open(es, p) |-> Rank(es, k)]
             m == Holder(es, p)
             S == Open(es, p) \ {m}
             f == [k \in S |-> Rank(es, k)]
  <1>1. IsFiniteSet(Open(es, p)) /\ Open(es, p) \subseteq Int /\ Cardinality(Open(es, p)) \in Nat
    BY OpenIsFinite
  <1>2. SeqLike(Opened(es, p)) /\ Len(Opened(es, p)) = Cardinality(Open(es, p))
    <2>1. DOMAIN g = Open(es, p)
      OBVIOUS
    <2> HIDE DEF g
    <2>2. SeqLike(Listed(g)) /\ Len(Listed(g)) = Cardinality(Open(es, p))
      BY <1>1, <2>1, ListedIsSequence
    <2> QED
      BY <2>2 DEF g, Opened
  <1>3. ASSUME Open(es, p) = {} PROVE Opened(es, p) = <<>> /\ Cardinality(Open(es, p)) = 0
    <2>1. DOMAIN g = {}
      BY <1>3
    <2> HIDE DEF g
    <2>2. Listed(g) = <<>>
      BY <2>1, NothingListed
    <2>3. Cardinality(Open(es, p)) = 0
      BY <1>3, FS_EmptySet
    <2> QED
      BY <2>2, <2>3 DEF g, Opened
  <1>4. ASSUME Open(es, p) # {}
        PROVE  /\ Opened(es, p) = Append(Listed(f), Rank(es, m)) /\ SeqLike(Listed(f))
               /\ Upto(Open(es, p), m) = Cardinality(Open(es, p))
               /\ Cardinality(S) = Cardinality(Open(es, p)) - 1
               /\ \A k \in S : Upto(S, k) = Upto(Open(es, p), k) /\ Upto(Open(es, p), k) \in 1 .. Cardinality(S)
    <2>1. m \in Open(es, p) /\ \A j \in Open(es, p) : j <= m
      BY <1>4, LastOpen
    <2>2. IsFiniteSet(S) /\ S \subseteq Int /\ m \in Int /\ \A j \in S : j < m
      <3>1. \A j \in Open(es, p) : j \in Int
        BY <1>1
      <3> QED
        BY <1>1, <2>1, <3>1, FS_RemoveElement
    <2>3. Open(es, p) = S \cup {m}
      BY <2>1
    <2>4. DOMAIN f = S /\ DOMAIN g = S \cup {m} /\ (\A j \in S : g[j] = f[j]) /\ g[m] = Rank(es, m)
      BY <2>1, <2>3
    <2> HIDE DEF f, g, m, S
    <2>5. Listed(g) = Append(Listed(f), g[m])
      BY <2>2, <2>4, ListedGrows
    <2>6. SeqLike(Listed(f))
      BY <2>2, <2>4, ListedIsSequence
    <2>7. /\ \A k \in S : Upto(S \cup {m}, k) = Upto(S, k) /\ Upto(S, k) \in 1 .. Cardinality(S)
          /\ Upto(S \cup {m}, m) = Cardinality(S) + 1
          /\ Cardinality(S \cup {m}) = Cardinality(S) + 1 /\ Cardinality(S) \in Nat
      BY <2>2, UptoGrows
    <2>8. /\ Upto(Open(es, p), m) = Cardinality(S) + 1
          /\ Cardinality(Open(es, p)) = Cardinality(S) + 1
          /\ \A k \in S : Upto(Open(es, p), k) = Upto(S, k)
      BY <2>3, <2>7, Zenon
    <2>9. \A k \in S : Upto(Open(es, p), k) \in 1 .. Cardinality(S)
      BY <2>7, <2>8
    <2>10. Cardinality(S) = Cardinality(Open(es, p)) - 1
      BY <2>7, <2>8
    <2> QED
      BY <2>4, <2>5, <2>6, <2>8, <2>9, <2>10 DEF g, Opened
  <1>5. ASSUME Open(es, p) # {}
        PROVE  Opened(es, p) # <<>> /\ Last(Opened(es, p)) = Rank(es, m) /\ Front(Opened(es, p)) = Listed(f)
    BY <1>4, <1>5, OneMore
  <1>6. ASSUME Open(es, p) # {}, NEW k \in S
        PROVE  Upto(S, k) = Upto(Open(es, p), k) /\ Upto(Open(es, p), k) \in 1 .. (Cardinality(Open(es, p)) - 1)
    BY <1>4, <1>6
  <1> QED
    BY <1>2, <1>3, <1>4, <1>5, <1>6

\* Only a node that starts is one more child, of its holder, and has none yet.
LEMMA ChildrenGrow ==
    ASSUME NEW es, NEW p \in Nat, p # 0, NEW n
    PROVE  /\ IsFiniteSet(Children(es, n, p)) /\ Cardinality(Children(es, n, p)) \in Nat
           /\ Is(es, p, "start", "node") /\ Holder(es, p) = n =>
                 Cardinality(Children(es, n, p + 1)) = Cardinality(Children(es, n, p)) + 1
           /\ ~(Is(es, p, "start", "node") /\ Holder(es, p) = n) => Children(es, n, p + 1) = Children(es, n, p)
           /\ Children(es, p, p + 1) = {} /\ Cardinality(Children(es, p, p + 1)) = 0
  <1>1. 1 \in 1 .. p /\ (p + 1) - 1 = p
    OBVIOUS
  <1>2. IsFiniteSet(NodesIn(es, 1, p - 1, "start"))
    BY <1>1, NodesGrow
  <1>3. IsFiniteSet(Children(es, n, p)) /\ Cardinality(Children(es, n, p)) \in Nat
    BY <1>2, FS_Subset, FS_CardinalityType DEF Children
  <1>4. /\ Is(es, p, "start", "node") => NodesIn(es, 1, p, "start") = NodesIn(es, 1, p - 1, "start") \cup {p}
        /\ ~Is(es, p, "start", "node") => NodesIn(es, 1, p, "start") = NodesIn(es, 1, p - 1, "start")
        /\ p \notin NodesIn(es, 1, p - 1, "start")
    BY <1>1, NodesGrow DEF NodesIn
  <1>5. ASSUME Is(es, p, "start", "node"), Holder(es, p) = n
        PROVE  Cardinality(Children(es, n, p + 1)) = Cardinality(Children(es, n, p)) + 1
    <2>1. Children(es, n, p + 1) = Children(es, n, p) \cup {p} /\ p \notin Children(es, n, p)
      BY <1>1, <1>4, <1>5 DEF Children
    <2> QED
      BY <1>3, <2>1, FS_AddElement
  <1>6. ASSUME ~(Is(es, p, "start", "node") /\ Holder(es, p) = n)
        PROVE  Children(es, n, p + 1) = Children(es, n, p)
    BY <1>1, <1>4, <1>6 DEF Children
  <1>7. ASSUME NEW j \in Children(es, p, p + 1) PROVE FALSE
    <2>1. j \in 1 .. p /\ Holder(es, j) = p
      BY <1>1 DEF Children, NodesIn
    <2>2. j \in Nat /\ Holder(es, j) \in Nat /\ Holder(es, j) < j
      BY <2>1, HolderBefore
    <2> QED
      BY <2>1, <2>2
  <1>8. Children(es, p, p + 1) = {} /\ Cardinality(Children(es, p, p + 1)) = 0
    BY <1>7, FS_EmptySet
  <1> QED
    BY <1>3, <1>5, <1>6, <1>8

\* The counter of the level below the open nodes is of the holder's children.
LEMMA LastCounter ==
    ASSUME NEW es, NEW p \in Nat, NEW c, Counted(es, p, c)
    PROVE  c[Cardinality(Open(es, p)) + 1] = Cardinality(Children(es, Holder(es, p), p))
  <1>1. CASE Open(es, p) = {}
    <2>1. Holder(es, p) = 0
      BY <1>1, HolderBefore
    <2>2. Cardinality(Open(es, p)) + 1 = 1
      BY <1>1, FS_EmptySet
    <2>3. c[1] = Cardinality(Children(es, 0, p))
      BY DEF Counted
    <2> QED
      BY <2>1, <2>2, <2>3, Zenon
  <1>2. CASE Open(es, p) # {}
    <2>1. Holder(es, p) \in Open(es, p) /\ Upto(Open(es, p), Holder(es, p)) = Cardinality(Open(es, p))
      BY <1>2, LastOpen, StackFacts
    <2> QED
      BY <2>1 DEF Counted
  <1> QED
    BY <1>1, <1>2

\* A node that starts goes onto the stack.
LEMMA StackAtStart ==
    ASSUME NEW es, NEW p \in Nat, p # 0, Balance(es, p), Is(es, p, "start", "node")
    PROVE  /\ Opened(es, p + 1) = Append(Opened(es, p), Rank(es, p))
           /\ Cardinality(Open(es, p + 1)) = Cardinality(Open(es, p)) + 1
           /\ \A k \in Open(es, p) : Upto(Open(es, p + 1), k) = Upto(Open(es, p), k)
           /\ Upto(Open(es, p + 1), p) = Cardinality(Open(es, p)) + 1
           /\ Holder(es, p + 1) = p
  <1> DEFINE S == Open(es, p)
             T == Open(es, p + 1)
             f == [k \in S |-> Rank(es, k)]
             g == [k \in T |-> Rank(es, k)]
  <1>1. IsFiniteSet(S) /\ S \subseteq Int /\ p \in Int /\ \A i \in S : i < p
    BY OpenIsFinite
  <1>2. T = S \cup {p}
    BY StartOpens
  <1>3. DOMAIN f = S /\ DOMAIN g = S \cup {p} /\ (\A i \in S : g[i] = f[i]) /\ g[p] = Rank(es, p)
    BY <1>2
  <1>4. /\ Opened(es, p) = Listed(f) /\ Opened(es, p + 1) = Listed(g)
    BY DEF Opened
  <1>5. p + 1 \in Nat /\ p \in T /\ \A j \in T : j <= p
    BY <1>1, <1>2
  <1>6. Holder(es, p + 1) = p
    <2>1. \A q \in Nat : \A m \in Open(es, q) : (\A j \in Open(es, q) : j <= m) => Holder(es, q) = m
      BY HolderIs
    <2> QED
      BY <1>5, <2>1
  <1> HIDE DEF f, g, S, T
  <1>7. Listed(g) = Append(Listed(f), g[p])
    BY <1>1, <1>3, ListedGrows
  <1>8. /\ \A i \in S : Upto(S \cup {p}, i) = Upto(S, i) /\ Upto(S, i) \in 1 .. Cardinality(S)
        /\ Upto(S \cup {p}, p) = Cardinality(S) + 1
        /\ Cardinality(S \cup {p}) = Cardinality(S) + 1
    BY <1>1, UptoGrows
  <1>9. /\ \A i \in S : Upto(T, i) = Upto(S, i)
        /\ Upto(T, p) = Cardinality(S) + 1
        /\ Cardinality(T) = Cardinality(S) + 1
    BY <1>2, <1>8
  <1> QED
    BY <1>3, <1>4, <1>6, <1>7, <1>9 DEF S, T

\* Below the last place there is a next one.
LEMMA NextIsWithin ==
    ASSUME NEW d \in Nat, NEW u \in 1 .. (d - 1)
    PROVE  u + 1 \in 1 .. d
  OBVIOUS

\* Its parent counts it, and it counts from zero.
LEMMA CountersAtStart ==
    ASSUME NEW es, NEW p \in Nat, p # 0, Balance(es, p), Is(es, p, "start", "node"),
           NEW c, Counted(es, p, c), NEW d \in Nat, d = Cardinality(Open(es, p)),
           NEW e, e \in Seq(Nat), Len(e) = d + 2, \A i \in 1 .. d : e[i] = c[i],
           e[d + 1] = c[d + 1] + 1, e[d + 2] = 0
    PROVE  Counted(es, p + 1, e)
  <1>1. /\ Cardinality(Open(es, p + 1)) = d + 1
        /\ \A k \in Open(es, p) : Upto(Open(es, p + 1), k) = Upto(Open(es, p), k)
        /\ Upto(Open(es, p + 1), p) = d + 1
    BY StackAtStart
  <1>2. Open(es, p + 1) = Open(es, p) \cup {p}
    BY StartOpens
  <1>3. /\ \A n : Cardinality(Children(es, n, p)) \in Nat
        /\ \A n : Holder(es, p) = n =>
              Cardinality(Children(es, n, p + 1)) = Cardinality(Children(es, n, p)) + 1
        /\ \A n : Holder(es, p) # n => Cardinality(Children(es, n, p + 1)) = Cardinality(Children(es, n, p))
        /\ Cardinality(Children(es, p, p + 1)) = 0
    BY ChildrenGrow
  <1>4. e[1] = Cardinality(Children(es, 0, p + 1))
    <2>1. c[1] = Cardinality(Children(es, 0, p))
      BY DEF Counted
    <2>2. Holder(es, p) = 0 <=> d = 0
      <3>1. Open(es, p) = {} => d = 0
        BY FS_EmptySet
      <3>2. d = 0 => Open(es, p) = {}
        BY OpenIsFinite, FS_EmptySet
      <3> QED
        BY <3>1, <3>2, HolderBefore
    <2>3. CASE d = 0
      <3>1. e[1] = c[1] + 1
        BY <2>3
      <3> QED
        BY <1>3, <2>1, <2>2, <2>3, <3>1
    <2>4. CASE d # 0
      <3>1. e[1] = c[1]
        BY <2>4
      <3> QED
        BY <1>3, <2>1, <2>2, <2>4, <3>1
    <2> QED
      BY <2>3, <2>4
  <1>5. ASSUME NEW k \in Open(es, p)
        PROVE  e[Upto(Open(es, p), k) + 1] = Cardinality(Children(es, k, p + 1))
    <2>1. c[Upto(Open(es, p), k) + 1] = Cardinality(Children(es, k, p))
      BY DEF Counted
    <2>2. CASE k = Holder(es, p)
      <3>1. Upto(Open(es, p), k) = d
        BY <2>2, StackFacts
      <3> QED
        BY <1>3, <2>1, <2>2, <3>1
    <2>3. CASE k # Holder(es, p)
      <3>1. Upto(Open(es, p), k) \in 1 .. (d - 1)
        <4>1. k \in Open(es, p) \ {Holder(es, p)} /\ Open(es, p) # {}
          BY <2>3
        <4>2. Upto(Open(es, p), k) \in 1 .. (Cardinality(Open(es, p)) - 1)
          BY <4>1, StackFacts, Zenon
        <4> QED
          BY <4>2
      <3>2. Upto(Open(es, p), k) + 1 \in 1 .. d
        BY <3>1, NextIsWithin
      <3>3. e[Upto(Open(es, p), k) + 1] = c[Upto(Open(es, p), k) + 1]
        BY <3>2
      <3>4. Cardinality(Children(es, k, p + 1)) = Cardinality(Children(es, k, p))
        BY <1>3, <2>3
      <3> QED
        BY <2>1, <3>3, <3>4
    <2> QED
      BY <2>2, <2>3
  <1>6. ASSUME NEW k \in Open(es, p + 1)
        PROVE  e[Upto(Open(es, p + 1), k) + 1] = Cardinality(Children(es, k, p + 1))
    <2>1. CASE k = p
      <3>1. Upto(Open(es, p + 1), k) + 1 = d + 2
        BY <1>1, <2>1
      <3>2. Cardinality(Children(es, k, p + 1)) = 0
        BY <1>3, <2>1
      <3> QED
        BY <3>1, <3>2
    <2>2. CASE k # p
      <3>1. k \in Open(es, p)
        BY <1>2, <2>2
      <3>2. Upto(Open(es, p + 1), k) = Upto(Open(es, p), k)
        BY <1>1, <3>1
      <3> QED
        BY <1>5, <3>1, <3>2
    <2> QED
      BY <2>1, <2>2
  <1>7. Len(e) > Cardinality(Open(es, p + 1))
    BY <1>1
  <1> QED
    BY <1>4, <1>6, <1>7 DEF Counted

\* A node that ends leaves the stack, when one is open, and the counters below go.
LEMMA StackAtEnd ==
    ASSUME NEW es, NEW p \in Nat, p # 0, Balance(es, p), Is(es, p, "end", "node")
    PROVE  /\ Opened(es, p + 1) = IF Opened(es, p) = <<>> THEN Opened(es, p) ELSE Front(Opened(es, p))
           /\ Cardinality(Open(es, p + 1)) <= Cardinality(Open(es, p))
           /\ \A k \in Open(es, p + 1) : Upto(Open(es, p + 1), k) = Upto(Open(es, p), k)
           /\ Open(es, p + 1) \subseteq Open(es, p)
  <1>1. Open(es, p + 1) = Open(es, p) \ {Holder(es, p)}
    BY EndCloses
  <1>2. CASE Open(es, p) = {}
    <2>1. Open(es, p + 1) = Open(es, p)
      BY <1>1, <1>2
    <2>2. Opened(es, p + 1) = Opened(es, p) /\ Opened(es, p) = <<>>
      BY <1>2, <2>1, StackFacts DEF Opened
    <2>3. Cardinality(Open(es, p + 1)) = Cardinality(Open(es, p)) /\ Cardinality(Open(es, p)) \in Nat
      BY <2>1, OpenIsFinite
    <2>4. Cardinality(Open(es, p + 1)) <= Cardinality(Open(es, p))
      BY <2>3
    <2> QED
      BY <2>1, <2>2, <2>4
  <1>3. CASE Open(es, p) # {}
    <2>1. /\ Opened(es, p) # <<>>
          /\ Front(Opened(es, p)) = Listed([k \in Open(es, p) \ {Holder(es, p)} |-> Rank(es, k)])
          /\ Cardinality(Open(es, p) \ {Holder(es, p)}) = Cardinality(Open(es, p)) - 1
          /\ \A k \in Open(es, p) \ {Holder(es, p)} :
                Upto(Open(es, p) \ {Holder(es, p)}, k) = Upto(Open(es, p), k)
      BY <1>3, StackFacts
    <2>2. Opened(es, p + 1) = Front(Opened(es, p))
      BY <1>1, <2>1 DEF Opened
    <2>3. Cardinality(Open(es, p + 1)) <= Cardinality(Open(es, p))
      <3>1. Cardinality(Open(es, p + 1)) = Cardinality(Open(es, p)) - 1
        BY <1>1, <2>1
      <3>2. Cardinality(Open(es, p)) \in Nat
        BY OpenIsFinite
      <3> QED
        BY <3>1, <3>2
    <2>4. \A k \in Open(es, p + 1) : Upto(Open(es, p + 1), k) = Upto(Open(es, p), k)
      BY <1>1, <2>1
    <2> QED
      BY <1>1, <2>1, <2>2, <2>3, <2>4
  <1> QED
    BY <1>2, <1>3

\* The counters of the levels that are left are what they were.
LEMMA CountersAtEnd ==
    ASSUME NEW es, NEW p \in Nat, p # 0, Balance(es, p), Is(es, p, "end", "node"),
           NEW c, Counted(es, p, c), NEW d \in Nat, d = Cardinality(Open(es, p + 1)),
           NEW e, e \in Seq(Nat), Len(e) > d, \A i \in 1 .. (d + 1) : e[i] = c[i]
    PROVE  Counted(es, p + 1, e)
  <1>1. /\ \A k \in Open(es, p + 1) : Upto(Open(es, p + 1), k) = Upto(Open(es, p), k)
        /\ Open(es, p + 1) \subseteq Open(es, p)
    BY StackAtEnd
  <1>2. \A n : Children(es, n, p + 1) = Children(es, n, p)
    <2>1. ~Is(es, p, "start", "node")
      BY DEF Is
    <2> QED
      BY <2>1, ChildrenGrow
  <1>3. e[1] = Cardinality(Children(es, 0, p + 1))
    <2>1. e[1] = c[1]
      OBVIOUS
    <2>2. c[1] = Cardinality(Children(es, 0, p))
      BY DEF Counted
    <2> QED
      BY <1>2, <2>1, <2>2
  <1>4. ASSUME NEW k \in Open(es, p + 1)
        PROVE  e[Upto(Open(es, p + 1), k) + 1] = Cardinality(Children(es, k, p + 1))
    <2>1. c[Upto(Open(es, p), k) + 1] = Cardinality(Children(es, k, p))
      BY <1>1 DEF Counted
    <2>2. Upto(Open(es, p + 1), k) \in 1 .. d
      <3>1. p + 1 \in Nat
        OBVIOUS
      <3>2. IsFiniteSet(Open(es, p + 1)) /\ Open(es, p + 1) \subseteq Int
        BY <3>1, OpenIsFinite
      <3> QED
        BY <3>2, RankIsBound
    <2>3. Upto(Open(es, p + 1), k) + 1 \in 1 .. (d + 1)
      BY <2>2
    <2>4. e[Upto(Open(es, p + 1), k) + 1] = c[Upto(Open(es, p + 1), k) + 1]
      BY <2>3
    <2> QED
      BY <1>1, <1>2, <2>1, <2>4
  <1> QED
    BY <1>3, <1>4 DEF Counted

\* Any other event leaves the stack and the counters right.
LEMMA LevelsStay ==
    ASSUME NEW es, NEW p \in Nat, p # 0, Balance(es, p), ~Is(es, p, "start", "node"), ~Is(es, p, "end", "node"),
           NEW c, Counted(es, p, c)
    PROVE  Opened(es, p + 1) = Opened(es, p) /\ Counted(es, p + 1, c)
  <1>1. Open(es, p + 1) = Open(es, p)
    BY OthersKeepOpen
  <1>2. \A n : Children(es, n, p + 1) = Children(es, n, p)
    BY ChildrenGrow
  <1> QED
    BY <1>1, <1>2 DEF Opened, Counted

-----------------------------------------------------------------------------
(* Elements: where they start, where they end, what is between *)

StartsAt(es, k, tags) == es[k].is = "start" /\ es[k].tag \in tags
EndsAt(es, k, tags) == es[k].is = "end" /\ es[k].tag \in tags
Between(es, k, e) == \A j \in (k + 1) .. (e - 1) :
                    es[j].is = "text" \/ es[j].tag \in Holds[es[k].tag]

\* No element is directly in one of its own tag.
LEMMA NotInItself == \A t \in DOMAIN Holds : t \notin Holds[t]
  BY DEF Holds

\* An element that starts ends once, after its start.
LEMMA StartHasEnd ==
    ASSUME NEW es, WellFormed(es), NEW k \in 1 .. Len(es), StartsAt(es, k, DOMAIN Holds)
    PROVE  /\ Closing(es, k) \in 1 .. Len(es) /\ k < Closing(es, k)
           /\ es[Closing(es, k)].is = "end" /\ es[Closing(es, k)].tag = es[k].tag
           /\ Between(es, k, Closing(es, k))
  <1>1. \E e \in DOMAIN es : Element(es, k, e)
    BY FileFacts DEF WellFormed, StartsAt
  <1>2. Closing(es, k) \in DOMAIN es /\ Element(es, k, Closing(es, k))
    BY <1>1 DEF Closing
  <1>3. DOMAIN es = 1 .. Len(es)
    BY FileFacts
  <1> QED
    BY <1>2, <1>3 DEF Element, Between

\* One that ends has a start: the only one that ends there.
LEMMA EndHasStart ==
    ASSUME NEW es, WellFormed(es), NEW p \in 1 .. Len(es), EndsAt(es, p, DOMAIN Holds)
    PROVE  \E k \in 1 .. (p - 1) :
              /\ StartsAt(es, k, {es[p].tag}) /\ Closing(es, k) = p /\ Between(es, k, p)
              /\ \A j \in 1 .. p : StartsAt(es, j, DOMAIN Holds) /\ Closing(es, j) = p => j = k
  <1>1. Len(es) \in Nat /\ DOMAIN es = 1 .. Len(es)
    BY FileFacts
  <1>2. PICK k \in DOMAIN es : Element(es, k, p)
    BY <1>1, FileFacts DEF WellFormed, EndsAt
  <1>3. /\ k \in 1 .. (p - 1) /\ k \in 1 .. Len(es)
        /\ StartsAt(es, k, {es[p].tag}) /\ StartsAt(es, k, DOMAIN Holds) /\ Between(es, k, p)
        /\ es[k].tag = es[p].tag
    BY <1>1, <1>2 DEF Element, StartsAt, Between, EndsAt
  <1>4. /\ Closing(es, k) \in 1 .. Len(es) /\ k < Closing(es, k) /\ Between(es, k, Closing(es, k))
        /\ es[Closing(es, k)].is = "end" /\ es[Closing(es, k)].tag = es[k].tag
    BY <1>3, StartHasEnd
  <1>5. es[k].tag \notin Holds[es[k].tag]
    BY <1>3, NotInItself DEF StartsAt
  <1>6. Closing(es, k) = p
    <2>1. CASE Closing(es, k) < p
      <3>1. Closing(es, k) \in (k + 1) .. (p - 1)
        BY <1>3, <1>4, <2>1
      <3> QED
        BY <1>3, <1>4, <1>5, <3>1 DEF Between
    <2>2. CASE Closing(es, k) > p
      <3>1. p \in (k + 1) .. (Closing(es, k) - 1)
        BY <1>3, <1>4, <2>2
      <3> QED
        BY <1>3, <1>4, <1>5, <3>1 DEF Between, EndsAt
    <2> QED
      BY <1>1, <1>4, <2>1, <2>2
  <1>7. ASSUME NEW j \in 1 .. p, StartsAt(es, j, DOMAIN Holds), Closing(es, j) = p PROVE j = k
    <2>1. j \in 1 .. Len(es)
      BY <1>1
    <2>2. /\ j < p /\ Between(es, j, p) /\ es[p].tag = es[j].tag
      BY <1>7, <2>1, StartHasEnd
    <2>3. CASE j < k
      <3>1. k \in (j + 1) .. (p - 1)
        BY <1>3, <2>3
      <3> QED
        BY <1>3, <1>5, <2>2, <3>1 DEF Between, StartsAt
    <2>4. CASE k < j
      <3>1. j \in (k + 1) .. (p - 1)
        BY <1>3, <2>2, <2>4
      <3> QED
        BY <1>3, <1>5, <1>7, <2>2, <3>1 DEF Between, StartsAt
    <2> QED
      BY <1>3, <2>3, <2>4
  <1> QED
    BY <1>3, <1>6, <1>7

\* The elements of these tags from lo on that end before p; an anchor is done when it starts.
Ended(es, lo, p, tags) == {j \in lo .. (p - 1) : StartsAt(es, j, tags) /\ (Closing(es, j) < p \/ AnchorAt(es, j))}

\* They are finitely many positions.
LEMMA EndedIsFinite ==
    ASSUME NEW es, NEW lo \in Nat, NEW p \in Nat, NEW tags
    PROVE  /\ Ended(es, lo, p, tags) \subseteq lo .. (p - 1) /\ Ended(es, lo, p, tags) \subseteq Int
           /\ IsFiniteSet(Ended(es, lo, p, tags))
  <1>1. Ended(es, lo, p, tags) \subseteq lo .. (p - 1) /\ lo .. (p - 1) \subseteq Int
    BY DEF Ended
  <1>2. IsFiniteSet(lo .. (p - 1))
    BY FS_Interval
  <1> QED
    BY <1>1, <1>2, FS_Subset

\* An event that ends none of them, and is no anchor, leaves them.
LEMMA EndedStays ==
    ASSUME NEW es, WellFormed(es), NEW p \in 1 .. Len(es), NEW lo \in Nat, lo # 0,
           NEW tags, tags \subseteq DOMAIN Holds,
           ~EndsAt(es, p, tags), ~(AnchorAt(es, p) /\ "encoded_png" \in tags)
    PROVE  Ended(es, lo, p + 1, tags) = Ended(es, lo, p, tags)
  <1>1. Len(es) \in Nat
    BY FileFacts
  <1>2. ASSUME NEW j \in lo .. p, StartsAt(es, j, tags)
        PROVE  /\ j \in 1 .. Len(es) /\ Closing(es, j) \in Int /\ j < Closing(es, j)
               /\ es[Closing(es, j)].is = "end" /\ es[Closing(es, j)].tag \in tags
    <2>1. j \in 1 .. Len(es) /\ StartsAt(es, j, DOMAIN Holds)
      BY <1>1, <1>2 DEF StartsAt
    <2> QED
      BY <1>2, <2>1, StartHasEnd DEF StartsAt
  <1>3. ASSUME NEW j \in Ended(es, lo, p + 1, tags) PROVE j \in Ended(es, lo, p, tags)
    <2>1. j \in lo .. p /\ StartsAt(es, j, tags) /\ (Closing(es, j) < p + 1 \/ AnchorAt(es, j))
      BY DEF Ended
    <2>2. Closing(es, j) \in Int /\ j < Closing(es, j) /\ Closing(es, j) # p
      BY <1>2, <2>1 DEF EndsAt
    <2>3. j # p
      BY <2>1, <2>2 DEF AnchorAt, Is, StartsAt
    <2>4. j \in lo .. (p - 1) /\ (Closing(es, j) < p \/ AnchorAt(es, j))
      BY <2>1, <2>2, <2>3
    <2> QED
      BY <2>1, <2>4 DEF Ended
  <1>4. ASSUME NEW j \in Ended(es, lo, p, tags) PROVE j \in Ended(es, lo, p + 1, tags)
    <2>1. j \in lo .. (p - 1) /\ StartsAt(es, j, tags) /\ (Closing(es, j) < p \/ AnchorAt(es, j))
      BY DEF Ended
    <2>2. j \in lo .. p
      BY <2>1
    <2>3. Closing(es, j) \in Int
      BY <1>2, <2>1, <2>2
    <2>4. j \in lo .. ((p + 1) - 1) /\ (Closing(es, j) < p + 1 \/ AnchorAt(es, j))
      BY <2>1, <2>2, <2>3
    <2> QED
      BY <2>1, <2>4 DEF Ended
  <1> QED
    BY <1>3, <1>4

\* One that ends joins those that have,
LEMMA EndedGrows ==
    ASSUME NEW es, WellFormed(es), NEW p \in 1 .. Len(es), NEW lo \in Nat, lo # 0,
           NEW tags, tags \subseteq DOMAIN Holds, EndsAt(es, p, tags),
           NEW k \in lo .. (p - 1), StartsAt(es, k, {es[p].tag}), Closing(es, k) = p
    PROVE  Ended(es, lo, p + 1, tags) = Ended(es, lo, p, tags) \cup {k}
  <1>1. Len(es) \in Nat
    BY FileFacts
  <1>2. ASSUME NEW j \in lo .. p, StartsAt(es, j, tags)
        PROVE  /\ j \in 1 .. Len(es) /\ Closing(es, j) \in Int /\ j < Closing(es, j)
               /\ StartsAt(es, j, DOMAIN Holds) /\ Between(es, j, Closing(es, j))
    <2>1. j \in 1 .. Len(es) /\ StartsAt(es, j, DOMAIN Holds)
      BY <1>1, <1>2 DEF StartsAt
    <2> QED
      BY <1>2, <2>1, StartHasEnd
  <1>3. EndsAt(es, p, DOMAIN Holds) /\ StartsAt(es, k, tags) /\ k \in lo .. p
    BY DEF EndsAt, StartsAt
  <1>4. ASSUME NEW j \in lo .. p, StartsAt(es, j, tags), Closing(es, j) = p PROVE j = k
    <2>1. PICK s \in 1 .. (p - 1) :
             \A i \in 1 .. p : StartsAt(es, i, DOMAIN Holds) /\ Closing(es, i) = p => i = s
      BY <1>3, EndHasStart
    <2>2. j = s
      <3>1. j \in 1 .. p
        BY <1>4
      <3> QED
        BY <1>2, <1>4, <2>1, <3>1
    <2>3. k = s
      <3>1. k \in 1 .. p
        OBVIOUS
      <3> QED
        BY <1>2, <1>3, <2>1, <3>1
    <2> QED
      BY <2>2, <2>3
  <1>5. ASSUME NEW j \in Ended(es, lo, p + 1, tags) PROVE j \in Ended(es, lo, p, tags) \cup {k}
    <2>1. j \in lo .. p /\ StartsAt(es, j, tags) /\ (Closing(es, j) < p + 1 \/ AnchorAt(es, j))
      BY DEF Ended
    <2>2. Closing(es, j) \in Int /\ j < Closing(es, j)
      BY <1>2, <2>1
    <2>3. j # p
      BY <2>1 DEF StartsAt, EndsAt
    <2>4. CASE Closing(es, j) = p
      BY <1>4, <2>1, <2>4
    <2>5. CASE Closing(es, j) # p
      <3>1. j \in lo .. (p - 1) /\ (Closing(es, j) < p \/ AnchorAt(es, j))
        BY <2>1, <2>2, <2>3, <2>5
      <3> QED
        BY <2>1, <3>1 DEF Ended
    <2> QED
      BY <2>4, <2>5
  <1>6. ASSUME NEW j \in Ended(es, lo, p, tags) PROVE j \in Ended(es, lo, p + 1, tags)
    <2>1. j \in lo .. (p - 1) /\ StartsAt(es, j, tags) /\ (Closing(es, j) < p \/ AnchorAt(es, j))
      BY DEF Ended
    <2>2. j \in lo .. p
      BY <2>1
    <2>3. Closing(es, j) \in Int
      BY <1>2, <2>1, <2>2
    <2>4. j \in lo .. ((p + 1) - 1) /\ (Closing(es, j) < p + 1 \/ AnchorAt(es, j))
      BY <2>1, <2>2, <2>3
    <2> QED
      BY <2>1, <2>4 DEF Ended
  <1>7. k \in Ended(es, lo, p + 1, tags)
    <2>1. k \in lo .. ((p + 1) - 1) /\ Closing(es, k) < p + 1
      OBVIOUS
    <2> QED
      BY <1>3, <2>1 DEF Ended
  <1> QED
    BY <1>5, <1>6, <1>7

\* after all of them, when none of them may be in it.
LEMMA EndedInOrder ==
    ASSUME NEW es, WellFormed(es), NEW p \in 1 .. Len(es), NEW lo \in Nat, lo # 0,
           NEW tags, tags \subseteq DOMAIN Holds,
           NEW k \in lo .. (p - 1), StartsAt(es, k, tags), Closing(es, k) = p, ~AnchorAt(es, k),
           tags \cap Holds[es[p].tag] = {}, NEW j \in Ended(es, lo, p, tags)
    PROVE  j < k
  <1>1. Len(es) \in Nat /\ k \in 1 .. Len(es) /\ StartsAt(es, k, DOMAIN Holds)
    BY FileFacts DEF StartsAt
  <1>2. Between(es, k, p) /\ es[k].tag = es[p].tag
    BY <1>1, StartHasEnd
  <1>3. j \in lo .. (p - 1) /\ StartsAt(es, j, tags) /\ (Closing(es, j) < p \/ AnchorAt(es, j))
    BY DEF Ended
  <1>4. j # k
    <2>1. ~(Closing(es, k) < p)
      OBVIOUS
    <2> QED
      BY <1>3, <2>1
  <1>5. ~(k < j)
    <2> SUFFICES ASSUME k < j PROVE FALSE
      OBVIOUS
    <2>1. j \in (k + 1) .. (p - 1)
      BY <1>3
    <2>2. es[j].tag \in Holds[es[p].tag]
      BY <1>2, <1>3, <2>1 DEF Between, StartsAt
    <2>3. es[j].tag \in tags
      BY <1>3 DEF StartsAt
    <2> QED
      BY <2>2, <2>3
  <1> QED
    BY <1>3, <1>4, <1>5

\* An anchor joins when it starts.
LEMMA EndedAtAnchor ==
    ASSUME NEW es, WellFormed(es), NEW p \in 1 .. Len(es), NEW lo \in 1 .. p,
           NEW tags, tags \subseteq DOMAIN Holds, AnchorAt(es, p), "encoded_png" \in tags
    PROVE  Ended(es, lo, p + 1, tags) = Ended(es, lo, p, tags) \cup {p}
  <1>1. Len(es) \in Nat
    BY FileFacts
  <1>2. ASSUME NEW j \in lo .. p, StartsAt(es, j, tags)
        PROVE  Closing(es, j) \in Int /\ j < Closing(es, j) /\ Closing(es, j) # p
    <2>1. j \in 1 .. Len(es) /\ StartsAt(es, j, DOMAIN Holds)
      BY <1>1, <1>2 DEF StartsAt
    <2>2. Closing(es, j) \in 1 .. Len(es) /\ j < Closing(es, j) /\ es[Closing(es, j)].is = "end"
      BY <2>1, StartHasEnd
    <2> QED
      BY <2>2 DEF AnchorAt, Is
  <1>3. ASSUME NEW j \in Ended(es, lo, p + 1, tags) PROVE j \in Ended(es, lo, p, tags) \cup {p}
    <2>1. j \in lo .. p /\ StartsAt(es, j, tags) /\ (Closing(es, j) < p + 1 \/ AnchorAt(es, j))
      BY DEF Ended
    <2>2. Closing(es, j) \in Int /\ Closing(es, j) # p
      BY <1>2, <2>1
    <2>3. j # p => j \in lo .. (p - 1) /\ (Closing(es, j) < p \/ AnchorAt(es, j))
      BY <2>1, <2>2
    <2> QED
      BY <2>1, <2>3 DEF Ended
  <1>4. ASSUME NEW j \in Ended(es, lo, p, tags) PROVE j \in Ended(es, lo, p + 1, tags)
    <2>1. j \in lo .. (p - 1) /\ StartsAt(es, j, tags) /\ (Closing(es, j) < p \/ AnchorAt(es, j))
      BY DEF Ended
    <2>2. j \in lo .. p
      BY <2>1
    <2>3. Closing(es, j) \in Int
      BY <1>2, <2>1, <2>2
    <2>4. j \in lo .. ((p + 1) - 1) /\ (Closing(es, j) < p + 1 \/ AnchorAt(es, j))
      BY <2>1, <2>2, <2>3
    <2> QED
      BY <2>1, <2>4 DEF Ended
  <1>5. p \in Ended(es, lo, p + 1, tags)
    <2>1. p \in lo .. ((p + 1) - 1)
      OBVIOUS
    <2> QED
      BY <2>1 DEF Ended, StartsAt, AnchorAt, Is
  <1> QED
    BY <1>3, <1>4, <1>5

-----------------------------------------------------------------------------
(* What elements hold: text, runs, widgets, cells and rows *)

TextsIn(es, k, q) == {j \in k .. q : es[j].is = "text"}
TextUpto(es, k, q) == FlattenSeq(Listed([j \in TextsIn(es, k, q) |-> es[j].text]))

\* The text of an element is its text up to its end.
LEMMA TextIsAll ==
    ASSUME NEW es, NEW k
    PROVE  TextIn(es, k) = TextUpto(es, k, Closing(es, k))
  BY DEF TextIn, TextUpto, TextsIn

\* Text is added to by text events only.
LEMMA TextGrows ==
    ASSUME NEW es, WellFormed(es), NEW p \in 1 .. Len(es), NEW k \in 1 .. p
    PROVE  /\ es[p].is = "text" => TextUpto(es, k, p) = TextUpto(es, k, p - 1) \o es[p].text
           /\ es[p].is # "text" => TextUpto(es, k, p) = TextUpto(es, k, p - 1)
           /\ TextUpto(es, p, p - 1) = <<>>
  <1> DEFINE S == TextsIn(es, k, p - 1)
             f == [j \in S |-> es[j].text]
             g == [j \in TextsIn(es, k, p) |-> es[j].text]
  <1>1. p \in Int /\ S \subseteq Int /\ \A i \in S : i < p
    BY DEF TextsIn
  <1>2. IsFiniteSet(S)
    <2>1. IsFiniteSet(k .. (p - 1))
      BY FS_Interval
    <2>2. S \subseteq k .. (p - 1)
      BY DEF TextsIn
    <2> QED
      BY <2>1, <2>2, FS_Subset
  <1>3. es[p].is = "text" => TextsIn(es, k, p) = S \cup {p}
    BY DEF TextsIn
  <1>4. es[p].is # "text" => TextsIn(es, k, p) = S
    BY DEF TextsIn
  <1>5. ASSUME es[p].is = "text"
        PROVE  TextUpto(es, k, p) = TextUpto(es, k, p - 1) \o es[p].text
    <2>1. /\ DOMAIN f = S /\ DOMAIN g = S \cup {p} /\ g[p] = es[p].text
          /\ \A i \in S : g[i] = f[i]
      BY <1>3, <1>5
    <2>2. TextUpto(es, k, p) = FlattenSeq(Listed(g)) /\ TextUpto(es, k, p - 1) = FlattenSeq(Listed(f))
      BY DEF TextUpto
    <2> HIDE DEF f, g, S
    <2>3. Listed(g) = Append(Listed(f), g[p])
      BY <1>1, <1>2, <2>1, ListedGrows
    <2>4. SeqLike(Listed(f))
      BY <1>2, <2>1, ListedIsSequence
    <2>5. SeqLike(g[p])
      <3>1. es[p].text \in Seq(DOMAIN Width)
        BY <1>5, FileFacts DEF WellFormed
      <3>2. es[p].text \in Seq({es[p].text[i] : i \in DOMAIN es[p].text})
        <4> DEFINE x == es[p].text
        <4>1. x \in Seq(DOMAIN Width)
          BY <3>1
        <4> HIDE DEF x
        <4>2. Len(x) \in Nat /\ DOMAIN x = 1 .. Len(x) /\ x = [i \in 1 .. Len(x) |-> x[i]]
          BY <4>1, LenProperties, SeqDef
        <4>3. SeqLike(x)
          BY <4>2, FirstPlaces
        <4> QED
          BY <4>3 DEF x, SeqLike
      <3> QED
        BY <2>1, <3>2 DEF SeqLike
    <2>6. FlattenSeq(Append(Listed(f), g[p])) = FlattenSeq(Listed(f)) \o g[p]
      BY <2>4, <2>5, FlattenOneMore
    <2> QED
      BY <2>1, <2>2, <2>3, <2>6
  <1>6. es[p].is # "text" => TextUpto(es, k, p) = TextUpto(es, k, p - 1)
    BY <1>4 DEF TextUpto
  <1>7. TextUpto(es, p, p - 1) = <<>>
    <2> DEFINE h == [j \in TextsIn(es, p, p - 1) |-> es[j].text]
    <2>1. DOMAIN h = {}
      BY DEF TextsIn
    <2>2. TextUpto(es, p, p - 1) = FlattenSeq(Listed(h))
      BY DEF TextUpto
    <2> HIDE DEF h
    <2>3. Listed(h) = <<>>
      BY <2>1, NothingListed
    <2>4. FlattenSeq(<<>>) = <<>>
      <3>1. SeqLike(Listed(h))
        BY <2>1, FS_EmptySet, ListedIsSequence
      <3> QED
        BY <3>1, FlattenOneMore
    <2> QED
      BY <2>2, <2>3, <2>4
  <1> QED
    BY <1>5, <1>6, <1>7

\* The elements in a node are those that end and are held by it.
LEMMA DirectIs ==
    ASSUME NEW es, NEW n, NEW p, NEW tags
    PROVE  Direct(es, n, p, tags) = {k \in Ended(es, 1, p, tags) : Holder(es, k) = n}
  BY DEF Direct, Ended, StartsAt, Is

\* A node that starts has nothing in it yet.
LEMMA NothingYet ==
    ASSUME NEW es, NEW p \in Nat, p # 0, NEW tags
    PROVE  Direct(es, p, p + 1, tags) = {}
  <1> SUFFICES ASSUME NEW j \in Direct(es, p, p + 1, tags) PROVE FALSE
    OBVIOUS
  <1>1. j \in 1 .. ((p + 1) - 1) /\ Holder(es, j) = p
    BY DEF Direct
  <1>2. j \in Nat /\ j # 0 /\ j <= p
    BY <1>1
  <1>3. Holder(es, j) < j
    BY <1>2, HolderBefore
  <1> QED
    BY <1>1, <1>2, <1>3

WithText(es, S) == {k \in S : TextIn(es, k) # <<>>}
RunAt(es, k) == [text |-> TextIn(es, k), style |-> es[k].style]

\* The runs written in a node change only when a run ends in it,
LEMMA RunsStay ==
    ASSUME NEW es, WellFormed(es), NEW p \in 1 .. Len(es), NEW n, ~EndsAt(es, p, {"rich_text"})
    PROVE  RunsAt(es, n, p + 1) = RunsAt(es, n, p)
  <1>1. {"rich_text"} \subseteq DOMAIN Holds /\ "encoded_png" \notin {"rich_text"} /\ 1 # 0 /\ 1 \in Nat
    BY DEF Holds
  <1>2. Ended(es, 1, p + 1, {"rich_text"}) = Ended(es, 1, p, {"rich_text"})
    BY <1>1, EndedStays
  <1>3. Direct(es, n, p + 1, {"rich_text"}) = Direct(es, n, p, {"rich_text"})
    BY <1>2, DirectIs
  <1> QED
    BY <1>3 DEF RunsAt

\* and the end of one that has text adds it, after all of them.
LEMMA RunsGrow ==
    ASSUME NEW es, WellFormed(es), NEW p \in 1 .. Len(es), NEW n, EndsAt(es, p, {"rich_text"}),
           NEW k \in 1 .. (p - 1), StartsAt(es, k, {"rich_text"}), Closing(es, k) = p
    PROVE  RunsAt(es, n, p + 1) = IF Holder(es, k) = n /\ TextIn(es, k) # <<>>
                              THEN Append(RunsAt(es, n, p), RunAt(es, k)) ELSE RunsAt(es, n, p)
  <1> DEFINE tags == {"rich_text"}
             S == WithText(es, Direct(es, n, p, tags))
             T == WithText(es, Direct(es, n, p + 1, tags))
             f == [j \in S |-> RunAt(es, j)]
             g == [j \in T |-> RunAt(es, j)]
  <1>1. /\ tags \subseteq DOMAIN Holds /\ 1 # 0 /\ 1 \in Nat /\ p \in Nat
        /\ StartsAt(es, k, {es[p].tag}) /\ tags \cap Holds[es[p].tag] = {}
        /\ ~AnchorAt(es, k)
    BY FileFacts DEF Holds, EndsAt, StartsAt, AnchorAt, Is
  <1>2. /\ Ended(es, 1, p + 1, tags) = Ended(es, 1, p, tags) \cup {k}
    <2>1. \A lo \in Nat : lo # 0 /\ k \in lo .. (p - 1) =>
             Ended(es, lo, p + 1, tags) = Ended(es, lo, p, tags) \cup {k}
      BY <1>1, EndedGrows
    <2> QED
      BY <1>1, <2>1
  <1>3. S \subseteq Int /\ IsFiniteSet(S) /\ \A j \in S : j < k
    <2>1. Ended(es, 1, p, tags) \subseteq Int /\ IsFiniteSet(Ended(es, 1, p, tags))
      BY <1>1, EndedIsFinite
    <2>2. S \subseteq Ended(es, 1, p, tags)
      BY DirectIs DEF WithText
    <2>3. \A j \in Ended(es, 1, p, tags) : j < k
      BY <1>1, EndedInOrder
    <2> QED
      BY <2>1, <2>2, <2>3, FS_Subset
  <1>4. T = IF Holder(es, k) = n /\ TextIn(es, k) # <<>> THEN S \cup {k} ELSE S
    BY <1>2, DirectIs DEF WithText
  <1>5. RunsAt(es, n, p) = Listed(f) /\ RunsAt(es, n, p + 1) = Listed(g)
    BY DEF RunsAt, RunAt, WithText
  <1>6. CASE Holder(es, k) = n /\ TextIn(es, k) # <<>>
    <2>1. /\ DOMAIN f = S /\ DOMAIN g = S \cup {k} /\ g[k] = RunAt(es, k) /\ k \in Int
          /\ \A i \in S : g[i] = f[i]
      BY <1>4, <1>6
    <2> HIDE DEF f, g, S
    <2>2. Listed(g) = Append(Listed(f), g[k])
      BY <1>3, <2>1, ListedGrows
    <2> QED
      BY <1>5, <1>6, <2>1, <2>2
  <1>7. CASE ~(Holder(es, k) = n /\ TextIn(es, k) # <<>>)
    <2>1. T = S
      BY <1>4, <1>7
    <2>2. g = f
      BY <2>1
    <2> HIDE DEF f, g
    <2> QED
      BY <1>5, <1>7, <2>2
  <1> QED
    BY <1>6, <1>7

Boxes == {"codebox", "encoded_png", "table"}

\* The widgets written in a node change only when one ends, or an anchor starts;
LEMMA WidgetsStay ==
    ASSUME NEW es, WellFormed(es), NEW p \in 1 .. Len(es), NEW n, ~EndsAt(es, p, Boxes), ~AnchorAt(es, p)
    PROVE  WidgetsAt(es, n, p + 1) = WidgetsAt(es, n, p)
  <1>1. Boxes \subseteq DOMAIN Holds /\ 1 # 0 /\ 1 \in Nat
    BY DEF Holds, Boxes
  <1>2. Ended(es, 1, p + 1, Boxes) = Ended(es, 1, p, Boxes)
    BY <1>1, EndedStays
  <1>3. Direct(es, n, p + 1, Boxes) = Direct(es, n, p, Boxes)
    BY <1>2, DirectIs
  <1> QED
    BY <1>3 DEF WidgetsAt, Boxes

\* one more comes after the others, in its own node;
LEMMA WidgetsJoin ==
    ASSUME NEW es, WellFormed(es), NEW p \in 1 .. Len(es), NEW n, NEW k \in 1 .. p,
           Ended(es, 1, p + 1, Boxes) = Ended(es, 1, p, Boxes) \cup {k},
           \A j \in Ended(es, 1, p, Boxes) : j < k
    PROVE  WidgetsAt(es, n, p + 1) = IF Holder(es, k) = n
                                 THEN Append(WidgetsAt(es, n, p), WidgetAt(es, k)) ELSE WidgetsAt(es, n, p)
  <1> DEFINE S == Direct(es, n, p, Boxes)
             T == Direct(es, n, p + 1, Boxes)
             f == [j \in S |-> WidgetAt(es, j)]
             g == [j \in T |-> WidgetAt(es, j)]
  <1>1. p \in Nat /\ 1 \in Nat /\ k \in Int
    OBVIOUS
  <1>2. S \subseteq Int /\ IsFiniteSet(S) /\ \A j \in S : j < k
    <2>1. Ended(es, 1, p, Boxes) \subseteq Int /\ IsFiniteSet(Ended(es, 1, p, Boxes))
      BY <1>1, EndedIsFinite
    <2>2. S \subseteq Ended(es, 1, p, Boxes)
      BY DirectIs
    <2> QED
      BY <2>1, <2>2, FS_Subset
  <1>3. T = IF Holder(es, k) = n THEN S \cup {k} ELSE S
    BY DirectIs
  <1>4. WidgetsAt(es, n, p) = Listed(f) /\ WidgetsAt(es, n, p + 1) = Listed(g)
    BY DEF WidgetsAt, Boxes
  <1>5. CASE Holder(es, k) = n
    <2>1. /\ DOMAIN f = S /\ DOMAIN g = S \cup {k} /\ g[k] = WidgetAt(es, k)
          /\ \A i \in S : g[i] = f[i]
      BY <1>3, <1>5
    <2> HIDE DEF f, g, S
    <2>2. Listed(g) = Append(Listed(f), g[k])
      BY <1>1, <1>2, <2>1, ListedGrows
    <2> QED
      BY <1>4, <1>5, <2>1, <2>2
  <1>6. CASE Holder(es, k) # n
    <2>1. T = S
      BY <1>3, <1>6
    <2>2. g = f
      BY <2>1
    <2> HIDE DEF f, g
    <2> QED
      BY <1>4, <1>6, <2>2
  <1> QED
    BY <1>5, <1>6

\* that is an anchor where it starts,
LEMMA WidgetsAtAnchor ==
    ASSUME NEW es, WellFormed(es), NEW p \in 1 .. Len(es), NEW n, AnchorAt(es, p)
    PROVE  WidgetsAt(es, n, p + 1) = IF Holder(es, p) = n
                                 THEN Append(WidgetsAt(es, n, p), WidgetAt(es, p)) ELSE WidgetsAt(es, n, p)
  <1>1. Boxes \subseteq DOMAIN Holds /\ "encoded_png" \in Boxes /\ 1 \in 1 .. p /\ p \in 1 .. p
    BY DEF Holds, Boxes
  <1>2. Ended(es, 1, p + 1, Boxes) = Ended(es, 1, p, Boxes) \cup {p}
    BY <1>1, EndedAtAnchor
  <1>3. \A j \in Ended(es, 1, p, Boxes) : j < p
    BY DEF Ended
  <1> QED
    BY <1>1, <1>2, <1>3, WidgetsJoin

\* and another widget where it ends, unless it is the end of an anchor.
LEMMA WidgetsGrow ==
    ASSUME NEW es, WellFormed(es), NEW p \in 1 .. Len(es), NEW n, EndsAt(es, p, Boxes),
           NEW k \in 1 .. (p - 1), StartsAt(es, k, {es[p].tag}), Closing(es, k) = p
    PROVE  WidgetsAt(es, n, p + 1) = IF Holder(es, k) = n /\ ~AnchorAt(es, k)
                                 THEN Append(WidgetsAt(es, n, p), WidgetAt(es, k)) ELSE WidgetsAt(es, n, p)
  <1>1. /\ Boxes \subseteq DOMAIN Holds /\ 1 # 0 /\ 1 \in Nat /\ k \in 1 .. p
        /\ Boxes \cap Holds[es[p].tag] = {}
    BY DEF Holds, Boxes, EndsAt
  <1>2. Ended(es, 1, p + 1, Boxes) = Ended(es, 1, p, Boxes) \cup {k}
    <2>1. EndsAt(es, p, Boxes) /\ k \in 1 .. (p - 1) /\ StartsAt(es, k, {es[p].tag}) /\ Closing(es, k) = p
      OBVIOUS
    <2>2. \A tags : tags \subseteq DOMAIN Holds /\ EndsAt(es, p, tags) =>
             \A lo \in Nat : lo # 0 => \A i \in lo .. (p - 1) :
                StartsAt(es, i, {es[p].tag}) => (Closing(es, i) = p =>
                   Ended(es, lo, p + 1, tags) = Ended(es, lo, p, tags) \cup {i})
      BY EndedGrows
    <2> QED
      BY <1>1, <2>1, <2>2
  <1>3. CASE AnchorAt(es, k)
    <2>1. k \in Ended(es, 1, p, Boxes)
      BY <1>3 DEF Ended, StartsAt, EndsAt
    <2>2. Direct(es, n, p + 1, Boxes) = Direct(es, n, p, Boxes)
      BY <1>2, <2>1, DirectIs
    <2> QED
      BY <1>3, <2>2 DEF WidgetsAt, Boxes
  <1>4. CASE ~AnchorAt(es, k)
    <2>1. \A j \in Ended(es, 1, p, Boxes) : j < k
      <3>1. StartsAt(es, k, Boxes)
        BY DEF StartsAt, EndsAt
      <3> QED
        BY <1>1, <1>4, <3>1, EndedInOrder
    <2> QED
      BY <1>1, <1>2, <1>4, <2>1, WidgetsJoin
  <1> QED
    BY <1>3, <1>4

-----------------------------------------------------------------------------
(* The nodes that the walk has built *)

IsBuild(x) ==
    x = [id |-> x.id, lang |-> x.lang, title |-> x.title, parent |-> x.parent,
         position |-> x.position, runs |-> x.runs, widgets |-> x.widgets]
Built(b) == SeqLike(b) /\ \A i \in 1 .. Len(b) : IsBuild(b[i])

\* Every node that started is there, below its holder and at its place among its siblings.
Shape(es, p, b) ==
    /\ Len(b) = Rank(es, p - 1)
    /\ \A k \in NodesIn(es, 1, p - 1, "start") :
          /\ b[Rank(es, k)].parent = (IF Holder(es, k) = 0 THEN 0 ELSE Rank(es, Holder(es, k)))
          /\ b[Rank(es, k)].position = Cardinality({j \in Children(es, Holder(es, k), p) : j < k})

\* It has the runs and the widgets that are written in it.
Contents(es, p, b) ==
    \A k \in NodesIn(es, 1, p - 1, "start") :
        b[Rank(es, k)].runs = RunsAt(es, k, p) /\ b[Rank(es, k)].widgets = WidgetsAt(es, k, p)

\* The siblings before a node are those that were there when it started.
LEMMA EarlierSiblings ==
    ASSUME NEW es, NEW p \in Nat, p # 0, NEW n
    PROVE  /\ \A k \in 1 .. p : {j \in Children(es, n, p + 1) : j < k} = {j \in Children(es, n, p) : j < k}
           /\ {j \in Children(es, n, p) : j < p} = Children(es, n, p)
  <1>1. (p + 1) - 1 = p
    OBVIOUS
  <1>2. ASSUME NEW k \in 1 .. p
        PROVE  {j \in Children(es, n, p + 1) : j < k} = {j \in Children(es, n, p) : j < k}
    <2>1. ASSUME NEW j, j < k PROVE j \in Children(es, n, p + 1) <=> j \in Children(es, n, p)
      <3>1. j \in 1 .. p <=> j \in 1 .. (p - 1)
        BY <2>1
      <3> QED
        BY <1>1, <3>1 DEF Children, NodesIn
    <2> QED
      BY <2>1
  <1>3. ASSUME NEW j \in Children(es, n, p) PROVE j < p
    <2>1. j \in 1 .. (p - 1)
      BY DEF Children, NodesIn
    <2> QED
      BY <2>1
  <1> QED
    BY <1>2, <1>3

\* A node that starts is built last.
LEMMA ShapeAtStart ==
    ASSUME NEW es, NEW p \in Nat, p # 0, Is(es, p, "start", "node"), NEW b, Built(b), Shape(es, p, b), NEW x, IsBuild(x),
           x.parent = IF Holder(es, p) = 0 THEN 0 ELSE Rank(es, Holder(es, p)),
           x.position = Cardinality(Children(es, Holder(es, p), p))
    PROVE  /\ Built(Append(b, x)) /\ Shape(es, p + 1, Append(b, x))
           /\ \A k \in NodesIn(es, 1, p - 1, "start") : Append(b, x)[Rank(es, k)] = b[Rank(es, k)]
           /\ Append(b, x)[Rank(es, p)] = x
           /\ NodesIn(es, 1, p, "start") = NodesIn(es, 1, p - 1, "start") \cup {p}
  <1> DEFINE e == Append(b, x)
  <1>1. SeqLike(b)
    BY DEF Built
  <1>2. /\ SeqLike(e) /\ Len(e) = Len(b) + 1 /\ e[Len(b) + 1] = x
        /\ \A i \in 1 .. Len(b) : e[i] = b[i]
    BY <1>1, OneMore
  <1> HIDE DEF e
  <1>3. /\ Rank(es, p - 1) \in Nat /\ Rank(es, p) = Rank(es, p - 1) + 1
        /\ \A k \in NodesIn(es, 1, p - 1, "start") : Rank(es, k) \in 1 .. Rank(es, p - 1)
    BY RankFacts
  <1>4. Len(b) = Rank(es, p - 1) /\ (p + 1) - 1 = p /\ p \in 1 .. p /\ 1 \in 1 .. p
    BY DEF Shape
  <1>5. NodesIn(es, 1, p, "start") = NodesIn(es, 1, p - 1, "start") \cup {p}
    BY <1>4, NodesGrow
  <1>6. /\ \A k \in NodesIn(es, 1, p - 1, "start") : e[Rank(es, k)] = b[Rank(es, k)]
        /\ e[Rank(es, p)] = x
    BY <1>2, <1>3, <1>4
  <1>7. Built(e)
    <2>1. \A i \in 1 .. Len(e) : i \in 1 .. Len(b) \/ i = Len(b) + 1
      BY <1>2, <1>3, <1>4
    <2> QED
      BY <1>2, <2>1 DEF Built
  <1>8. ASSUME NEW k \in NodesIn(es, 1, p, "start")
        PROVE  /\ e[Rank(es, k)].parent = (IF Holder(es, k) = 0 THEN 0 ELSE Rank(es, Holder(es, k)))
               /\ e[Rank(es, k)].position = Cardinality({j \in Children(es, Holder(es, k), p + 1) : j < k})
    <2>1. k \in 1 .. p
      BY DEF NodesIn
    <2>2. {j \in Children(es, Holder(es, k), p + 1) : j < k} = {j \in Children(es, Holder(es, k), p) : j < k}
      BY <2>1, EarlierSiblings
    <2>3. CASE k = p
      <3>1. {j \in Children(es, Holder(es, p), p) : j < p} = Children(es, Holder(es, p), p)
        BY EarlierSiblings
      <3> QED
        BY <1>6, <2>2, <2>3, <3>1
    <2>4. CASE k # p
      <3>1. k \in NodesIn(es, 1, p - 1, "start")
        BY <1>5, <2>4
      <3> QED
        BY <1>6, <2>2, <3>1 DEF Shape
    <2> QED
      BY <2>3, <2>4
  <1>9. Shape(es, p + 1, e)
    BY <1>2, <1>3, <1>4, <1>8 DEF Shape
  <1> QED
    BY <1>5, <1>6, <1>7, <1>9 DEF e

\* Nothing is written in it yet, nor more in the others.
LEMMA ContentsAtStart ==
    ASSUME NEW es, WellFormed(es), NEW p \in 1 .. Len(es), Is(es, p, "start", "node"),
           NEW b, NEW e, Contents(es, p, b), e[Rank(es, p)].runs = <<>>, e[Rank(es, p)].widgets = <<>>,
           \A k \in NodesIn(es, 1, p - 1, "start") : e[Rank(es, k)] = b[Rank(es, k)],
           NodesIn(es, 1, p, "start") = NodesIn(es, 1, p - 1, "start") \cup {p}
    PROVE  Contents(es, p + 1, e)
  <1>1. p \in Nat /\ p # 0 /\ (p + 1) - 1 = p
    OBVIOUS
  <1>2. ~EndsAt(es, p, {"rich_text"}) /\ ~EndsAt(es, p, Boxes) /\ ~AnchorAt(es, p)
    BY DEF EndsAt, AnchorAt, Is
  <1>3. \A k : RunsAt(es, k, p + 1) = RunsAt(es, k, p) /\ WidgetsAt(es, k, p + 1) = WidgetsAt(es, k, p)
    BY <1>2, RunsStay, WidgetsStay
  <1>4. RunsAt(es, p, p + 1) = <<>> /\ WidgetsAt(es, p, p + 1) = <<>>
    <2>1. /\ Direct(es, p, p + 1, {"rich_text"}) = {}
          /\ Direct(es, p, p + 1, {"codebox", "encoded_png", "table"}) = {}
      BY <1>1, NothingYet
    <2> DEFINE f == [k \in WithText(es, Direct(es, p, p + 1, {"rich_text"})) |-> RunAt(es, k)]
               g == [k \in Direct(es, p, p + 1, {"codebox", "encoded_png", "table"}) |-> WidgetAt(es, k)]
    <2>2. DOMAIN f = {} /\ DOMAIN g = {}
      BY <2>1 DEF WithText
    <2>3. RunsAt(es, p, p + 1) = Listed(f) /\ WidgetsAt(es, p, p + 1) = Listed(g)
      BY DEF RunsAt, RunAt, WithText, WidgetsAt
    <2> HIDE DEF f, g
    <2> QED
      BY <2>2, <2>3, NothingListed
  <1>5. ASSUME NEW k \in NodesIn(es, 1, p, "start")
        PROVE  e[Rank(es, k)].runs = RunsAt(es, k, p + 1) /\ e[Rank(es, k)].widgets = WidgetsAt(es, k, p + 1)
    <2>1. CASE k = p
      BY <1>4, <2>1
    <2>2. CASE k # p
      <3>1. k \in NodesIn(es, 1, p - 1, "start")
        BY <2>2
      <3> QED
        BY <1>3, <3>1 DEF Contents
    <2> QED
      BY <2>1, <2>2
  <1> QED
    BY <1>1, <1>5 DEF Contents

\* Any other event leaves the nodes where they are.
LEMMA ShapeStays ==
    ASSUME NEW es, NEW p \in Nat, p # 0, ~Is(es, p, "start", "node"), NEW b, Shape(es, p, b), NEW e,
           Len(e) = Len(b),
           \A i \in 1 .. Len(b) : e[i].parent = b[i].parent /\ e[i].position = b[i].position
    PROVE  Shape(es, p + 1, e) /\ NodesIn(es, 1, p, "start") = NodesIn(es, 1, p - 1, "start")
  <1>1. (p + 1) - 1 = p /\ 1 \in 1 .. p
    OBVIOUS
  <1>2. /\ Rank(es, p) = Rank(es, p - 1)
        /\ \A k \in NodesIn(es, 1, p - 1, "start") : Rank(es, k) \in 1 .. Rank(es, p - 1)
    BY RankFacts
  <1>3. NodesIn(es, 1, p, "start") = NodesIn(es, 1, p - 1, "start")
    <2>1. /\ \A i \in 1 .. p : i = p \/ i \in 1 .. (p - 1)
          /\ \A i \in 1 .. (p - 1) : i \in 1 .. p
      OBVIOUS
    <2> QED
      BY <2>1 DEF NodesIn
  <1>4. \A n : Children(es, n, p + 1) = Children(es, n, p)
    BY <1>1, <1>3 DEF Children
  <1> QED
    BY <1>1, <1>2, <1>3, <1>4 DEF Shape

\* What is added to the holder's runs or widgets is added to the holder's only.
LEMMA HolderOnly ==
    ASSUME NEW es, NEW p \in Nat, p # 0, NEW n \in NodesIn(es, 1, p - 1, "start")
    PROVE  Holder(es, p) # 0 /\ Rank(es, n) = Rank(es, Holder(es, p)) <=> n = Holder(es, p)
  <1>1. n \in 1 .. (p - 1) /\ p - 1 \in Nat
    BY DEF NodesIn
  <1>2. Holder(es, p) # 0 => Holder(es, p) \in NodesIn(es, 1, p - 1, "start")
    BY HolderBefore
  <1>3. Holder(es, p) # 0 /\ Rank(es, n) = Rank(es, Holder(es, p)) => n = Holder(es, p)
    BY <1>1, <1>2, RanksDiffer
  <1> QED
    BY <1>1, <1>3

-----------------------------------------------------------------------------
(* What is being captured, and the table so far *)

Captures == {"rich_text", "codebox", "encoded_png", "cell"}
OnlyBetween(es, k, p, tags) ==
    \A j \in (k + 1) .. (p - 1) : es[j].is = "text" \/ es[j].tag \in tags

IsCap(c) ==
    c = [what |-> c.what, buf |-> c.buf, style |-> c.style, offset |-> c.offset, kind |-> c.kind]

\* Inside an element that holds text the text so far is captured, and how it will be kept.
Capture(es, p, c) ==
    \A k \in 1 .. (p - 1) : StartsAt(es, k, Captures) /\ OnlyBetween(es, k, p, {}) =>
        /\ Holder(es, k) = Holder(es, p)
        /\ AnchorAt(es, k) => c.what = "none"
        /\ ~AnchorAt(es, k) => c.what = es[k].tag /\ c.buf = TextUpto(es, k, p - 1)
        /\ StartsAt(es, k, {"rich_text"}) => c.style = es[k].style
        /\ StartsAt(es, k, {"codebox", "encoded_png"}) /\ ~AnchorAt(es, k) =>
              c.offset = es[k].offset /\ c.kind = es[k].kind

\* Inside a table its rows so far are kept, inside a row its cells.
CellsOf(es, r) == Listed([j \in Within(es, r, "cell") |-> TextIn(es, j)])
RowsSoFar(es, k, p) == Listed([j \in Ended(es, k, p, {"row"}) |-> CellsOf(es, j)])
CellsSoFar(es, k, p) == Listed([j \in Ended(es, k, p, {"cell"}) |-> TextIn(es, j)])
Tables(es, p, offset, rs, r) ==
    /\ \A k \in 1 .. (p - 1) : StartsAt(es, k, {"table"}) /\ OnlyBetween(es, k, p, {"row", "cell"}) =>
          Holder(es, k) = Holder(es, p) /\ offset = es[k].offset /\ rs = RowsSoFar(es, k, p)
    /\ \A k \in 1 .. (p - 1) : StartsAt(es, k, {"row"}) /\ OnlyBetween(es, k, p, {"cell"}) =>
          r = CellsSoFar(es, k, p)

\* Between k and the event after p there is p too.
LEMMA BetweenGrows ==
    ASSUME NEW es, NEW p \in Nat, p # 0, NEW k \in 1 .. p, NEW tags, OnlyBetween(es, k, p + 1, tags)
    PROVE  k = p \/ /\ k \in 1 .. (p - 1) /\ OnlyBetween(es, k, p, tags)
                    /\ es[p].is = "text" \/ es[p].tag \in tags
  <1>1. (p + 1) - 1 = p
    OBVIOUS
  <1>2. k # p => p \in (k + 1) .. p /\ k \in 1 .. (p - 1)
    OBVIOUS
  <1>3. \A j \in (k + 1) .. (p - 1) : j \in (k + 1) .. p
    OBVIOUS
  <1> QED
    BY <1>1, <1>2, <1>3 DEF OnlyBetween

\* After an event of a kind that is not between, only it is as close;
LEMMA OnlyItself ==
    ASSUME NEW es, NEW p \in Nat, p # 0, NEW k \in 1 .. p, NEW tags, OnlyBetween(es, k, p + 1, tags),
           es[p].is # "text", es[p].tag \notin tags
    PROVE  k = p
  BY BetweenGrows

\* what started before it was as close before.
LEMMA OnlyBefore ==
    ASSUME NEW es, NEW p \in Nat, p # 0, NEW k \in 1 .. p, NEW tags, OnlyBetween(es, k, p + 1, tags), k # p
    PROVE  k \in 1 .. (p - 1) /\ OnlyBetween(es, k, p, tags) /\ k \in Nat /\ k # 0
  <1>1. (p + 1) - 1 = p
    OBVIOUS
  <1>2. k \in 1 .. (p - 1) /\ k \in Nat /\ k # 0
    OBVIOUS
  <1>3. \A j \in (k + 1) .. (p - 1) : j \in (k + 1) .. p
    OBVIOUS
  <1> QED
    BY <1>1, <1>2, <1>3 DEF OnlyBetween

\* An event of another kind leaves nothing captured to keep.
LEMMA CaptureElse ==
    ASSUME NEW es, NEW p \in Nat, p # 0, es[p].is # "text", ~StartsAt(es, p, Captures), NEW c
    PROVE  Capture(es, p + 1, c)
  <1> SUFFICES ASSUME NEW k \in 1 .. ((p + 1) - 1), StartsAt(es, k, Captures), OnlyBetween(es, k, p + 1, {})
               PROVE  FALSE
    BY DEF Capture
  <1>1. k \in 1 .. p
    OBVIOUS
  <1>2. k = p
    BY <1>1, BetweenGrows
  <1> QED
    BY <1>2

\* An element that starts is captured from then on,
LEMMA CaptureAtStart ==
    ASSUME NEW es, WellFormed(es), NEW p \in 1 .. Len(es), StartsAt(es, p, Captures),
           Holder(es, p + 1) = Holder(es, p), NEW c,
           AnchorAt(es, p) => c.what = "none",
           ~AnchorAt(es, p) => c.what = es[p].tag /\ c.buf = <<>>,
           StartsAt(es, p, {"rich_text"}) => c.style = es[p].style,
           StartsAt(es, p, {"codebox", "encoded_png"}) /\ ~AnchorAt(es, p) =>
              c.offset = es[p].offset /\ c.kind = es[p].kind
    PROVE  Capture(es, p + 1, c)
  <1>1. p \in Nat /\ p # 0 /\ (p + 1) - 1 = p /\ p \in 1 .. p /\ es[p].is # "text"
    <2>1. p \in Nat /\ p # 0 /\ (p + 1) - 1 = p /\ p \in 1 .. p
      BY SMTT(20)
    <2>2. es[p].is # "text"
      BY DEF StartsAt
    <2> QED
      BY <2>1, <2>2
  <1>2. TextUpto(es, p, p) = <<>>
    BY <1>1, TextGrows
  <1>3. ASSUME NEW k \in 1 .. p, OnlyBetween(es, k, p + 1, {}) PROVE k = p
    <2>1. es[p].tag \notin {}
      OBVIOUS
    <2> QED
      BY <1>1, <1>3, <2>1, OnlyItself
  <1> QED
    BY <1>1, <1>2, <1>3, SMTT(20) DEF Capture

\* and text is added to what is captured.
LEMMA CaptureAtText ==
    ASSUME NEW es, WellFormed(es), NEW p \in 1 .. Len(es), es[p].is = "text",
           Holder(es, p + 1) = Holder(es, p), NEW c, Capture(es, p, c), NEW d,
           d.what = c.what, d.style = c.style, d.offset = c.offset, d.kind = c.kind,
           c.what # "none" => d.buf = c.buf \o es[p].text
    PROVE  Capture(es, p + 1, d)
  <1>1. p \in Nat /\ p # 0 /\ (p + 1) - 1 = p
    OBVIOUS
  <1>2. /\ d.what = c.what /\ d.style = c.style /\ d.offset = c.offset /\ d.kind = c.kind
        /\ c.what # "none" => d.buf = c.buf \o es[p].text
    OBVIOUS
  <1>3. ASSUME NEW k \in 1 .. p, StartsAt(es, k, Captures), OnlyBetween(es, k, p + 1, {})
        PROVE  /\ Holder(es, k) = Holder(es, p + 1)
               /\ AnchorAt(es, k) => d.what = "none"
               /\ ~AnchorAt(es, k) => d.what = es[k].tag /\ d.buf = TextUpto(es, k, p)
               /\ StartsAt(es, k, {"rich_text"}) => d.style = es[k].style
               /\ StartsAt(es, k, {"codebox", "encoded_png"}) /\ ~AnchorAt(es, k) =>
                     d.offset = es[k].offset /\ d.kind = es[k].kind
    <2>1. k # p
      BY <1>3 DEF StartsAt
    <2>2. k \in 1 .. (p - 1) /\ OnlyBetween(es, k, p, {})
      BY <1>1, <1>3, <2>1, BetweenGrows
    <2>3. /\ Holder(es, k) = Holder(es, p)
          /\ AnchorAt(es, k) => c.what = "none"
          /\ ~AnchorAt(es, k) => c.what = es[k].tag /\ c.buf = TextUpto(es, k, p - 1)
          /\ StartsAt(es, k, {"rich_text"}) => c.style = es[k].style
          /\ StartsAt(es, k, {"codebox", "encoded_png"}) /\ ~AnchorAt(es, k) =>
                c.offset = es[k].offset /\ c.kind = es[k].kind
      BY <1>3, <2>2 DEF Capture
    <2>4. TextUpto(es, k, p) = TextUpto(es, k, p - 1) \o es[p].text
      BY TextGrows
    <2>5. es[k].tag # "none"
      BY <1>3 DEF StartsAt, Captures
    <2>6. ~AnchorAt(es, k) => d.what = es[k].tag /\ d.buf = TextUpto(es, k, p)
      BY <1>2, <2>3, <2>4, <2>5
    <2> QED
      BY <1>2, <2>3, <2>6
  <1> QED
    BY <1>1, <1>2, <1>3 DEF Capture

\* What is captured when an element ends is all its text.
LEMMA CapturedAll ==
    ASSUME NEW es, WellFormed(es), NEW p \in 1 .. Len(es), EndsAt(es, p, Captures),
           NEW k \in 1 .. (p - 1), StartsAt(es, k, {es[p].tag}), Closing(es, k) = p, Between(es, k, p),
           NEW c, Capture(es, p, c)
    PROVE  /\ Holder(es, k) = Holder(es, p)
           /\ AnchorAt(es, k) => c.what = "none"
           /\ ~AnchorAt(es, k) => c.what = es[p].tag /\ c.buf = TextIn(es, k)
           /\ EndsAt(es, p, {"rich_text"}) => c.style = es[k].style
           /\ EndsAt(es, p, {"codebox", "encoded_png"}) /\ ~AnchorAt(es, k) =>
                 c.offset = es[k].offset /\ c.kind = es[k].kind
  <1>1. /\ StartsAt(es, k, Captures) /\ es[k].tag = es[p].tag
        /\ EndsAt(es, p, {"rich_text"}) => StartsAt(es, k, {"rich_text"})
        /\ EndsAt(es, p, {"codebox", "encoded_png"}) => StartsAt(es, k, {"codebox", "encoded_png"})
    BY DEF StartsAt, EndsAt
  <1>2. Holds[es[k].tag] = {}
    BY <1>1 DEF Holds, StartsAt, Captures
  <1>3. OnlyBetween(es, k, p, {})
    BY <1>2 DEF OnlyBetween, Between
  <1>4. /\ Holder(es, k) = Holder(es, p)
        /\ AnchorAt(es, k) => c.what = "none"
        /\ ~AnchorAt(es, k) => c.what = es[k].tag /\ c.buf = TextUpto(es, k, p - 1)
        /\ StartsAt(es, k, {"rich_text"}) => c.style = es[k].style
        /\ StartsAt(es, k, {"codebox", "encoded_png"}) /\ ~AnchorAt(es, k) =>
              c.offset = es[k].offset /\ c.kind = es[k].kind
    BY <1>1, <1>3 DEF Capture
  <1>5. TextIn(es, k) = TextUpto(es, k, p - 1)
    <2>1. TextIn(es, k) = TextUpto(es, k, p)
      BY TextIsAll
    <2>2. k \in 1 .. p /\ es[p].is # "text"
      BY DEF EndsAt
    <2> QED
      BY <2>1, <2>2, TextGrows
  <1> QED
    BY <1>1, <1>4, <1>5

\* Nothing of these has ended when something else starts.
LEMMA NothingEnded ==
    ASSUME NEW es, NEW p \in Nat, NEW tags, ~StartsAt(es, p, tags)
    PROVE  Ended(es, p, p + 1, tags) = {}
  <1>1. p .. ((p + 1) - 1) = {p}
    OBVIOUS
  <1> QED
    BY <1>1 DEF Ended

\* In an element that ends, those inside have ended.
LEMMA WithinEnded ==
    ASSUME NEW es, WellFormed(es), NEW p \in 1 .. Len(es), NEW k \in 1 .. (p - 1), Closing(es, k) = p,
           NEW tag \in DOMAIN Holds, tag # "encoded_png", tag # es[p].tag,
           es[p].is = "end", es[p].tag \notin Holds[tag]
    PROVE  Within(es, k, tag) = Ended(es, k, p, {tag})
  <1>1. Len(es) \in Nat
    BY FileFacts
  <1>2. ASSUME NEW j \in Within(es, k, tag) PROVE j \in Ended(es, k, p, {tag})
    <2>1. j \in k .. p /\ StartsAt(es, j, {tag}) /\ StartsAt(es, j, DOMAIN Holds) /\ es[j].tag = tag
      BY DEF Within, Is, StartsAt
    <2>2. j \in k .. (p - 1) /\ j \in 1 .. Len(es)
      <3>1. j # p
        BY <2>1 DEF StartsAt
      <3> QED
        BY <1>1, <2>1, <3>1
    <2>3. /\ Closing(es, j) \in 1 .. Len(es) /\ j < Closing(es, j) /\ Between(es, j, Closing(es, j))
          /\ es[Closing(es, j)].tag = tag
      BY <2>1, <2>2, StartHasEnd
    <2>4. ~(Closing(es, j) > p)
      <3> SUFFICES ASSUME Closing(es, j) > p PROVE FALSE
        OBVIOUS
      <3>1. p \in (j + 1) .. (Closing(es, j) - 1)
        BY <2>2, <2>3
      <3> QED
        BY <2>1, <2>3, <3>1 DEF Between
    <2>5. Closing(es, j) # p
      BY <2>3
    <2>6. Closing(es, j) < p
      BY <2>3, <2>4, <2>5
    <2> QED
      BY <2>1, <2>2, <2>6 DEF Ended
  <1>3. ASSUME NEW j \in Ended(es, k, p, {tag}) PROVE j \in Within(es, k, tag)
    <2>1. j \in k .. (p - 1) /\ StartsAt(es, j, {tag})
      BY DEF Ended
    <2>2. j \in k .. p
      BY <2>1
    <2> QED
      BY <2>1, <2>2 DEF Within, Is, StartsAt
  <1> QED
    BY <1>2, <1>3

\* An event of another kind leaves no table to keep.
LEMMA TablesElse ==
    ASSUME NEW es, NEW p \in Nat, p # 0, es[p].is # "text",
           es[p].tag \notin {"row", "cell"}, ~StartsAt(es, p, {"table"}),
           NEW offset, NEW rs, NEW r
    PROVE  Tables(es, p + 1, offset, rs, r)
  <1>1. (p + 1) - 1 = p
    OBVIOUS
  <1>2. ASSUME NEW k \in 1 .. p, StartsAt(es, k, {"table"}), OnlyBetween(es, k, p + 1, {"row", "cell"})
        PROVE  FALSE
    BY <1>2, BetweenGrows
  <1>3. ASSUME NEW k \in 1 .. p, StartsAt(es, k, {"row"}), OnlyBetween(es, k, p + 1, {"cell"})
        PROVE  FALSE
    <2>1. k # p
      BY <1>3 DEF StartsAt
    <2>2. es[p].tag \notin {"cell"}
      OBVIOUS
    <2>3. k = p
      BY <1>3, <2>2, OnlyItself
    <2> QED
      BY <2>1, <2>3
  <1> QED
    BY <1>1, <1>2, <1>3 DEF Tables

\* Text, and a cell that starts, leave the rows and the cells.
LEMMA TablesKeep ==
    ASSUME NEW es, WellFormed(es), NEW p \in 1 .. Len(es),
           es[p].is = "text" \/ StartsAt(es, p, {"cell"}),
           Holder(es, p + 1) = Holder(es, p), NEW offset, NEW rs, NEW r, Tables(es, p, offset, rs, r)
    PROVE  Tables(es, p + 1, offset, rs, r)
  <1>1. (p + 1) - 1 = p /\ p \in Nat /\ p # 0
    OBVIOUS
  <1>2. /\ ~EndsAt(es, p, {"row"}) /\ ~EndsAt(es, p, {"cell"}) /\ {"row"} \subseteq DOMAIN Holds
        /\ {"cell"} \subseteq DOMAIN Holds /\ ~AnchorAt(es, p) /\ ~StartsAt(es, p, {"table", "row"})
    BY DEF EndsAt, StartsAt, Holds, AnchorAt, Is
  <1>3. ASSUME NEW k \in 1 .. (p - 1)
        PROVE  RowsSoFar(es, k, p + 1) = RowsSoFar(es, k, p) /\ CellsSoFar(es, k, p + 1) = CellsSoFar(es, k, p)
    <2>1. k \in Nat /\ k # 0
      OBVIOUS
    <2>2. Ended(es, k, p + 1, {"row"}) = Ended(es, k, p, {"row"})
      BY <1>2, <2>1, EndedStays
    <2>3. Ended(es, k, p + 1, {"cell"}) = Ended(es, k, p, {"cell"})
      BY <1>2, <2>1, EndedStays
    <2> QED
      BY <2>2, <2>3 DEF RowsSoFar, CellsSoFar
  <1>4. ASSUME NEW k \in 1 .. p, StartsAt(es, k, {"table"}), OnlyBetween(es, k, p + 1, {"row", "cell"})
        PROVE  Holder(es, k) = Holder(es, p + 1) /\ offset = es[k].offset /\ rs = RowsSoFar(es, k, p + 1)
    <2>1. k # p
      BY <1>2, <1>4 DEF StartsAt
    <2>2. k \in 1 .. (p - 1) /\ OnlyBetween(es, k, p, {"row", "cell"})
      BY <1>1, <1>4, <2>1, BetweenGrows
    <2> QED
      BY <1>3, <1>4, <2>2 DEF Tables
  <1>5. ASSUME NEW k \in 1 .. p, StartsAt(es, k, {"row"}), OnlyBetween(es, k, p + 1, {"cell"})
        PROVE  r = CellsSoFar(es, k, p + 1)
    <2>1. k # p
      BY <1>2, <1>5 DEF StartsAt
    <2>2. k \in 1 .. (p - 1) /\ OnlyBetween(es, k, p, {"cell"})
      BY <1>1, <1>5, <2>1, BetweenGrows
    <2> QED
      BY <1>3, <1>5, <2>2 DEF Tables
  <1> QED
    BY <1>1, <1>4, <1>5 DEF Tables

\* A table that starts has no rows.
LEMMA TablesAtTable ==
    ASSUME NEW es, WellFormed(es), NEW p \in 1 .. Len(es), StartsAt(es, p, {"table"}),
           Holder(es, p + 1) = Holder(es, p), NEW r
    PROVE  Tables(es, p + 1, es[p].offset, <<>>, r)
  <1>1. (p + 1) - 1 = p /\ p \in Nat /\ p # 0
    OBVIOUS
  <1>2. /\ ~StartsAt(es, p, {"row"}) /\ es[p].is # "text"
        /\ es[p].tag \notin {"row", "cell"} /\ es[p].tag \notin {"cell"}
    BY DEF StartsAt
  <1>3. RowsSoFar(es, p, p + 1) = <<>>
    <2> DEFINE f == [j \in Ended(es, p, p + 1, {"row"}) |-> CellsOf(es, j)]
    <2>1. DOMAIN f = {}
      BY <1>1, <1>2, NothingEnded
    <2> HIDE DEF f
    <2>2. Listed(f) = <<>>
      BY <2>1, NothingListed
    <2> QED
      BY <2>2 DEF f, RowsSoFar
  <1>4. ASSUME NEW k \in 1 .. p, OnlyBetween(es, k, p + 1, {"row", "cell"}) PROVE k = p
    BY <1>1, <1>4, <1>2, OnlyItself
  <1>5. ASSUME NEW k \in 1 .. p, StartsAt(es, k, {"row"}), OnlyBetween(es, k, p + 1, {"cell"}) PROVE FALSE
    <2>1. k # p
      BY <1>5, <1>2
    <2> QED
      BY <1>1, <1>5, <1>2, <2>1, OnlyItself
  <1> QED
    BY <1>1, <1>3, <1>4, <1>5 DEF Tables

\* A row that starts has no cells.
LEMMA TablesAtRow ==
    ASSUME NEW es, WellFormed(es), NEW p \in 1 .. Len(es), StartsAt(es, p, {"row"}),
           Holder(es, p + 1) = Holder(es, p), NEW offset, NEW rs, NEW r, Tables(es, p, offset, rs, r)
    PROVE  Tables(es, p + 1, offset, rs, <<>>)
  <1>1. (p + 1) - 1 = p /\ p \in Nat /\ p # 0
    OBVIOUS
  <1>2. /\ ~EndsAt(es, p, {"row"}) /\ {"row"} \subseteq DOMAIN Holds /\ ~AnchorAt(es, p)
    BY DEF EndsAt, StartsAt, Holds, AnchorAt, Is
  <1>3. /\ ~StartsAt(es, p, {"cell"}) /\ ~StartsAt(es, p, {"table"}) /\ es[p].is # "text"
        /\ es[p].tag \notin {"cell"}
    BY DEF StartsAt
  <1>4. CellsSoFar(es, p, p + 1) = <<>>
    <2> DEFINE f == [j \in Ended(es, p, p + 1, {"cell"}) |-> TextIn(es, j)]
    <2>1. DOMAIN f = {}
      BY <1>1, <1>3, NothingEnded
    <2> HIDE DEF f
    <2>2. Listed(f) = <<>>
      BY <2>1, NothingListed
    <2> QED
      BY <2>2 DEF f, CellsSoFar
  <1>5. ASSUME NEW k \in 1 .. p, StartsAt(es, k, {"table"}), OnlyBetween(es, k, p + 1, {"row", "cell"})
        PROVE  Holder(es, k) = Holder(es, p + 1) /\ offset = es[k].offset /\ rs = RowsSoFar(es, k, p + 1)
    <2>1. k # p
      BY <1>5, <1>3
    <2>2. k \in 1 .. (p - 1) /\ OnlyBetween(es, k, p, {"row", "cell"}) /\ k \in Nat /\ k # 0
      BY <1>1, <1>5, <2>1, OnlyBefore
    <2>3. Ended(es, k, p + 1, {"row"}) = Ended(es, k, p, {"row"})
      BY <1>2, <2>2, EndedStays
    <2> QED
      BY <1>5, <2>2, <2>3 DEF Tables, RowsSoFar
  <1>6. ASSUME NEW k \in 1 .. p, OnlyBetween(es, k, p + 1, {"cell"}) PROVE k = p
    BY <1>1, <1>6, <1>3, OnlyItself
  <1> QED
    BY <1>1, <1>4, <1>5, <1>6 DEF Tables

\* One that is inside the same row or table started after it did.
LEMMA StartedInside ==
    ASSUME NEW es, NEW p \in Nat, NEW k \in 1 .. (p - 1), NEW s \in 1 .. (p - 1), Between(es, s, p),
           es[k].is # "text", es[k].tag # es[s].tag,
           es[k].tag \notin Holds[es[s].tag]
    PROVE  s \in k .. (p - 1)
  <1>1. k # s
    OBVIOUS
  <1>2. ~(s < k)
    <2> SUFFICES ASSUME s < k PROVE FALSE
      OBVIOUS
    <2>1. k \in (s + 1) .. (p - 1)
      OBVIOUS
    <2> QED
      BY <2>1 DEF Between
  <1> QED
    BY <1>1, <1>2

\* A cell or a row that ends joins those that have.
LEMMA EndedOne ==
    ASSUME NEW es, WellFormed(es), NEW p \in 1 .. Len(es), NEW tag \in DOMAIN Holds,
           tag \notin Holds[tag], EndsAt(es, p, {tag}), NEW k \in 1 .. (p - 1), NEW s \in k .. (p - 1),
           StartsAt(es, s, {tag}), Closing(es, s) = p, ~AnchorAt(es, s)
    PROVE  /\ Ended(es, k, p + 1, {tag}) = Ended(es, k, p, {tag}) \cup {s}
           /\ \A j \in Ended(es, k, p, {tag}) : j < s
           /\ Ended(es, k, p, {tag}) \subseteq Int /\ IsFiniteSet(Ended(es, k, p, {tag})) /\ s \in Int
  <1>1. /\ es[p].tag = tag /\ StartsAt(es, s, {es[p].tag}) /\ {tag} \subseteq DOMAIN Holds
        /\ {tag} \cap Holds[es[p].tag] = {}
    BY DEF EndsAt, StartsAt
  <1>2. k \in Nat /\ k # 0 /\ p \in Nat /\ s \in Int
    OBVIOUS
  <1>3. Ended(es, k, p + 1, {tag}) = Ended(es, k, p, {tag}) \cup {s}
    <2>1. \A lo \in Nat : lo # 0 => \A i \in lo .. (p - 1) :
             StartsAt(es, i, {es[p].tag}) => (Closing(es, i) = p =>
                Ended(es, lo, p + 1, {tag}) = Ended(es, lo, p, {tag}) \cup {i})
      BY <1>1, EndedGrows
    <2> QED
      BY <1>1, <1>2, <2>1
  <1>4. \A j \in Ended(es, k, p, {tag}) : j < s
    BY <1>1, <1>2, EndedInOrder
  <1> QED
    BY <1>2, <1>3, <1>4, EndedIsFinite

\* A cell that ends is the row's last.
LEMMA TablesAtCellEnd ==
    ASSUME NEW es, WellFormed(es), NEW p \in 1 .. Len(es), EndsAt(es, p, {"cell"}),
           Holder(es, p + 1) = Holder(es, p), NEW offset, NEW rs, NEW r, Tables(es, p, offset, rs, r),
           NEW s \in 1 .. (p - 1), StartsAt(es, s, {"cell"}), Closing(es, s) = p, Between(es, s, p)
    PROVE  Tables(es, p + 1, offset, rs, Append(r, TextIn(es, s)))
  <1>1. (p + 1) - 1 = p /\ p \in Nat /\ p # 0
    OBVIOUS
  <1>2. ~EndsAt(es, p, {"row"}) /\ {"row"} \subseteq DOMAIN Holds /\ ~AnchorAt(es, p)
    BY DEF EndsAt, StartsAt, Holds, AnchorAt, Is
  <1>3. /\ "cell" \in DOMAIN Holds /\ "cell" \notin Holds["cell"] /\ "row" \notin Holds["cell"]
        /\ es[s].tag = "cell" /\ ~AnchorAt(es, s)
    BY DEF Holds, StartsAt, AnchorAt, Is
  <1>4. ASSUME NEW k \in 1 .. (p - 1), s \in k .. (p - 1)
        PROVE  /\ Ended(es, k, p + 1, {"cell"}) = Ended(es, k, p, {"cell"}) \cup {s}
               /\ \A j \in Ended(es, k, p, {"cell"}) : j < s
               /\ Ended(es, k, p, {"cell"}) \subseteq Int /\ IsFiniteSet(Ended(es, k, p, {"cell"})) /\ s \in Int
    <2>1. /\ WellFormed(es) /\ p \in 1 .. Len(es) /\ "cell" \in DOMAIN Holds /\ "cell" \notin Holds["cell"]
          /\ EndsAt(es, p, {"cell"}) /\ k \in 1 .. (p - 1) /\ s \in k .. (p - 1)
          /\ StartsAt(es, s, {"cell"}) /\ Closing(es, s) = p /\ ~AnchorAt(es, s)
      BY <1>3, <1>4
    <2> QED
      BY <2>1, EndedOne, Zenon
  <1>5. ASSUME NEW k \in 1 .. p, StartsAt(es, k, {"table"}), OnlyBetween(es, k, p + 1, {"row", "cell"})
        PROVE  Holder(es, k) = Holder(es, p + 1) /\ offset = es[k].offset /\ rs = RowsSoFar(es, k, p + 1)
    <2>1. k # p
      BY <1>5 DEF StartsAt, EndsAt
    <2>2. k \in 1 .. (p - 1) /\ OnlyBetween(es, k, p, {"row", "cell"}) /\ k \in Nat /\ k # 0
      BY <1>1, <1>5, <2>1, OnlyBefore
    <2>3. Ended(es, k, p + 1, {"row"}) = Ended(es, k, p, {"row"})
      BY <1>2, <2>2, EndedStays
    <2> QED
      BY <1>5, <2>2, <2>3 DEF Tables, RowsSoFar
  <1>6. ASSUME NEW k \in 1 .. p, StartsAt(es, k, {"row"}), OnlyBetween(es, k, p + 1, {"cell"})
        PROVE  Append(r, TextIn(es, s)) = CellsSoFar(es, k, p + 1)
    <2>1. k # p
      BY <1>6 DEF StartsAt, EndsAt
    <2>2. k \in 1 .. (p - 1) /\ OnlyBetween(es, k, p, {"cell"}) /\ k \in Nat /\ k # 0
      BY <1>1, <1>6, <2>1, OnlyBefore
    <2>3. s \in k .. (p - 1)
      BY <1>1, <1>3, <1>6, <2>2, StartedInside DEF StartsAt
    <2>4. r = CellsSoFar(es, k, p)
      BY <1>6, <2>2 DEF Tables
    <2> DEFINE S == Ended(es, k, p, {"cell"})
               T == Ended(es, k, p + 1, {"cell"})
               f == [j \in S |-> TextIn(es, j)]
               g == [j \in T |-> TextIn(es, j)]
    <2>5. /\ T = S \cup {s} /\ \A j \in S : j < s
          /\ S \subseteq Int /\ IsFiniteSet(S) /\ s \in Int
      BY <1>4, <2>2, <2>3
    <2>6. /\ DOMAIN f = S /\ DOMAIN g = S \cup {s} /\ g[s] = TextIn(es, s)
          /\ \A j \in S : g[j] = f[j]
      BY <2>5
    <2> HIDE DEF f, g, S
    <2>7. Listed(g) = Append(Listed(f), g[s])
      BY <2>5, <2>6, ListedGrows
    <2> QED
      BY <2>4, <2>6, <2>7 DEF f, g, S, CellsSoFar
  <1> QED
    BY <1>1, <1>5, <1>6 DEF Tables

\* The cells of a row that ends are all its cells.
LEMMA CellsAreAll ==
    ASSUME NEW es, WellFormed(es), NEW p \in 1 .. Len(es), EndsAt(es, p, {"row"}),
           NEW offset, NEW rs, NEW r, Tables(es, p, offset, rs, r),
           NEW s \in 1 .. (p - 1), StartsAt(es, s, {"row"}), Closing(es, s) = p, Between(es, s, p)
    PROVE  r = CellsOf(es, s)
  <1>1. Holds[es[s].tag] = {"cell"}
    BY DEF StartsAt, Holds
  <1>2. r = CellsSoFar(es, s, p)
    BY <1>1 DEF Tables, OnlyBetween, Between
  <1>3. Within(es, s, "cell") = Ended(es, s, p, {"cell"})
    <2>1. /\ "cell" \in DOMAIN Holds /\ "cell" # es[p].tag /\ es[p].is = "end"
          /\ es[p].tag \notin Holds["cell"]
      BY DEF EndsAt, Holds
    <2> QED
      BY <2>1, WithinEnded
  <1> QED
    BY <1>2, <1>3 DEF CellsOf, CellsSoFar

\* A row that ends is the table's last.
LEMMA TablesAtRowEnd ==
    ASSUME NEW es, WellFormed(es), NEW p \in 1 .. Len(es), EndsAt(es, p, {"row"}),
           Holder(es, p + 1) = Holder(es, p), NEW offset, NEW rs, NEW r, NEW q, Tables(es, p, offset, rs, r),
           NEW s \in 1 .. (p - 1), StartsAt(es, s, {"row"}), Closing(es, s) = p, Between(es, s, p)
    PROVE  Tables(es, p + 1, offset, Append(rs, r), q)
  <1>1. (p + 1) - 1 = p /\ p \in Nat /\ p # 0
    OBVIOUS
  <1>2. /\ "row" \in DOMAIN Holds /\ "row" \notin Holds["row"]
        /\ "table" \notin Holds["row"] /\ es[s].tag = "row" /\ ~AnchorAt(es, s)
    BY DEF StartsAt, Holds, AnchorAt, Is
  <1>3. r = CellsOf(es, s)
    BY CellsAreAll
  <1>4. ASSUME NEW k \in 1 .. (p - 1), s \in k .. (p - 1)
        PROVE  /\ Ended(es, k, p + 1, {"row"}) = Ended(es, k, p, {"row"}) \cup {s}
               /\ \A j \in Ended(es, k, p, {"row"}) : j < s
               /\ Ended(es, k, p, {"row"}) \subseteq Int /\ IsFiniteSet(Ended(es, k, p, {"row"})) /\ s \in Int
    <2>1. /\ WellFormed(es) /\ p \in 1 .. Len(es) /\ "row" \in DOMAIN Holds /\ "row" \notin Holds["row"]
          /\ EndsAt(es, p, {"row"}) /\ k \in 1 .. (p - 1) /\ s \in k .. (p - 1)
          /\ StartsAt(es, s, {"row"}) /\ Closing(es, s) = p /\ ~AnchorAt(es, s)
      BY <1>2, <1>4
    <2> QED
      BY <2>1, EndedOne, Zenon
  <1>5. ASSUME NEW k \in 1 .. p, StartsAt(es, k, {"table"}), OnlyBetween(es, k, p + 1, {"row", "cell"})
        PROVE  /\ Holder(es, k) = Holder(es, p + 1) /\ offset = es[k].offset
               /\ Append(rs, r) = RowsSoFar(es, k, p + 1)
    <2>1. k # p
      BY <1>5 DEF StartsAt, EndsAt
    <2>2. k \in 1 .. (p - 1) /\ OnlyBetween(es, k, p, {"row", "cell"}) /\ k \in Nat /\ k # 0
      BY <1>1, <1>5, <2>1, OnlyBefore
    <2>3. s \in k .. (p - 1)
      BY <1>1, <1>2, <1>5, <2>2, StartedInside DEF StartsAt
    <2>4. Holder(es, k) = Holder(es, p) /\ offset = es[k].offset /\ rs = RowsSoFar(es, k, p)
      BY <1>5, <2>2 DEF Tables
    <2> DEFINE S == Ended(es, k, p, {"row"})
               T == Ended(es, k, p + 1, {"row"})
               f == [j \in S |-> CellsOf(es, j)]
               g == [j \in T |-> CellsOf(es, j)]
    <2>5. /\ T = S \cup {s} /\ \A j \in S : j < s
          /\ S \subseteq Int /\ IsFiniteSet(S) /\ s \in Int
      BY <1>4, <2>2, <2>3
    <2>6. /\ DOMAIN f = S /\ DOMAIN g = S \cup {s} /\ g[s] = CellsOf(es, s)
          /\ \A j \in S : g[j] = f[j]
      BY <2>5
    <2> HIDE DEF f, g, S
    <2>7. Listed(g) = Append(Listed(f), g[s])
      BY <2>5, <2>6, ListedGrows
    <2>8. Append(rs, r) = RowsSoFar(es, k, p + 1)
      BY <1>3, <2>4, <2>6, <2>7 DEF f, g, S, RowsSoFar
    <2> QED
      BY <2>4, <2>8
  <1>6. ASSUME NEW k \in 1 .. p, StartsAt(es, k, {"row"}), OnlyBetween(es, k, p + 1, {"cell"}) PROVE FALSE
    <2>1. k # p
      BY <1>6 DEF StartsAt, EndsAt
    <2>2. es[p].is # "text" /\ es[p].tag \notin {"cell"}
      BY DEF EndsAt
    <2> QED
      BY <1>1, <1>6, <2>1, <2>2, OnlyItself
  <1> QED
    BY <1>1, <1>5, <1>6 DEF Tables

\* The rows of a table that ends are all its rows.
LEMMA RowsAreAll ==
    ASSUME NEW es, WellFormed(es), NEW p \in 1 .. Len(es), EndsAt(es, p, {"table"}),
           NEW offset, NEW rs, NEW r, Tables(es, p, offset, rs, r),
           NEW k \in 1 .. (p - 1), StartsAt(es, k, {"table"}), Closing(es, k) = p, Between(es, k, p)
    PROVE  Holder(es, k) = Holder(es, p) /\ offset = es[k].offset /\ rs = TableIn(es, k)
  <1>1. Holds[es[k].tag] = {"row", "cell"}
    BY DEF StartsAt, Holds
  <1>2. Holder(es, k) = Holder(es, p) /\ offset = es[k].offset /\ rs = RowsSoFar(es, k, p)
    BY <1>1 DEF Tables, OnlyBetween, Between
  <1>3. Within(es, k, "row") = Ended(es, k, p, {"row"})
    <2>1. /\ "row" \in DOMAIN Holds /\ "row" # es[p].tag /\ es[p].is = "end"
          /\ es[p].tag \notin Holds["row"]
      BY DEF EndsAt, Holds
    <2> QED
      BY <2>1, WithinEnded
  <1> QED
    BY <1>2, <1>3 DEF TableIn, CellsOf, RowsSoFar

-----------------------------------------------------------------------------
(* The walk, event by event *)

\* An event that adds nothing to a node leaves the nodes right,
LEMMA NodesKept ==
    ASSUME NEW es, NEW p \in Nat, p # 0, ~Is(es, p, "start", "node"),
           NEW b, Shape(es, p, b), Contents(es, p, b),
           \A n : RunsAt(es, n, p + 1) = RunsAt(es, n, p),
           \A n : WidgetsAt(es, n, p + 1) = WidgetsAt(es, n, p)
    PROVE  Shape(es, p + 1, b) /\ Contents(es, p + 1, b)
  <1>1. Shape(es, p + 1, b) /\ NodesIn(es, 1, p, "start") = NodesIn(es, 1, p - 1, "start")
    BY ShapeStays
  <1>2. (p + 1) - 1 = p
    OBVIOUS
  <1> QED
    BY <1>1, <1>2 DEF Contents

\* The top of the stack is the holder, among the nodes built.
LEMMA TopIsHolder ==
    ASSUME NEW es, NEW p \in Nat, p # 0, NEW b, Shape(es, p, b)
    PROVE  /\ Opened(es, p) = <<>> <=> Holder(es, p) = 0
           /\ Holder(es, p) # 0 =>
                 /\ Last(Opened(es, p)) = Rank(es, Holder(es, p))
                 /\ Rank(es, Holder(es, p)) \in 1 .. Len(b)
  <1>1. /\ Holder(es, p) # 0 => Holder(es, p) \in NodesIn(es, 1, p - 1, "start")
        /\ Holder(es, p) = 0 <=> Open(es, p) = {}
    BY HolderBefore
  <1>2. /\ Open(es, p) = {} <=> Opened(es, p) = <<>>
        /\ Open(es, p) # {} => Last(Opened(es, p)) = Rank(es, Holder(es, p))
    BY StackFacts
  <1>3. /\ Len(b) = Rank(es, p - 1)
        /\ \A k \in NodesIn(es, 1, p - 1, "start") : Rank(es, k) \in 1 .. Rank(es, p - 1)
    BY RankFacts DEF Shape
  <1> QED
    BY <1>1, <1>2, <1>3

\* one that adds a widget adds it to the node on top of the stack,
LEMMA WidgetAdded ==
    ASSUME NEW es, NEW p \in Nat, p # 0, ~Is(es, p, "start", "node"),
           NEW b, Built(b), Shape(es, p, b), Contents(es, p, b), NEW x,
           \A n : RunsAt(es, n, p + 1) = RunsAt(es, n, p),
           \A n : WidgetsAt(es, n, p + 1) =
                     IF Holder(es, p) = n THEN Append(WidgetsAt(es, n, p), x) ELSE WidgetsAt(es, n, p),
           NEW s, s = Opened(es, p), NEW e,
           e = IF s = <<>> THEN b ELSE [b EXCEPT ![Last(s)].widgets = Append(@, x)]
    PROVE  Built(e) /\ Shape(es, p + 1, e) /\ Contents(es, p + 1, e)
  <1> DEFINE m == Rank(es, Holder(es, p))
  <1>1. /\ s = <<>> <=> Holder(es, p) = 0
        /\ Holder(es, p) # 0 => Last(s) = m /\ m \in 1 .. Len(b)
    BY TopIsHolder
  <1>2. /\ Built(e) /\ Len(e) = Len(b)
        /\ \A i \in 1 .. Len(b) :
              /\ e[i].parent = b[i].parent /\ e[i].position = b[i].position
              /\ e[i].runs = b[i].runs
              /\ e[i].widgets = IF Holder(es, p) # 0 /\ i = m
                                THEN Append(b[i].widgets, x) ELSE b[i].widgets
    <2>1. CASE Holder(es, p) = 0
      <3>1. e = b
        BY <1>1, <2>1
      <3> QED
        BY <2>1, <3>1
    <2>2. CASE Holder(es, p) # 0
      <3>1. m \in 1 .. Len(b) /\ e = [b EXCEPT ![m].widgets = Append(@, x)]
        BY <1>1, <2>2
      <3> HIDE DEF m
      <3>2. PICK y : y = [b[m] EXCEPT !.widgets = Append(b[m].widgets, x)] /\ e = [b EXCEPT ![m] = y]
        BY <3>1
      <3>3. IsBuild(b[m]) /\ SeqLike(b)
        BY <3>1 DEF Built
      <3>4. /\ IsBuild(y) /\ y.parent = b[m].parent /\ y.position = b[m].position
            /\ y.runs = b[m].runs /\ y.widgets = Append(b[m].widgets, x)
        BY <3>2, <3>3 DEF IsBuild
      <3>5. /\ SeqLike(e) /\ Len(e) = Len(b)
            /\ \A i \in 1 .. Len(b) : e[i] = IF i = m THEN y ELSE b[i]
        <4>1. Len(b) \in Nat /\ DOMAIN b = 1 .. Len(b)
          BY <3>3, PlacesOf
        <4>2. e = [i \in 1 .. Len(b) |-> e[i]] /\ \A i \in 1 .. Len(b) : e[i] = IF i = m THEN y ELSE b[i]
          BY <3>2, <4>1
        <4>3. \A n \in Nat : e = [i \in 1 .. n |-> e[i]] => SeqLike(e) /\ Len(e) = n
          BY FirstPlaces
        <4> QED
          BY <4>1, <4>2, <4>3
      <3>6. ASSUME NEW i \in 1 .. Len(b)
            PROVE  /\ IsBuild(e[i])
                   /\ e[i].parent = b[i].parent /\ e[i].position = b[i].position
                   /\ e[i].runs = b[i].runs
                   /\ e[i].widgets = IF i = m THEN Append(b[i].widgets, x) ELSE b[i].widgets
        <4>1. CASE i = m
          <5>1. e[i] = y
            BY <3>5, <4>1
          <5> QED
            BY <3>4, <4>1, <5>1
        <4>2. CASE i # m
          <5>1. e[i] = b[i]
            BY <3>5, <4>2
          <5>2. IsBuild(b[i])
            BY DEF Built
          <5>3. IsBuild(e[i])
            BY <5>1, <5>2, Zenon
          <5>4. /\ e[i].parent = b[i].parent /\ e[i].position = b[i].position
                /\ e[i].runs = b[i].runs /\ e[i].widgets = b[i].widgets
            BY <5>1, Zenon
          <5> QED
            BY <4>2, <5>3, <5>4, Zenon
        <4> QED
          BY <4>1, <4>2
      <3> QED
        BY <2>2, <3>5, <3>6 DEF Built
    <2> QED
      BY <2>1, <2>2
  <1>3. Shape(es, p + 1, e) /\ NodesIn(es, 1, p, "start") = NodesIn(es, 1, p - 1, "start")
    <2>1. \A i \in 1 .. Len(b) : e[i].parent = b[i].parent /\ e[i].position = b[i].position
      BY <1>2
    <2>2. Len(e) = Len(b)
      BY <1>2
    <2> QED
      BY <2>1, <2>2, ShapeStays, Zenon
  <1>4. ASSUME NEW k \in NodesIn(es, 1, p - 1, "start")
        PROVE  e[Rank(es, k)].runs = RunsAt(es, k, p + 1) /\ e[Rank(es, k)].widgets = WidgetsAt(es, k, p + 1)
    <2>1. Rank(es, k) \in 1 .. Len(b)
      BY RankFacts DEF Shape
    <2>2. b[Rank(es, k)].runs = RunsAt(es, k, p) /\ b[Rank(es, k)].widgets = WidgetsAt(es, k, p)
      BY DEF Contents
    <2>3. Holder(es, p) # 0 /\ Rank(es, k) = m <=> k = Holder(es, p)
      BY HolderOnly
    <2> QED
      BY <1>2, <2>1, <2>2, <2>3
  <1>5. (p + 1) - 1 = p
    OBVIOUS
  <1> QED
    BY <1>2, <1>3, <1>4, <1>5 DEF Contents

\* and so does one that adds a run.
LEMMA RunAdded ==
    ASSUME NEW es, NEW p \in Nat, p # 0, ~Is(es, p, "start", "node"),
           NEW b, Built(b), Shape(es, p, b), Contents(es, p, b), NEW x,
           \A n : RunsAt(es, n, p + 1) =
                     IF Holder(es, p) = n THEN Append(RunsAt(es, n, p), x) ELSE RunsAt(es, n, p),
           \A n : WidgetsAt(es, n, p + 1) = WidgetsAt(es, n, p),
           NEW s, s = Opened(es, p), NEW e,
           e = IF s = <<>> THEN b ELSE [b EXCEPT ![Last(s)].runs = Append(@, x)]
    PROVE  Built(e) /\ Shape(es, p + 1, e) /\ Contents(es, p + 1, e)
  <1> DEFINE m == Rank(es, Holder(es, p))
  <1>1. /\ s = <<>> <=> Holder(es, p) = 0
        /\ Holder(es, p) # 0 => Last(s) = m /\ m \in 1 .. Len(b)
    BY TopIsHolder
  <1>2. /\ Built(e) /\ Len(e) = Len(b)
        /\ \A i \in 1 .. Len(b) :
              /\ e[i].parent = b[i].parent /\ e[i].position = b[i].position
              /\ e[i].widgets = b[i].widgets
              /\ e[i].runs = IF Holder(es, p) # 0 /\ i = m
                             THEN Append(b[i].runs, x) ELSE b[i].runs
    <2>1. CASE Holder(es, p) = 0
      <3>1. e = b
        BY <1>1, <2>1
      <3> QED
        BY <2>1, <3>1
    <2>2. CASE Holder(es, p) # 0
      <3>1. m \in 1 .. Len(b) /\ e = [b EXCEPT ![m].runs = Append(@, x)]
        BY <1>1, <2>2
      <3> HIDE DEF m
      <3>2. PICK y : y = [b[m] EXCEPT !.runs = Append(b[m].runs, x)] /\ e = [b EXCEPT ![m] = y]
        BY <3>1
      <3>3. IsBuild(b[m]) /\ SeqLike(b)
        BY <3>1 DEF Built
      <3>4. /\ IsBuild(y) /\ y.parent = b[m].parent /\ y.position = b[m].position
            /\ y.widgets = b[m].widgets /\ y.runs = Append(b[m].runs, x)
        BY <3>2, <3>3 DEF IsBuild
      <3>5. /\ SeqLike(e) /\ Len(e) = Len(b)
            /\ \A i \in 1 .. Len(b) : e[i] = IF i = m THEN y ELSE b[i]
        <4>1. Len(b) \in Nat /\ DOMAIN b = 1 .. Len(b)
          BY <3>3, PlacesOf
        <4>2. e = [i \in 1 .. Len(b) |-> e[i]] /\ \A i \in 1 .. Len(b) : e[i] = IF i = m THEN y ELSE b[i]
          BY <3>2, <4>1
        <4>3. \A n \in Nat : e = [i \in 1 .. n |-> e[i]] => SeqLike(e) /\ Len(e) = n
          BY FirstPlaces
        <4> QED
          BY <4>1, <4>2, <4>3
      <3>6. ASSUME NEW i \in 1 .. Len(b)
            PROVE  /\ IsBuild(e[i])
                   /\ e[i].parent = b[i].parent /\ e[i].position = b[i].position
                   /\ e[i].widgets = b[i].widgets
                   /\ e[i].runs = IF i = m THEN Append(b[i].runs, x) ELSE b[i].runs
        <4>1. CASE i = m
          <5>1. e[i] = y
            BY <3>5, <4>1
          <5> QED
            BY <3>4, <4>1, <5>1
        <4>2. CASE i # m
          <5>1. e[i] = b[i]
            BY <3>5, <4>2
          <5>2. IsBuild(b[i])
            BY DEF Built
          <5>3. IsBuild(e[i])
            BY <5>1, <5>2, Zenon
          <5>4. /\ e[i].parent = b[i].parent /\ e[i].position = b[i].position
                /\ e[i].widgets = b[i].widgets /\ e[i].runs = b[i].runs
            BY <5>1, Zenon
          <5> QED
            BY <4>2, <5>3, <5>4, Zenon
        <4> QED
          BY <4>1, <4>2
      <3> QED
        BY <2>2, <3>5, <3>6 DEF Built
    <2> QED
      BY <2>1, <2>2
  <1>3. Shape(es, p + 1, e) /\ NodesIn(es, 1, p, "start") = NodesIn(es, 1, p - 1, "start")
    <2>1. \A i \in 1 .. Len(b) : e[i].parent = b[i].parent /\ e[i].position = b[i].position
      BY <1>2
    <2>2. Len(e) = Len(b)
      BY <1>2
    <2> QED
      BY <2>1, <2>2, ShapeStays, Zenon
  <1>4. ASSUME NEW k \in NodesIn(es, 1, p - 1, "start")
        PROVE  e[Rank(es, k)].runs = RunsAt(es, k, p + 1) /\ e[Rank(es, k)].widgets = WidgetsAt(es, k, p + 1)
    <2>1. Rank(es, k) \in 1 .. Len(b)
      BY RankFacts DEF Shape
    <2>2. b[Rank(es, k)].runs = RunsAt(es, k, p) /\ b[Rank(es, k)].widgets = WidgetsAt(es, k, p)
      BY DEF Contents
    <2>3. Holder(es, p) # 0 /\ Rank(es, k) = m <=> k = Holder(es, p)
      BY HolderOnly
    <2> QED
      BY <1>2, <2>1, <2>2, <2>3
  <1>5. (p + 1) - 1 = p
    OBVIOUS
  <1> QED
    BY <1>2, <1>3, <1>4, <1>5 DEF Contents

-----------------------------------------------------------------------------
(* What has been read at event p: the nodes, the open ones, what is being captured *)

Walked(es, p, b, s, c, cp, rs, r) ==
    /\ p \in 1 .. (Len(es) + 1)
    /\ Balance(es, p) /\ s = Opened(es, p) /\ Counted(es, p, c)
    /\ Built(b) /\ Shape(es, p, b) /\ Contents(es, p, b)
    /\ IsCap(cp) /\ Capture(es, p, cp) /\ Tables(es, p, cp.offset, rs, r)

ReaderInv ==
    /\ ctd \in Files
    /\ phase \in {"import", "walk", "identify"} =>
          Walked(ctd.events, pos, builds, stack, siblings, cap, rows, row)

\* Any event but a node's leaves the levels: what is left to show is what is built and captured.
LEMMA InTheNode ==
    ASSUME NEW es, WellFormed(es), NEW p \in 1 .. Len(es), NEW b, NEW s, NEW c, NEW cp, NEW rs, NEW r,
           Walked(es, p, b, s, c, cp, rs, r),
           ~Is(es, p, "start", "node"), ~Is(es, p, "end", "node")
    PROVE  /\ Holder(es, p + 1) = Holder(es, p)
           /\ p + 1 \in 1 .. (Len(es) + 1)
           /\ Balance(es, p + 1) /\ s = Opened(es, p + 1) /\ Counted(es, p + 1, c)
  <1>1. Len(es) \in Nat
    BY FileFacts
  <1>2. p \in Nat /\ p # 0 /\ p + 1 \in 1 .. (Len(es) + 1)
    BY <1>1
  <1>3. Balance(es, p) /\ s = Opened(es, p) /\ Counted(es, p, c)
    BY DEF Walked
  <1>4. Balance(es, p + 1) /\ Holder(es, p + 1) = Holder(es, p)
    BY <1>2, <1>3, OthersKeepOpen
  <1>5. Opened(es, p + 1) = Opened(es, p) /\ Counted(es, p + 1, c)
    BY <1>2, <1>3, LevelsStay
  <1> QED
    BY <1>2, <1>3, <1>4, <1>5

\* Nor does an event that ends nothing and is no anchor add anything to a node.
LEMMA NothingAdded ==
    ASSUME NEW es, WellFormed(es), NEW p \in 1 .. Len(es), NEW b, NEW s, NEW c, NEW cp, NEW rs, NEW r,
           Walked(es, p, b, s, c, cp, rs, r), ~Is(es, p, "start", "node"),
           ~EndsAt(es, p, {"rich_text"}), ~EndsAt(es, p, Boxes), ~AnchorAt(es, p)
    PROVE  Built(b) /\ Shape(es, p + 1, b) /\ Contents(es, p + 1, b)
  <1>1. Len(es) \in Nat
    BY FileFacts
  <1>2. p \in Nat /\ p # 0
    BY <1>1
  <1>3. Built(b) /\ Shape(es, p, b) /\ Contents(es, p, b)
    BY DEF Walked
  <1>4. \A n : RunsAt(es, n, p + 1) = RunsAt(es, n, p)
    BY RunsStay
  <1>5. \A n : WidgetsAt(es, n, p + 1) = WidgetsAt(es, n, p)
    BY WidgetsStay
  <1> QED
    BY <1>2, <1>3, <1>4, <1>5, NodesKept

\* A step over the event at pos.
LEMMA WalkedOn ==
    ASSUME ReaderInv, phase = "walk", pos <= Len(ctd.events), Read,
           NEW es, es = ctd.events, NEW p, p = pos
    PROVE  /\ WellFormed(es) /\ p \in 1 .. Len(es) /\ p \in Nat /\ p # 0
           /\ Walked(es, p, builds, stack, siblings, cap, rows, row)
           /\ Walked(es, p + 1, builds', stack', siblings', cap', rows', row') => ReaderInv'
  <1>1. WellFormed(es)
    BY ReaderAssumption DEF ReaderInv
  <1>2. Walked(es, p, builds, stack, siblings, cap, rows, row)
    BY DEF ReaderInv
  <1>3. p \in 1 .. (Len(es) + 1) /\ Len(es) \in Nat
    BY <1>1, <1>2, FileFacts DEF Walked
  <1>4. ctd' = ctd /\ pos' = p + 1 /\ ctd \in Files
    BY DEF Read, ReaderInv
  <1>5. Walked(es, p + 1, builds', stack', siblings', cap', rows', row') => ReaderInv'
    BY <1>4 DEF ReaderInv
  <1> QED
    BY <1>1, <1>2, <1>3, <1>5

-----------------------------------------------------------------------------
(* The invariant holds over every action of the walk *)

\* A node that starts is built after the others, below the node on top of the stack and
\* after that node's children.
LEMMA StartNodeReads ==
    ASSUME ReaderInv, StartNode
    PROVE  ReaderInv'
  <1>1. PICK es, p : es = ctd.events /\ p = pos
    OBVIOUS
  <1>2. phase = "walk" /\ pos <= Len(ctd.events) /\ Read /\ es[p].is = "start" /\ es[p].tag = "node"
    BY <1>1 DEF StartNode, Start, Event
  <1>3. /\ WellFormed(es) /\ p \in 1 .. Len(es) /\ p \in Nat /\ p # 0
        /\ Walked(es, p, builds, stack, siblings, cap, rows, row)
        /\ Walked(es, p + 1, builds', stack', siblings', cap', rows', row') => ReaderInv'
    BY <1>1, <1>2, WalkedOn
  <1>4. CASE ~sawRoot
    <2>1. phase' = "returned" /\ ctd' = ctd /\ ctd \in Files
      BY <1>4 DEF StartNode, NotCherryTree, Read, ReaderInv
    <2> QED
      BY <2>1 DEF ReaderInv
  <1>5. CASE sawRoot
    <2> DEFINE d == Len(stack)
               kept == CountersFor(d)
               x == [id |-> es[p].id, lang |-> es[p].lang,
                     title |-> IF es[p].title = "" THEN "Untitled" ELSE es[p].title,
                     parent |-> IF stack = <<>> THEN 0 ELSE Last(stack),
                     position |-> kept[d + 1], runs |-> <<>>, widgets |-> <<>>]
    <2>1. /\ builds' = Append(builds, x)
          /\ siblings' = Append([kept EXCEPT ![d + 1] = @ + 1], 0)
          /\ stack' = Append(stack, Len(builds) + 1)
          /\ cap' = cap /\ rows' = rows /\ row' = row
      BY <1>1, <1>5 DEF StartNode, Event
    <2>2. /\ Balance(es, p) /\ stack = Opened(es, p) /\ Counted(es, p, siblings)
          /\ Built(builds) /\ Shape(es, p, builds) /\ Contents(es, p, builds) /\ IsCap(cap)
      BY <1>3 DEF Walked
    <2>3. Is(es, p, "start", "node")
      BY <1>2 DEF Is
    <2>4. /\ d = Cardinality(Open(es, p)) /\ d \in Nat
          /\ stack = <<>> <=> Open(es, p) = {}
          /\ stack # <<>> => Last(stack) = Rank(es, Holder(es, p))
      <3>1. /\ Len(Opened(es, p)) = Cardinality(Open(es, p))
            /\ Open(es, p) = {} <=> Opened(es, p) = <<>>
            /\ Open(es, p) # {} => Last(Opened(es, p)) = Rank(es, Holder(es, p))
        BY <1>3, StackFacts
      <3>2. Cardinality(Open(es, p)) \in Nat
        BY <1>3, OpenIsFinite
      <3> QED
        BY <2>2, <3>1, <3>2
    <2>5. /\ siblings \in Seq(Nat) /\ Len(siblings) \in Nat /\ Len(siblings) > d
          /\ \A i \in 1 .. Len(siblings) : siblings[i] \in Nat
          /\ siblings[d + 1] = Cardinality(Children(es, Holder(es, p), p))
      <3>1. siblings \in Seq(Nat) /\ Len(siblings) > d
        BY <2>2, <2>4 DEF Counted
      <3>2. siblings[Cardinality(Open(es, p)) + 1] = Cardinality(Children(es, Holder(es, p), p))
        BY <1>3, <2>2, LastCounter
      <3> QED
        BY <2>4, <3>1, <3>2
    <2>6. /\ kept = [i \in 1 .. (d + 1) |-> siblings[i]]
          /\ kept[d + 1] = siblings[d + 1]
      <3>1. \A i \in 1 .. (d + 1) : i <= Len(siblings)
        BY <2>4, <2>5
      <3> QED
        BY <2>4, <3>1 DEF CountersFor
    <2>7. Opened(es, p + 1) = stack' /\ Balance(es, p + 1)
      <3>1. Opened(es, p + 1) = Append(Opened(es, p), Rank(es, p))
        BY <1>3, <2>2, <2>3, StackAtStart
      <3>2. Balance(es, p + 1)
        BY <1>3, <2>2, <2>3, StartOpens
      <3>3. Rank(es, p) = Len(builds) + 1
        BY <1>3, <2>2, <2>3, RankFacts DEF Shape
      <3> QED
        BY <2>1, <2>2, <3>1, <3>2, <3>3
    <2>8. Counted(es, p + 1, siblings')
      <3>1. PICK e : e = siblings'
        OBVIOUS
      <3>2. /\ e \in Seq(Nat) /\ Len(e) = d + 2 /\ \A i \in 1 .. d : e[i] = siblings[i]
            /\ e[d + 1] = siblings[d + 1] + 1 /\ e[d + 2] = 0
        <4>1. PICK q : q = [kept EXCEPT ![d + 1] = @ + 1]
          OBVIOUS
        <4>2. q = [i \in 1 .. (d + 1) |-> IF i = d + 1 THEN siblings[i] + 1 ELSE siblings[i]]
          BY <2>4, <2>6, <4>1
        <4>3. q \in Seq(Nat) /\ Len(q) = d + 1
          <5>1. \A i \in 1 .. (d + 1) : siblings[i] \in Nat
            BY <2>4, <2>5
          <5> QED
            BY <2>4, <4>2, <5>1
        <4>4. e = Append(q, 0)
          BY <2>1, <3>1, <4>1
        <4>5. /\ \A i \in 1 .. d : q[i] = siblings[i]
              /\ q[d + 1] = siblings[d + 1] + 1
          BY <2>4, <4>2
        <4> HIDE DEF d, kept
        <4> QED
          BY <2>4, <4>3, <4>4, <4>5
      <3> HIDE DEF d, kept
      <3>3. Counted(es, p + 1, e)
        BY <1>3, <2>2, <2>3, <2>4, <3>2, CountersAtStart
      <3> QED
        BY <3>1, <3>3
    <2>9. /\ IsBuild(x) /\ x.runs = <<>> /\ x.widgets = <<>>
          /\ x.parent = IF Holder(es, p) = 0 THEN 0 ELSE Rank(es, Holder(es, p))
          /\ x.position = Cardinality(Children(es, Holder(es, p), p))
      <3>1. Holder(es, p) = 0 <=> Open(es, p) = {}
        BY <1>3, HolderBefore
      <3>2. kept[d + 1] = Cardinality(Children(es, Holder(es, p), p))
        BY <2>5, <2>6
      <3> HIDE DEF d, kept
      <3> QED
        BY <2>4, <3>1, <3>2 DEF IsBuild
    <2>10. Built(builds') /\ Shape(es, p + 1, builds') /\ Contents(es, p + 1, builds')
      <3> HIDE DEF x
      <3>1. /\ Built(builds') /\ Shape(es, p + 1, builds')
            /\ \A k \in NodesIn(es, 1, p - 1, "start") : builds'[Rank(es, k)] = builds[Rank(es, k)]
            /\ builds'[Rank(es, p)] = x
            /\ NodesIn(es, 1, p, "start") = NodesIn(es, 1, p - 1, "start") \cup {p}
        <4>1. /\ Built(Append(builds, x)) /\ Shape(es, p + 1, Append(builds, x))
              /\ \A k \in NodesIn(es, 1, p - 1, "start") :
                    Append(builds, x)[Rank(es, k)] = builds[Rank(es, k)]
              /\ Append(builds, x)[Rank(es, p)] = x
              /\ NodesIn(es, 1, p, "start") = NodesIn(es, 1, p - 1, "start") \cup {p}
          BY <1>3, <2>2, <2>3, <2>9, ShapeAtStart
        <4> QED
          BY <2>1, <4>1
      <3>2. builds'[Rank(es, p)].runs = <<>> /\ builds'[Rank(es, p)].widgets = <<>>
        BY <2>9, <3>1
      <3>3. Contents(es, p + 1, builds')
        BY <1>3, <2>2, <2>3, <3>1, <3>2, ContentsAtStart
      <3> QED
        BY <3>1, <3>3
    <2>11. Capture(es, p + 1, cap)
      BY <1>2, <1>3, CaptureElse DEF StartsAt, Captures
    <2>12. Tables(es, p + 1, cap.offset, rows, row)
      BY <1>2, <1>3, TablesElse DEF StartsAt
    <2>13. p + 1 \in 1 .. (Len(es) + 1)
      BY <1>3, FileFacts
    <2>14. Walked(es, p + 1, builds', stack', siblings', cap', rows', row')
      BY <2>1, <2>2, <2>7, <2>8, <2>10, <2>11, <2>12, <2>13 DEF Walked
    <2> QED
      BY <1>3, <2>14
  <1> QED
    BY <1>4, <1>5

\* A node that ends is popped, and the levels below it are dropped.
LEMMA EndNodeReads ==
    ASSUME ReaderInv, EndNode
    PROVE  ReaderInv'
  <1>1. PICK es, p : es = ctd.events /\ p = pos
    OBVIOUS
  <1>2. phase = "walk" /\ pos <= Len(ctd.events) /\ Read /\ es[p].is = "end" /\ es[p].tag = "node"
    BY <1>1 DEF EndNode, End, Event
  <1>3. /\ WellFormed(es) /\ p \in 1 .. Len(es) /\ p \in Nat /\ p # 0
        /\ Walked(es, p, builds, stack, siblings, cap, rows, row)
        /\ Walked(es, p + 1, builds', stack', siblings', cap', rows', row') => ReaderInv'
    BY <1>1, <1>2, WalkedOn
  <1>4. /\ stack' = IF stack = <<>> THEN stack ELSE Front(stack)
        /\ siblings' = IF Len(siblings) > Len(stack') + 1
                       THEN SubSeq(siblings, 1, Len(stack') + 2) ELSE siblings
        /\ builds' = builds /\ cap' = cap /\ rows' = rows /\ row' = row
    BY DEF EndNode
  <1>5. /\ Balance(es, p) /\ stack = Opened(es, p) /\ Counted(es, p, siblings) /\ IsCap(cap)
    BY <1>3 DEF Walked
  <1>6. /\ Is(es, p, "end", "node") /\ ~Is(es, p, "start", "node") /\ ~AnchorAt(es, p)
        /\ ~EndsAt(es, p, {"rich_text"}) /\ ~EndsAt(es, p, Boxes)
    BY <1>2 DEF Is, AnchorAt, EndsAt, Boxes
  <1>7. /\ stack' = Opened(es, p + 1)
        /\ Cardinality(Open(es, p + 1)) <= Cardinality(Open(es, p))
        /\ Balance(es, p + 1)
    BY <1>3, <1>4, <1>5, <1>6, StackAtEnd, EndCloses
  <1>8. Counted(es, p + 1, siblings')
    <2>1. PICK e, d : e = siblings' /\ d = Len(stack')
      OBVIOUS
    <2>2. d = Cardinality(Open(es, p + 1)) /\ d \in Nat
      <3>1. p + 1 \in Nat
        BY <1>3
      <3>2. Len(Opened(es, p + 1)) = Cardinality(Open(es, p + 1)) /\ Cardinality(Open(es, p + 1)) \in Nat
        BY <3>1, StackFacts, OpenIsFinite
      <3> QED
        BY <1>7, <2>1, <3>2
    <2>3. siblings \in Seq(Nat) /\ Len(siblings) > d /\ Len(siblings) \in Nat
      <3>1. siblings \in Seq(Nat) /\ Len(siblings) > Cardinality(Open(es, p))
        BY <1>5 DEF Counted
      <3>2. Cardinality(Open(es, p)) \in Nat
        BY <1>3, OpenIsFinite
      <3> QED
        BY <1>7, <2>2, <3>1, <3>2
    <2>4. e = IF Len(siblings) > d + 1 THEN SubSeq(siblings, 1, d + 2) ELSE siblings
      BY <1>4, <2>1
    <2>5. e \in Seq(Nat) /\ Len(e) > d /\ \A i \in 1 .. (d + 1) : e[i] = siblings[i]
      <3>1. CASE Len(siblings) > d + 1
        <4>1. e = SubSeq(siblings, 1, d + 2)
          BY <2>4, <3>1
        <4>2. 1 \in Int /\ d + 2 \in 1 .. Len(siblings)
          BY <2>2, <2>3, <3>1
        <4>3. e \in Seq(Nat) /\ Len(e) = d + 2
          BY <2>2, <2>3, <4>1, <4>2, SMTT(20)
        <4>4. \A i \in 1 .. (d + 1) : e[i] = siblings[i]
          BY <2>2, <2>3, <4>1, <4>2, SMTT(20)
        <4> QED
          BY <2>2, <4>3, <4>4
      <3>2. CASE ~(Len(siblings) > d + 1)
        BY <2>2, <2>3, <2>4, <3>2
      <3> QED
        BY <3>1, <3>2
    <2>6. Counted(es, p + 1, e)
      BY <1>3, <1>5, <1>6, <2>2, <2>5, CountersAtEnd
    <2> QED
      BY <2>1, <2>6
  <1>9. Built(builds) /\ Shape(es, p + 1, builds) /\ Contents(es, p + 1, builds)
    BY <1>3, <1>6, NothingAdded
  <1>10. Capture(es, p + 1, cap)
    BY <1>2, <1>3, CaptureElse DEF StartsAt
  <1>11. Tables(es, p + 1, cap.offset, rows, row)
    BY <1>2, <1>3, TablesElse DEF StartsAt
  <1>12. p + 1 \in 1 .. (Len(es) + 1)
    BY <1>3, FileFacts
  <1>13. Walked(es, p + 1, builds', stack', siblings', cap', rows', row')
    BY <1>4, <1>5, <1>7, <1>8, <1>9, <1>10, <1>11, <1>12 DEF Walked
  <1> QED
    BY <1>3, <1>13

-----------------------------------------------------------------------------
\* The root element adds nothing.
LEMMA StartRootReads ==
    ASSUME ReaderInv, StartRoot
    PROVE  ReaderInv'
  <1>1. PICK es, p : es = ctd.events /\ p = pos
    OBVIOUS
  <1>2. phase = "walk" /\ pos <= Len(ctd.events) /\ Read /\ es[p].is = "start" /\ es[p].tag = "cherrytree"
    BY <1>1 DEF StartRoot, Start, Event
  <1>3. /\ WellFormed(es) /\ p \in 1 .. Len(es) /\ p \in Nat /\ p # 0
        /\ Walked(es, p, builds, stack, siblings, cap, rows, row)
        /\ Walked(es, p + 1, builds', stack', siblings', cap', rows', row') => ReaderInv'
    BY <1>1, <1>2, WalkedOn
  <1>4. ~Is(es, p, "start", "node") /\ ~Is(es, p, "end", "node")
    BY <1>2 DEF Is
  <1>5. /\ Holder(es, p + 1) = Holder(es, p) /\ p + 1 \in 1 .. (Len(es) + 1)
        /\ Balance(es, p + 1) /\ stack = Opened(es, p + 1) /\ Counted(es, p + 1, siblings)
    BY <1>3, <1>4, InTheNode
  <1>6. /\ stack = Opened(es, p) /\ Built(builds) /\ Shape(es, p, builds) /\ Contents(es, p, builds)
        /\ IsCap(cap) /\ Capture(es, p, cap) /\ Tables(es, p, cap.offset, rows, row)
    BY <1>3 DEF Walked
  <1>7. Built(builds) /\ Shape(es, p + 1, builds) /\ Contents(es, p + 1, builds)
    <2>1. ~EndsAt(es, p, {"rich_text"}) /\ ~EndsAt(es, p, Boxes) /\ ~AnchorAt(es, p)
      BY <1>2 DEF EndsAt, Boxes, AnchorAt, Is
    <2> QED
      BY <1>3, <1>4, <2>1, NothingAdded
  <1>10. /\ stack' = stack /\ siblings' = siblings /\ builds' = builds /\ cap' = cap
         /\ rows' = rows /\ row' = row /\ IsCap(cap')
    BY <1>6 DEF StartRoot, walking
  <1>8. Capture(es, p + 1, cap')
    BY <1>2, <1>3, CaptureElse DEF StartsAt, Captures
  <1>9. Tables(es, p + 1, cap'.offset, rows', row')
    BY <1>2, <1>3, TablesElse DEF StartsAt
  <1>11. Walked(es, p + 1, builds', stack', siblings', cap', rows', row')
    BY <1>5, <1>7, <1>8, <1>9, <1>10 DEF Walked
  <1> QED
    BY <1>3, <1>11

\* Nor does an element the walk does not know.
LEMMA OtherTagReads ==
    ASSUME ReaderInv, OtherTag
    PROVE  ReaderInv'
  <1>1. PICK es, p : es = ctd.events /\ p = pos
    OBVIOUS
  <1>2. /\ phase = "walk" /\ pos <= Len(ctd.events) /\ Read /\ es[p].is \in {"start", "end"}
        /\ es[p].tag \notin {"node", "rich_text", "codebox", "encoded_png", "table", "row", "cell"}
    BY <1>1 DEF OtherTag, Event
  <1>3. /\ WellFormed(es) /\ p \in 1 .. Len(es) /\ p \in Nat /\ p # 0
        /\ Walked(es, p, builds, stack, siblings, cap, rows, row)
        /\ Walked(es, p + 1, builds', stack', siblings', cap', rows', row') => ReaderInv'
    BY <1>1, <1>2, WalkedOn
  <1>4. ~Is(es, p, "start", "node") /\ ~Is(es, p, "end", "node")
    BY <1>2 DEF Is
  <1>5. /\ Holder(es, p + 1) = Holder(es, p) /\ p + 1 \in 1 .. (Len(es) + 1)
        /\ Balance(es, p + 1) /\ stack = Opened(es, p + 1) /\ Counted(es, p + 1, siblings)
    BY <1>3, <1>4, InTheNode
  <1>6. /\ stack = Opened(es, p) /\ Built(builds) /\ Shape(es, p, builds) /\ Contents(es, p, builds)
        /\ IsCap(cap) /\ Capture(es, p, cap) /\ Tables(es, p, cap.offset, rows, row)
    BY <1>3 DEF Walked
  <1>7. Built(builds) /\ Shape(es, p + 1, builds) /\ Contents(es, p + 1, builds)
    <2>1. ~EndsAt(es, p, {"rich_text"}) /\ ~EndsAt(es, p, Boxes) /\ ~AnchorAt(es, p)
      BY <1>2 DEF EndsAt, Boxes, AnchorAt, Is
    <2> QED
      BY <1>3, <1>4, <2>1, NothingAdded
  <1>10. /\ stack' = stack /\ siblings' = siblings /\ builds' = builds /\ cap' = cap
         /\ rows' = rows /\ row' = row /\ IsCap(cap')
    BY <1>6 DEF OtherTag, walking
  <1>8. Capture(es, p + 1, cap')
    BY <1>2, <1>3, CaptureElse DEF StartsAt, Captures
  <1>9. Tables(es, p + 1, cap'.offset, rows', row')
    BY <1>2, <1>3, TablesElse DEF StartsAt
  <1>11. Walked(es, p + 1, builds', stack', siblings', cap', rows', row')
    BY <1>5, <1>7, <1>8, <1>9, <1>10 DEF Walked
  <1> QED
    BY <1>3, <1>11

\* Rich text that starts is captured from nothing.
LEMMA StartRichTextReads ==
    ASSUME ReaderInv, StartRichText
    PROVE  ReaderInv'
  <1>1. PICK es, p : es = ctd.events /\ p = pos
    OBVIOUS
  <1>2. phase = "walk" /\ pos <= Len(ctd.events) /\ Read /\ es[p].is = "start" /\ es[p].tag = "rich_text"
    BY <1>1 DEF StartRichText, Start, Event
  <1>3. /\ WellFormed(es) /\ p \in 1 .. Len(es) /\ p \in Nat /\ p # 0
        /\ Walked(es, p, builds, stack, siblings, cap, rows, row)
        /\ Walked(es, p + 1, builds', stack', siblings', cap', rows', row') => ReaderInv'
    BY <1>1, <1>2, WalkedOn
  <1>4. ~Is(es, p, "start", "node") /\ ~Is(es, p, "end", "node")
    BY <1>2 DEF Is
  <1>5. /\ Holder(es, p + 1) = Holder(es, p) /\ p + 1 \in 1 .. (Len(es) + 1)
        /\ Balance(es, p + 1) /\ stack = Opened(es, p + 1) /\ Counted(es, p + 1, siblings)
    BY <1>3, <1>4, InTheNode
  <1>6. /\ stack = Opened(es, p) /\ Built(builds) /\ Shape(es, p, builds) /\ Contents(es, p, builds)
        /\ IsCap(cap) /\ Capture(es, p, cap) /\ Tables(es, p, cap.offset, rows, row)
    BY <1>3 DEF Walked
  <1>7. Built(builds) /\ Shape(es, p + 1, builds) /\ Contents(es, p + 1, builds)
    <2>1. ~EndsAt(es, p, {"rich_text"}) /\ ~EndsAt(es, p, Boxes) /\ ~AnchorAt(es, p)
      BY <1>2 DEF EndsAt, Boxes, AnchorAt, Is
    <2> QED
      BY <1>3, <1>4, <2>1, NothingAdded
  <1>10. /\ stack' = stack /\ siblings' = siblings /\ builds' = builds
         /\ rows' = rows /\ row' = row /\ IsCap(cap')
         /\ cap'.what = "rich_text" /\ cap'.buf = <<>> /\ cap'.style = es[p].style
    <2>1. /\ stack' = stack /\ siblings' = siblings /\ builds' = builds /\ rows' = rows /\ row' = row
          /\ cap' = [cap EXCEPT !.what = "rich_text", !.buf = <<>>, !.style = es[p].style]
      BY <1>1 DEF StartRichText, Event
    <2> QED
      BY <1>6, <2>1 DEF IsCap
  <1>8. Capture(es, p + 1, cap')
    <2>1. /\ StartsAt(es, p, Captures) /\ ~AnchorAt(es, p) /\ ~StartsAt(es, p, {"codebox", "encoded_png"})
      BY <1>2 DEF StartsAt, Captures, AnchorAt, Is
    <2> QED
      BY <1>2, <1>3, <1>5, <1>10, <2>1, CaptureAtStart
  <1>9. Tables(es, p + 1, cap'.offset, rows', row')
    BY <1>2, <1>3, TablesElse DEF StartsAt
  <1>11. Walked(es, p + 1, builds', stack', siblings', cap', rows', row')
    BY <1>5, <1>7, <1>8, <1>9, <1>10 DEF Walked
  <1> QED
    BY <1>3, <1>11

\* A codebox, a box of another kind, or an image that starts is captured from nothing.
LEMMA StartBoxReads ==
    ASSUME ReaderInv, StartBox
    PROVE  ReaderInv'
  <1>1. PICK es, p : es = ctd.events /\ p = pos
    OBVIOUS
  <1>2. /\ phase = "walk" /\ pos <= Len(ctd.events) /\ Read /\ es[p].is = "start"
        /\ es[p].tag \in {"codebox", "encoded_png"} /\ es[p].kind # "anchor"
    BY <1>1 DEF StartBox, Start, Event
  <1>3. /\ WellFormed(es) /\ p \in 1 .. Len(es) /\ p \in Nat /\ p # 0
        /\ Walked(es, p, builds, stack, siblings, cap, rows, row)
        /\ Walked(es, p + 1, builds', stack', siblings', cap', rows', row') => ReaderInv'
    BY <1>1, <1>2, WalkedOn
  <1>4. ~Is(es, p, "start", "node") /\ ~Is(es, p, "end", "node")
    BY <1>2 DEF Is
  <1>5. /\ Holder(es, p + 1) = Holder(es, p) /\ p + 1 \in 1 .. (Len(es) + 1)
        /\ Balance(es, p + 1) /\ stack = Opened(es, p + 1) /\ Counted(es, p + 1, siblings)
    BY <1>3, <1>4, InTheNode
  <1>6. /\ stack = Opened(es, p) /\ Built(builds) /\ Shape(es, p, builds) /\ Contents(es, p, builds)
        /\ IsCap(cap) /\ Capture(es, p, cap) /\ Tables(es, p, cap.offset, rows, row)
    BY <1>3 DEF Walked
  <1>7. Built(builds) /\ Shape(es, p + 1, builds) /\ Contents(es, p + 1, builds)
    <2>1. ~EndsAt(es, p, {"rich_text"}) /\ ~EndsAt(es, p, Boxes) /\ ~AnchorAt(es, p)
      BY <1>2 DEF EndsAt, Boxes, AnchorAt, Is
    <2> QED
      BY <1>3, <1>4, <2>1, NothingAdded
  <1>10. /\ stack' = stack /\ siblings' = siblings /\ builds' = builds
         /\ rows' = rows /\ row' = row /\ IsCap(cap')
         /\ cap'.what = es[p].tag /\ cap'.buf = <<>>
         /\ cap'.offset = es[p].offset /\ cap'.kind = es[p].kind
    <2>1. /\ stack' = stack /\ siblings' = siblings /\ builds' = builds /\ rows' = rows /\ row' = row
          /\ cap' = [cap EXCEPT !.what = es[p].tag, !.buf = <<>>,
                                !.offset = es[p].offset, !.kind = es[p].kind]
      BY <1>1 DEF StartBox, Start, Event
    <2> QED
      BY <1>6, <2>1 DEF IsCap
  <1>8. Capture(es, p + 1, cap')
    <2>1. /\ StartsAt(es, p, Captures) /\ ~AnchorAt(es, p) /\ ~StartsAt(es, p, {"rich_text"})
      BY <1>2 DEF StartsAt, Captures, AnchorAt, Is
    <2> QED
      BY <1>2, <1>3, <1>5, <1>10, <2>1, CaptureAtStart
  <1>9. Tables(es, p + 1, cap'.offset, rows', row')
    BY <1>2, <1>3, TablesElse DEF StartsAt
  <1>11. Walked(es, p + 1, builds', stack', siblings', cap', rows', row')
    BY <1>5, <1>7, <1>8, <1>9, <1>10 DEF Walked
  <1> QED
    BY <1>3, <1>11

\* An anchor is a widget of the node on top of the stack as soon as it starts.
LEMMA StartAnchorReads ==
    ASSUME ReaderInv, StartAnchor
    PROVE  ReaderInv'
  <1>1. PICK es, p : es = ctd.events /\ p = pos
    OBVIOUS
  <1>2. /\ phase = "walk" /\ pos <= Len(ctd.events) /\ Read /\ es[p].is = "start"
        /\ es[p].tag = "encoded_png" /\ es[p].kind = "anchor"
    BY <1>1 DEF StartAnchor, Start, Event
  <1>3. /\ WellFormed(es) /\ p \in 1 .. Len(es) /\ p \in Nat /\ p # 0
        /\ Walked(es, p, builds, stack, siblings, cap, rows, row)
        /\ Walked(es, p + 1, builds', stack', siblings', cap', rows', row') => ReaderInv'
    BY <1>1, <1>2, WalkedOn
  <1>4. ~Is(es, p, "start", "node") /\ ~Is(es, p, "end", "node")
    BY <1>2 DEF Is
  <1>5. /\ Holder(es, p + 1) = Holder(es, p) /\ p + 1 \in 1 .. (Len(es) + 1)
        /\ Balance(es, p + 1) /\ stack = Opened(es, p + 1) /\ Counted(es, p + 1, siblings)
    BY <1>3, <1>4, InTheNode
  <1>6. /\ stack = Opened(es, p) /\ Built(builds) /\ Shape(es, p, builds) /\ Contents(es, p, builds)
        /\ IsCap(cap) /\ Capture(es, p, cap) /\ Tables(es, p, cap.offset, rows, row)
    BY <1>3 DEF Walked
  <1>7. Built(builds') /\ Shape(es, p + 1, builds') /\ Contents(es, p + 1, builds')
    <2>1. AnchorAt(es, p) /\ ~EndsAt(es, p, {"rich_text"})
      BY <1>2 DEF AnchorAt, Is, EndsAt
    <2>2. PICK x : x = [kind |-> "anchor", offset |-> es[p].offset, data |-> <<>>]
      OBVIOUS
    <2>3. x = WidgetAt(es, p)
      BY <1>2, <2>1, <2>2 DEF WidgetAt, Is
    <2>4. \A n : WidgetsAt(es, n, p + 1) =
                     IF Holder(es, p) = n THEN Append(WidgetsAt(es, n, p), x) ELSE WidgetsAt(es, n, p)
      BY <1>3, <2>1, <2>3, WidgetsAtAnchor
    <2>5. \A n : RunsAt(es, n, p + 1) = RunsAt(es, n, p)
      BY <1>3, <2>1, RunsStay
    <2>6. builds' = IF stack = <<>> THEN builds
                    ELSE [builds EXCEPT ![Last(stack)].widgets = Append(@, x)]
      BY <1>1, <2>2 DEF StartAnchor, PushWidget, Event
    <2>7. PICK e : e = builds'
      OBVIOUS
    <2> QED
      BY <1>3, <1>4, <1>6, <2>4, <2>5, <2>6, <2>7, WidgetAdded
  <1>10. /\ stack' = stack /\ siblings' = siblings
         /\ rows' = rows /\ row' = row /\ IsCap(cap') /\ cap'.what = "none"
    <2>1. /\ stack' = stack /\ siblings' = siblings /\ rows' = rows /\ row' = row
          /\ cap' = [cap EXCEPT !.what = "none", !.offset = es[p].offset]
      BY <1>1 DEF StartAnchor, Event
    <2> QED
      BY <1>6, <2>1 DEF IsCap
  <1>8. Capture(es, p + 1, cap')
    <2>1. /\ StartsAt(es, p, Captures) /\ AnchorAt(es, p) /\ ~StartsAt(es, p, {"rich_text"})
      BY <1>2 DEF StartsAt, Captures, AnchorAt, Is
    <2> QED
      BY <1>2, <1>3, <1>5, <1>10, <2>1, CaptureAtStart
  <1>9. Tables(es, p + 1, cap'.offset, rows', row')
    BY <1>2, <1>3, TablesElse DEF StartsAt
  <1>11. Walked(es, p + 1, builds', stack', siblings', cap', rows', row')
    BY <1>5, <1>7, <1>8, <1>9, <1>10 DEF Walked
  <1> QED
    BY <1>3, <1>11

\* A table that starts has no rows yet.
LEMMA StartTableReads ==
    ASSUME ReaderInv, StartTable
    PROVE  ReaderInv'
  <1>1. PICK es, p : es = ctd.events /\ p = pos
    OBVIOUS
  <1>2. phase = "walk" /\ pos <= Len(ctd.events) /\ Read /\ es[p].is = "start" /\ es[p].tag = "table"
    BY <1>1 DEF StartTable, Start, Event
  <1>3. /\ WellFormed(es) /\ p \in 1 .. Len(es) /\ p \in Nat /\ p # 0
        /\ Walked(es, p, builds, stack, siblings, cap, rows, row)
        /\ Walked(es, p + 1, builds', stack', siblings', cap', rows', row') => ReaderInv'
    BY <1>1, <1>2, WalkedOn
  <1>4. ~Is(es, p, "start", "node") /\ ~Is(es, p, "end", "node")
    BY <1>2 DEF Is
  <1>5. /\ Holder(es, p + 1) = Holder(es, p) /\ p + 1 \in 1 .. (Len(es) + 1)
        /\ Balance(es, p + 1) /\ stack = Opened(es, p + 1) /\ Counted(es, p + 1, siblings)
    BY <1>3, <1>4, InTheNode
  <1>6. /\ stack = Opened(es, p) /\ Built(builds) /\ Shape(es, p, builds) /\ Contents(es, p, builds)
        /\ IsCap(cap) /\ Capture(es, p, cap) /\ Tables(es, p, cap.offset, rows, row)
    BY <1>3 DEF Walked
  <1>7. Built(builds) /\ Shape(es, p + 1, builds) /\ Contents(es, p + 1, builds)
    <2>1. ~EndsAt(es, p, {"rich_text"}) /\ ~EndsAt(es, p, Boxes) /\ ~AnchorAt(es, p)
      BY <1>2 DEF EndsAt, Boxes, AnchorAt, Is
    <2> QED
      BY <1>3, <1>4, <2>1, NothingAdded
  <1>10. /\ stack' = stack /\ siblings' = siblings /\ builds' = builds
         /\ rows' = <<>> /\ row' = row /\ IsCap(cap') /\ cap'.offset = es[p].offset
    <2>1. /\ stack' = stack /\ siblings' = siblings /\ builds' = builds /\ rows' = <<>> /\ row' = row
          /\ cap' = [cap EXCEPT !.what = "none", !.offset = es[p].offset]
      BY <1>1 DEF StartTable, Event
    <2> QED
      BY <1>6, <2>1 DEF IsCap
  <1>8. Capture(es, p + 1, cap')
    BY <1>2, <1>3, CaptureElse DEF StartsAt, Captures
  <1>9. Tables(es, p + 1, cap'.offset, rows', row')
    <2>1. StartsAt(es, p, {"table"})
      BY <1>2 DEF StartsAt
    <2>2. Tables(es, p + 1, es[p].offset, <<>>, row)
      BY <1>3, <1>5, <2>1, TablesAtTable
    <2> QED
      BY <1>10, <2>2
  <1>11. Walked(es, p + 1, builds', stack', siblings', cap', rows', row')
    BY <1>5, <1>7, <1>8, <1>9, <1>10 DEF Walked
  <1> QED
    BY <1>3, <1>11

\* A row that starts has no cells yet.
LEMMA StartRowReads ==
    ASSUME ReaderInv, StartRow
    PROVE  ReaderInv'
  <1>1. PICK es, p : es = ctd.events /\ p = pos
    OBVIOUS
  <1>2. phase = "walk" /\ pos <= Len(ctd.events) /\ Read /\ es[p].is = "start" /\ es[p].tag = "row"
    BY <1>1 DEF StartRow, Start, Event
  <1>3. /\ WellFormed(es) /\ p \in 1 .. Len(es) /\ p \in Nat /\ p # 0
        /\ Walked(es, p, builds, stack, siblings, cap, rows, row)
        /\ Walked(es, p + 1, builds', stack', siblings', cap', rows', row') => ReaderInv'
    BY <1>1, <1>2, WalkedOn
  <1>4. ~Is(es, p, "start", "node") /\ ~Is(es, p, "end", "node")
    BY <1>2 DEF Is
  <1>5. /\ Holder(es, p + 1) = Holder(es, p) /\ p + 1 \in 1 .. (Len(es) + 1)
        /\ Balance(es, p + 1) /\ stack = Opened(es, p + 1) /\ Counted(es, p + 1, siblings)
    BY <1>3, <1>4, InTheNode
  <1>6. /\ stack = Opened(es, p) /\ Built(builds) /\ Shape(es, p, builds) /\ Contents(es, p, builds)
        /\ IsCap(cap) /\ Capture(es, p, cap) /\ Tables(es, p, cap.offset, rows, row)
    BY <1>3 DEF Walked
  <1>7. Built(builds) /\ Shape(es, p + 1, builds) /\ Contents(es, p + 1, builds)
    <2>1. ~EndsAt(es, p, {"rich_text"}) /\ ~EndsAt(es, p, Boxes) /\ ~AnchorAt(es, p)
      BY <1>2 DEF EndsAt, Boxes, AnchorAt, Is
    <2> QED
      BY <1>3, <1>4, <2>1, NothingAdded
  <1>10. /\ stack' = stack /\ siblings' = siblings /\ builds' = builds
         /\ rows' = rows /\ row' = <<>> /\ cap' = cap /\ IsCap(cap')
    BY <1>6 DEF StartRow
  <1>8. Capture(es, p + 1, cap')
    BY <1>2, <1>3, CaptureElse DEF StartsAt, Captures
  <1>9. Tables(es, p + 1, cap'.offset, rows', row')
    <2>1. StartsAt(es, p, {"row"})
      BY <1>2 DEF StartsAt
    <2>2. Tables(es, p + 1, cap.offset, rows, <<>>)
      BY <1>3, <1>5, <1>6, <2>1, TablesAtRow
    <2> QED
      BY <1>10, <2>2
  <1>11. Walked(es, p + 1, builds', stack', siblings', cap', rows', row')
    BY <1>5, <1>7, <1>8, <1>9, <1>10 DEF Walked
  <1> QED
    BY <1>3, <1>11

\* A cell that starts is captured from nothing.
LEMMA StartCellReads ==
    ASSUME ReaderInv, StartCell
    PROVE  ReaderInv'
  <1>1. PICK es, p : es = ctd.events /\ p = pos
    OBVIOUS
  <1>2. phase = "walk" /\ pos <= Len(ctd.events) /\ Read /\ es[p].is = "start" /\ es[p].tag = "cell"
    BY <1>1 DEF StartCell, Start, Event
  <1>3. /\ WellFormed(es) /\ p \in 1 .. Len(es) /\ p \in Nat /\ p # 0
        /\ Walked(es, p, builds, stack, siblings, cap, rows, row)
        /\ Walked(es, p + 1, builds', stack', siblings', cap', rows', row') => ReaderInv'
    BY <1>1, <1>2, WalkedOn
  <1>4. ~Is(es, p, "start", "node") /\ ~Is(es, p, "end", "node")
    BY <1>2 DEF Is
  <1>5. /\ Holder(es, p + 1) = Holder(es, p) /\ p + 1 \in 1 .. (Len(es) + 1)
        /\ Balance(es, p + 1) /\ stack = Opened(es, p + 1) /\ Counted(es, p + 1, siblings)
    BY <1>3, <1>4, InTheNode
  <1>6. /\ stack = Opened(es, p) /\ Built(builds) /\ Shape(es, p, builds) /\ Contents(es, p, builds)
        /\ IsCap(cap) /\ Capture(es, p, cap) /\ Tables(es, p, cap.offset, rows, row)
    BY <1>3 DEF Walked
  <1>7. Built(builds) /\ Shape(es, p + 1, builds) /\ Contents(es, p + 1, builds)
    <2>1. ~EndsAt(es, p, {"rich_text"}) /\ ~EndsAt(es, p, Boxes) /\ ~AnchorAt(es, p)
      BY <1>2 DEF EndsAt, Boxes, AnchorAt, Is
    <2> QED
      BY <1>3, <1>4, <2>1, NothingAdded
  <1>10. /\ stack' = stack /\ siblings' = siblings /\ builds' = builds
         /\ rows' = rows /\ row' = row /\ IsCap(cap')
         /\ cap'.what = "cell" /\ cap'.buf = <<>> /\ cap'.offset = cap.offset
    <2>1. /\ stack' = stack /\ siblings' = siblings /\ builds' = builds /\ rows' = rows /\ row' = row
          /\ cap' = [cap EXCEPT !.buf = <<>>, !.what = "cell"]
      BY DEF StartCell
    <2> QED
      BY <1>6, <2>1 DEF IsCap
  <1>8. Capture(es, p + 1, cap')
    <2>1. /\ StartsAt(es, p, Captures) /\ ~AnchorAt(es, p)
          /\ ~StartsAt(es, p, {"rich_text"}) /\ ~StartsAt(es, p, {"codebox", "encoded_png"})
      BY <1>2 DEF StartsAt, Captures, AnchorAt, Is
    <2> QED
      BY <1>2, <1>3, <1>5, <1>10, <2>1, CaptureAtStart
  <1>9. Tables(es, p + 1, cap'.offset, rows', row')
    <2>1. StartsAt(es, p, {"cell"})
      BY <1>2 DEF StartsAt
    <2>2. Tables(es, p + 1, cap.offset, rows, row)
      BY <1>3, <1>5, <1>6, <2>1, TablesKeep
    <2> QED
      BY <1>10, <2>2
  <1>11. Walked(es, p + 1, builds', stack', siblings', cap', rows', row')
    BY <1>5, <1>7, <1>8, <1>9, <1>10 DEF Walked
  <1> QED
    BY <1>3, <1>11

\* Text is added to what is captured, and to nothing else.
LEMMA TextReads ==
    ASSUME ReaderInv, Text
    PROVE  ReaderInv'
  <1>1. PICK es, p : es = ctd.events /\ p = pos
    OBVIOUS
  <1>2. phase = "walk" /\ pos <= Len(ctd.events) /\ Read /\ es[p].is = "text"
    BY <1>1 DEF Text, Event
  <1>3. /\ WellFormed(es) /\ p \in 1 .. Len(es) /\ p \in Nat /\ p # 0
        /\ Walked(es, p, builds, stack, siblings, cap, rows, row)
        /\ Walked(es, p + 1, builds', stack', siblings', cap', rows', row') => ReaderInv'
    BY <1>1, <1>2, WalkedOn
  <1>4. ~Is(es, p, "start", "node") /\ ~Is(es, p, "end", "node")
    BY <1>2 DEF Is
  <1>5. /\ Holder(es, p + 1) = Holder(es, p) /\ p + 1 \in 1 .. (Len(es) + 1)
        /\ Balance(es, p + 1) /\ stack = Opened(es, p + 1) /\ Counted(es, p + 1, siblings)
    BY <1>3, <1>4, InTheNode
  <1>6. /\ stack = Opened(es, p) /\ Built(builds) /\ Shape(es, p, builds) /\ Contents(es, p, builds)
        /\ IsCap(cap) /\ Capture(es, p, cap) /\ Tables(es, p, cap.offset, rows, row)
    BY <1>3 DEF Walked
  <1>7. Built(builds) /\ Shape(es, p + 1, builds) /\ Contents(es, p + 1, builds)
    <2>1. ~EndsAt(es, p, {"rich_text"}) /\ ~EndsAt(es, p, Boxes) /\ ~AnchorAt(es, p)
      BY <1>2 DEF EndsAt, Boxes, AnchorAt, Is
    <2> QED
      BY <1>3, <1>4, <2>1, NothingAdded
  <1>10. /\ stack' = stack /\ siblings' = siblings /\ builds' = builds
         /\ rows' = rows /\ row' = row
         /\ cap' = IF cap.what = "none" THEN cap ELSE [cap EXCEPT !.buf = @ \o es[p].text]
    BY <1>1 DEF Text, Event
  <1>12. /\ IsCap(cap') /\ cap'.offset = cap.offset /\ cap'.what = cap.what
         /\ cap'.style = cap.style /\ cap'.kind = cap.kind
         /\ cap.what # "none" => cap'.buf = cap.buf \o es[p].text
    <2>1. CASE cap.what = "none"
      BY <1>6, <1>10, <2>1
    <2>2. CASE cap.what # "none"
      <3> DEFINE x == cap.buf \o es[p].text
      <3>1. cap' = [cap EXCEPT !.buf = x]
        BY <1>10, <2>2
      <3> HIDE DEF x
      <3>2. /\ IsCap(cap') /\ cap'.offset = cap.offset /\ cap'.what = cap.what
            /\ cap'.style = cap.style /\ cap'.kind = cap.kind /\ cap'.buf = x
        BY <1>6, <3>1 DEF IsCap
      <3> QED
        BY <3>2 DEF x
    <2> QED
      BY <2>1, <2>2
  <1>8. Capture(es, p + 1, cap')
    <2>1. PICK d : d = cap'
      OBVIOUS
    <2>2. Capture(es, p + 1, d)
      BY <1>2, <1>3, <1>5, <1>6, <1>12, <2>1, CaptureAtText
    <2> QED
      BY <2>1, <2>2
  <1>9. Tables(es, p + 1, cap'.offset, rows', row')
    <2>1. Tables(es, p + 1, cap.offset, rows, row)
      BY <1>2, <1>3, <1>5, <1>6, TablesKeep
    <2> QED
      BY <1>10, <1>12, <2>1
  <1>11. Walked(es, p + 1, builds', stack', siblings', cap', rows', row')
    BY <1>5, <1>7, <1>8, <1>9, <1>10, <1>12 DEF Walked
  <1> QED
    BY <1>3, <1>11

-----------------------------------------------------------------------------
\* Rich text that ends is one more run of the node on top of the stack, if it has text.
LEMMA EndRichTextReads ==
    ASSUME ReaderInv, EndRichText
    PROVE  ReaderInv'
  <1>1. PICK es, p : es = ctd.events /\ p = pos
    OBVIOUS
  <1>2. phase = "walk" /\ pos <= Len(ctd.events) /\ Read /\ es[p].is = "end" /\ es[p].tag = "rich_text"
    BY <1>1 DEF EndRichText, End, Event
  <1>3. /\ WellFormed(es) /\ p \in 1 .. Len(es) /\ p \in Nat /\ p # 0
        /\ Walked(es, p, builds, stack, siblings, cap, rows, row)
        /\ Walked(es, p + 1, builds', stack', siblings', cap', rows', row') => ReaderInv'
    BY <1>1, <1>2, WalkedOn
  <1>4. ~Is(es, p, "start", "node") /\ ~Is(es, p, "end", "node")
    BY <1>2 DEF Is
  <1>5. /\ Holder(es, p + 1) = Holder(es, p) /\ p + 1 \in 1 .. (Len(es) + 1)
        /\ Balance(es, p + 1) /\ stack = Opened(es, p + 1) /\ Counted(es, p + 1, siblings)
    BY <1>3, <1>4, InTheNode
  <1>6. /\ stack = Opened(es, p) /\ Built(builds) /\ Shape(es, p, builds) /\ Contents(es, p, builds)
        /\ IsCap(cap) /\ Capture(es, p, cap) /\ Tables(es, p, cap.offset, rows, row)
    BY <1>3 DEF Walked
  <1>7. PICK k \in 1 .. (p - 1) : StartsAt(es, k, {es[p].tag}) /\ Closing(es, k) = p /\ Between(es, k, p)
    <2>1. EndsAt(es, p, DOMAIN Holds)
      BY <1>2 DEF EndsAt, Holds
    <2> QED
      BY <1>3, <2>1, EndHasStart
  <1>8. /\ Holder(es, k) = Holder(es, p)
        /\ AnchorAt(es, k) => cap.what = "none"
        /\ ~AnchorAt(es, k) => cap.what = es[p].tag /\ cap.buf = TextIn(es, k)
        /\ EndsAt(es, p, {"rich_text"}) => cap.style = es[k].style
        /\ EndsAt(es, p, {"codebox", "encoded_png"}) /\ ~AnchorAt(es, k) =>
              cap.offset = es[k].offset /\ cap.kind = es[k].kind
    <2>1. EndsAt(es, p, Captures)
      BY <1>2 DEF EndsAt, Captures
    <2> QED
      BY <1>3, <1>6, <1>7, <2>1, CapturedAll
  <1>9. /\ stack' = stack /\ siblings' = siblings /\ rows' = rows /\ row' = row /\ IsCap(cap') /\ cap'.offset = cap.offset
    <2>1. /\ stack' = stack /\ siblings' = siblings /\ rows' = rows /\ row' = row
          /\ cap' = [cap EXCEPT !.what = "none", !.buf = <<>>]
      BY DEF EndRichText
    <2> QED
      BY <1>6, <2>1 DEF IsCap
  <1>10. Built(builds') /\ Shape(es, p + 1, builds') /\ Contents(es, p + 1, builds')
    <2>1. /\ EndsAt(es, p, {"rich_text"}) /\ ~EndsAt(es, p, Boxes) /\ ~AnchorAt(es, p)
          /\ StartsAt(es, k, {"rich_text"}) /\ ~AnchorAt(es, k)
      BY <1>2, <1>7 DEF EndsAt, Boxes, AnchorAt, Is, StartsAt
    <2>2. /\ cap.what = "rich_text" /\ cap.buf = TextIn(es, k) /\ cap.style = es[k].style
      BY <1>2, <1>8, <2>1
    <2>3. \A n : WidgetsAt(es, n, p + 1) = WidgetsAt(es, n, p)
      BY <1>3, <2>1, WidgetsStay
    <2>4. \A n : RunsAt(es, n, p + 1) = IF Holder(es, k) = n /\ TextIn(es, k) # <<>>
                                        THEN Append(RunsAt(es, n, p), RunAt(es, k)) ELSE RunsAt(es, n, p)
      BY <1>3, <1>7, <2>1, RunsGrow
    <2>5. CASE TextIn(es, k) = <<>>
      <3>1. builds' = builds
        BY <2>2, <2>5 DEF EndRichText
      <3>2. \A n : RunsAt(es, n, p + 1) = RunsAt(es, n, p)
        BY <2>4, <2>5
      <3> QED
        BY <1>3, <1>4, <1>6, <2>3, <3>1, <3>2, NodesKept
    <2>6. CASE TextIn(es, k) # <<>>
      <3>1. PICK x : x = [text |-> cap.buf, style |-> cap.style]
        OBVIOUS
      <3>2. x = RunAt(es, k)
        BY <2>2, <3>1 DEF RunAt
      <3>3. \A n : RunsAt(es, n, p + 1) =
                       IF Holder(es, p) = n THEN Append(RunsAt(es, n, p), x) ELSE RunsAt(es, n, p)
        BY <1>8, <2>4, <2>6, <3>2
      <3>4. builds' = IF stack = <<>> THEN builds
                      ELSE [builds EXCEPT ![Last(stack)].runs = Append(@, x)]
        BY <2>2, <2>6, <3>1 DEF EndRichText
      <3>5. PICK e : e = builds'
        OBVIOUS
      <3> QED
        BY <1>3, <1>4, <1>6, <2>3, <3>3, <3>4, <3>5, RunAdded
    <2> QED
      BY <2>5, <2>6
  <1>11. Capture(es, p + 1, cap')
    BY <1>2, <1>3, CaptureElse DEF StartsAt
  <1>12. Tables(es, p + 1, cap'.offset, rows', row')
    BY <1>2, <1>3, TablesElse DEF StartsAt
  <1>13. Walked(es, p + 1, builds', stack', siblings', cap', rows', row')
    BY <1>5, <1>9, <1>10, <1>11, <1>12 DEF Walked
  <1> QED
    BY <1>3, <1>13

\* A box or an image that ends is one more widget of that node, with its text.
LEMMA EndBoxReads ==
    ASSUME ReaderInv, EndBox
    PROVE  ReaderInv'
  <1>1. PICK es, p : es = ctd.events /\ p = pos
    OBVIOUS
  <1>2. phase = "walk" /\ pos <= Len(ctd.events) /\ Read /\ es[p].is = "end" /\ es[p].tag \in {"codebox", "encoded_png"}
    BY <1>1 DEF EndBox, End, Event
  <1>3. /\ WellFormed(es) /\ p \in 1 .. Len(es) /\ p \in Nat /\ p # 0
        /\ Walked(es, p, builds, stack, siblings, cap, rows, row)
        /\ Walked(es, p + 1, builds', stack', siblings', cap', rows', row') => ReaderInv'
    BY <1>1, <1>2, WalkedOn
  <1>4. ~Is(es, p, "start", "node") /\ ~Is(es, p, "end", "node")
    BY <1>2 DEF Is
  <1>5. /\ Holder(es, p + 1) = Holder(es, p) /\ p + 1 \in 1 .. (Len(es) + 1)
        /\ Balance(es, p + 1) /\ stack = Opened(es, p + 1) /\ Counted(es, p + 1, siblings)
    BY <1>3, <1>4, InTheNode
  <1>6. /\ stack = Opened(es, p) /\ Built(builds) /\ Shape(es, p, builds) /\ Contents(es, p, builds)
        /\ IsCap(cap) /\ Capture(es, p, cap) /\ Tables(es, p, cap.offset, rows, row)
    BY <1>3 DEF Walked
  <1>7. PICK k \in 1 .. (p - 1) : StartsAt(es, k, {es[p].tag}) /\ Closing(es, k) = p /\ Between(es, k, p)
    <2>1. EndsAt(es, p, DOMAIN Holds)
      BY <1>2 DEF EndsAt, Holds
    <2> QED
      BY <1>3, <2>1, EndHasStart
  <1>8. /\ Holder(es, k) = Holder(es, p)
        /\ AnchorAt(es, k) => cap.what = "none"
        /\ ~AnchorAt(es, k) => cap.what = es[p].tag /\ cap.buf = TextIn(es, k)
        /\ EndsAt(es, p, {"rich_text"}) => cap.style = es[k].style
        /\ EndsAt(es, p, {"codebox", "encoded_png"}) /\ ~AnchorAt(es, k) =>
              cap.offset = es[k].offset /\ cap.kind = es[k].kind
    <2>1. EndsAt(es, p, Captures)
      BY <1>2 DEF EndsAt, Captures
    <2> QED
      BY <1>3, <1>6, <1>7, <2>1, CapturedAll
  <1>9. /\ stack' = stack /\ siblings' = siblings /\ rows' = rows /\ row' = row /\ IsCap(cap') /\ cap'.offset = cap.offset
    <2>1. /\ stack' = stack /\ siblings' = siblings /\ rows' = rows /\ row' = row
          /\ cap' = [cap EXCEPT !.what = "none", !.buf = <<>>]
      BY DEF EndBox
    <2> QED
      BY <1>6, <2>1 DEF IsCap
  <1>10. Built(builds') /\ Shape(es, p + 1, builds') /\ Contents(es, p + 1, builds')
    <2>1. /\ ~EndsAt(es, p, {"rich_text"}) /\ EndsAt(es, p, Boxes) /\ EndsAt(es, p, {"codebox", "encoded_png"})
          /\ ~Is(es, k, "start", "table")
      BY <1>2, <1>7 DEF EndsAt, Boxes, Is, StartsAt
    <2>2. \A n : RunsAt(es, n, p + 1) = RunsAt(es, n, p)
      BY <1>3, <2>1, RunsStay
    <2>3. \A n : WidgetsAt(es, n, p + 1) =
                     IF Holder(es, k) = n /\ ~AnchorAt(es, k)
                     THEN Append(WidgetsAt(es, n, p), WidgetAt(es, k)) ELSE WidgetsAt(es, n, p)
      BY <1>3, <1>7, <2>1, WidgetsGrow
    <2>4. IF cap.what = es[p].tag
          THEN PushWidget([kind |-> cap.kind, offset |-> cap.offset, data |-> cap.buf])
          ELSE UNCHANGED builds
      BY <1>1, <1>2 DEF EndBox, End, Event
    <2>5. CASE AnchorAt(es, k)
      <3>1. builds' = builds
        BY <1>2, <1>8, <2>4, <2>5
      <3>2. \A n : WidgetsAt(es, n, p + 1) = WidgetsAt(es, n, p)
        BY <2>3, <2>5
      <3> QED
        BY <1>3, <1>4, <1>6, <2>2, <3>1, <3>2, NodesKept
    <2>6. CASE ~AnchorAt(es, k)
      <3>1. PICK x : x = [kind |-> cap.kind, offset |-> cap.offset, data |-> cap.buf]
        OBVIOUS
      <3>2. /\ cap.what = es[p].tag /\ cap.buf = TextIn(es, k)
            /\ cap.offset = es[k].offset /\ cap.kind = es[k].kind
        BY <1>8, <2>1, <2>6
      <3>3. x = WidgetAt(es, k)
        BY <2>1, <2>6, <3>1, <3>2 DEF WidgetAt
      <3>4. \A n : WidgetsAt(es, n, p + 1) =
                       IF Holder(es, p) = n THEN Append(WidgetsAt(es, n, p), x) ELSE WidgetsAt(es, n, p)
        BY <1>8, <2>3, <2>6, <3>3
      <3>5. builds' = IF stack = <<>> THEN builds
                      ELSE [builds EXCEPT ![Last(stack)].widgets = Append(@, x)]
        BY <2>4, <3>1, <3>2 DEF PushWidget
      <3>6. PICK e : e = builds'
        OBVIOUS
      <3> QED
        BY <1>3, <1>4, <1>6, <2>2, <3>4, <3>5, <3>6, WidgetAdded
    <2> QED
      BY <2>5, <2>6
  <1>11. Capture(es, p + 1, cap')
    BY <1>2, <1>3, CaptureElse DEF StartsAt
  <1>12. Tables(es, p + 1, cap'.offset, rows', row')
    BY <1>2, <1>3, TablesElse DEF StartsAt
  <1>13. Walked(es, p + 1, builds', stack', siblings', cap', rows', row')
    BY <1>5, <1>9, <1>10, <1>11, <1>12 DEF Walked
  <1> QED
    BY <1>3, <1>13

\* A cell that ends is the last of its row, with its text.
LEMMA EndCellReads ==
    ASSUME ReaderInv, EndCell
    PROVE  ReaderInv'
  <1>1. PICK es, p : es = ctd.events /\ p = pos
    OBVIOUS
  <1>2. phase = "walk" /\ pos <= Len(ctd.events) /\ Read /\ es[p].is = "end" /\ es[p].tag = "cell"
    BY <1>1 DEF EndCell, End, Event
  <1>3. /\ WellFormed(es) /\ p \in 1 .. Len(es) /\ p \in Nat /\ p # 0
        /\ Walked(es, p, builds, stack, siblings, cap, rows, row)
        /\ Walked(es, p + 1, builds', stack', siblings', cap', rows', row') => ReaderInv'
    BY <1>1, <1>2, WalkedOn
  <1>4. ~Is(es, p, "start", "node") /\ ~Is(es, p, "end", "node")
    BY <1>2 DEF Is
  <1>5. /\ Holder(es, p + 1) = Holder(es, p) /\ p + 1 \in 1 .. (Len(es) + 1)
        /\ Balance(es, p + 1) /\ stack = Opened(es, p + 1) /\ Counted(es, p + 1, siblings)
    BY <1>3, <1>4, InTheNode
  <1>6. /\ stack = Opened(es, p) /\ Built(builds) /\ Shape(es, p, builds) /\ Contents(es, p, builds)
        /\ IsCap(cap) /\ Capture(es, p, cap) /\ Tables(es, p, cap.offset, rows, row)
    BY <1>3 DEF Walked
  <1>7. PICK k \in 1 .. (p - 1) : StartsAt(es, k, {es[p].tag}) /\ Closing(es, k) = p /\ Between(es, k, p)
    <2>1. EndsAt(es, p, DOMAIN Holds)
      BY <1>2 DEF EndsAt, Holds
    <2> QED
      BY <1>3, <2>1, EndHasStart
  <1>8. /\ Holder(es, k) = Holder(es, p)
        /\ AnchorAt(es, k) => cap.what = "none"
        /\ ~AnchorAt(es, k) => cap.what = es[p].tag /\ cap.buf = TextIn(es, k)
        /\ EndsAt(es, p, {"rich_text"}) => cap.style = es[k].style
        /\ EndsAt(es, p, {"codebox", "encoded_png"}) /\ ~AnchorAt(es, k) =>
              cap.offset = es[k].offset /\ cap.kind = es[k].kind
    <2>1. EndsAt(es, p, Captures)
      BY <1>2 DEF EndsAt, Captures
    <2> QED
      BY <1>3, <1>6, <1>7, <2>1, CapturedAll
  <1>9. /\ stack' = stack /\ siblings' = siblings /\ builds' = builds /\ rows' = rows /\ IsCap(cap') /\ cap'.offset = cap.offset
    <2>1. /\ stack' = stack /\ siblings' = siblings /\ builds' = builds /\ rows' = rows
          /\ cap' = [cap EXCEPT !.what = "none", !.buf = <<>>]
      BY DEF EndCell
    <2> QED
      BY <1>6, <2>1 DEF IsCap
  <1>10. Built(builds) /\ Shape(es, p + 1, builds) /\ Contents(es, p + 1, builds)
    <2>1. ~EndsAt(es, p, {"rich_text"}) /\ ~EndsAt(es, p, Boxes) /\ ~AnchorAt(es, p)
      BY <1>2 DEF EndsAt, Boxes, AnchorAt, Is
    <2> QED
      BY <1>3, <1>4, <2>1, NothingAdded
  <1>11. Capture(es, p + 1, cap')
    BY <1>2, <1>3, CaptureElse DEF StartsAt
  <1>12. Tables(es, p + 1, cap'.offset, rows', row')
    <2>1. EndsAt(es, p, {"cell"}) /\ StartsAt(es, k, {"cell"}) /\ ~AnchorAt(es, k)
      BY <1>2, <1>7 DEF EndsAt, StartsAt, AnchorAt, Is
    <2>2. row' = Append(row, TextIn(es, k))
      BY <1>2, <1>8, <2>1 DEF EndCell
    <2>3. Tables(es, p + 1, cap.offset, rows, Append(row, TextIn(es, k)))
      BY <1>3, <1>5, <1>6, <1>7, <2>1, TablesAtCellEnd
    <2> QED
      BY <1>9, <2>2, <2>3
  <1>13. Walked(es, p + 1, builds', stack', siblings', cap', rows', row')
    BY <1>5, <1>9, <1>10, <1>11, <1>12 DEF Walked
  <1> QED
    BY <1>3, <1>13

\* A row that ends is the last of its table, with its cells.
LEMMA EndRowReads ==
    ASSUME ReaderInv, EndRow
    PROVE  ReaderInv'
  <1>1. PICK es, p : es = ctd.events /\ p = pos
    OBVIOUS
  <1>2. phase = "walk" /\ pos <= Len(ctd.events) /\ Read /\ es[p].is = "end" /\ es[p].tag = "row"
    BY <1>1 DEF EndRow, End, Event
  <1>3. /\ WellFormed(es) /\ p \in 1 .. Len(es) /\ p \in Nat /\ p # 0
        /\ Walked(es, p, builds, stack, siblings, cap, rows, row)
        /\ Walked(es, p + 1, builds', stack', siblings', cap', rows', row') => ReaderInv'
    BY <1>1, <1>2, WalkedOn
  <1>4. ~Is(es, p, "start", "node") /\ ~Is(es, p, "end", "node")
    BY <1>2 DEF Is
  <1>5. /\ Holder(es, p + 1) = Holder(es, p) /\ p + 1 \in 1 .. (Len(es) + 1)
        /\ Balance(es, p + 1) /\ stack = Opened(es, p + 1) /\ Counted(es, p + 1, siblings)
    BY <1>3, <1>4, InTheNode
  <1>6. /\ stack = Opened(es, p) /\ Built(builds) /\ Shape(es, p, builds) /\ Contents(es, p, builds)
        /\ IsCap(cap) /\ Capture(es, p, cap) /\ Tables(es, p, cap.offset, rows, row)
    BY <1>3 DEF Walked
  <1>7. PICK k \in 1 .. (p - 1) : StartsAt(es, k, {es[p].tag}) /\ Closing(es, k) = p /\ Between(es, k, p)
    <2>1. EndsAt(es, p, DOMAIN Holds)
      BY <1>2 DEF EndsAt, Holds
    <2> QED
      BY <1>3, <2>1, EndHasStart
  <1>9. /\ stack' = stack /\ siblings' = siblings /\ builds' = builds /\ cap' = cap /\ IsCap(cap')
        /\ rows' = Append(rows, row) /\ row' = <<>>
    BY <1>6 DEF EndRow
  <1>10. Built(builds) /\ Shape(es, p + 1, builds) /\ Contents(es, p + 1, builds)
    <2>1. ~EndsAt(es, p, {"rich_text"}) /\ ~EndsAt(es, p, Boxes) /\ ~AnchorAt(es, p)
      BY <1>2 DEF EndsAt, Boxes, AnchorAt, Is
    <2> QED
      BY <1>3, <1>4, <2>1, NothingAdded
  <1>11. Capture(es, p + 1, cap')
    BY <1>2, <1>3, CaptureElse DEF StartsAt
  <1>12. Tables(es, p + 1, cap'.offset, rows', row')
    <2>1. EndsAt(es, p, {"row"}) /\ StartsAt(es, k, {"row"})
      BY <1>2, <1>7 DEF EndsAt, StartsAt
    <2>2. Tables(es, p + 1, cap.offset, Append(rows, row), <<>>)
      BY <1>3, <1>5, <1>6, <1>7, <2>1, TablesAtRowEnd
    <2> QED
      BY <1>9, <2>2
  <1>13. Walked(es, p + 1, builds', stack', siblings', cap', rows', row')
    BY <1>5, <1>9, <1>10, <1>11, <1>12 DEF Walked
  <1> QED
    BY <1>3, <1>13

\* A table that ends is one more widget of the node on top of the stack, with its rows.
LEMMA EndTableReads ==
    ASSUME ReaderInv, EndTable
    PROVE  ReaderInv'
  <1>1. PICK es, p : es = ctd.events /\ p = pos
    OBVIOUS
  <1>2. phase = "walk" /\ pos <= Len(ctd.events) /\ Read /\ es[p].is = "end" /\ es[p].tag = "table"
    BY <1>1 DEF EndTable, End, Event
  <1>3. /\ WellFormed(es) /\ p \in 1 .. Len(es) /\ p \in Nat /\ p # 0
        /\ Walked(es, p, builds, stack, siblings, cap, rows, row)
        /\ Walked(es, p + 1, builds', stack', siblings', cap', rows', row') => ReaderInv'
    BY <1>1, <1>2, WalkedOn
  <1>4. ~Is(es, p, "start", "node") /\ ~Is(es, p, "end", "node")
    BY <1>2 DEF Is
  <1>5. /\ Holder(es, p + 1) = Holder(es, p) /\ p + 1 \in 1 .. (Len(es) + 1)
        /\ Balance(es, p + 1) /\ stack = Opened(es, p + 1) /\ Counted(es, p + 1, siblings)
    BY <1>3, <1>4, InTheNode
  <1>6. /\ stack = Opened(es, p) /\ Built(builds) /\ Shape(es, p, builds) /\ Contents(es, p, builds)
        /\ IsCap(cap) /\ Capture(es, p, cap) /\ Tables(es, p, cap.offset, rows, row)
    BY <1>3 DEF Walked
  <1>7. PICK k \in 1 .. (p - 1) : StartsAt(es, k, {es[p].tag}) /\ Closing(es, k) = p /\ Between(es, k, p)
    <2>1. EndsAt(es, p, DOMAIN Holds)
      BY <1>2 DEF EndsAt, Holds
    <2> QED
      BY <1>3, <2>1, EndHasStart
  <1>9. /\ stack' = stack /\ siblings' = siblings /\ cap' = cap /\ IsCap(cap')
        /\ rows' = <<>> /\ row' = row
    BY <1>6 DEF EndTable
  <1>10. Built(builds') /\ Shape(es, p + 1, builds') /\ Contents(es, p + 1, builds')
    <2>1. /\ ~EndsAt(es, p, {"rich_text"}) /\ EndsAt(es, p, Boxes) /\ EndsAt(es, p, {"table"})
          /\ StartsAt(es, k, {"table"}) /\ Is(es, k, "start", "table") /\ ~AnchorAt(es, k)
      BY <1>2, <1>7 DEF EndsAt, Boxes, Is, StartsAt, AnchorAt
    <2>2. \A n : RunsAt(es, n, p + 1) = RunsAt(es, n, p)
      BY <1>3, <2>1, RunsStay
    <2>3. \A n : WidgetsAt(es, n, p + 1) =
                     IF Holder(es, k) = n /\ ~AnchorAt(es, k)
                     THEN Append(WidgetsAt(es, n, p), WidgetAt(es, k)) ELSE WidgetsAt(es, n, p)
      BY <1>3, <1>7, <2>1, WidgetsGrow
    <2>4. Holder(es, k) = Holder(es, p) /\ cap.offset = es[k].offset /\ rows = TableIn(es, k)
      BY <1>3, <1>6, <1>7, <2>1, RowsAreAll
    <2>5. PICK x : x = [kind |-> "table", offset |-> cap.offset, data |-> rows]
      OBVIOUS
    <2>6. x = WidgetAt(es, k)
      BY <2>1, <2>4, <2>5 DEF WidgetAt
    <2>7. \A n : WidgetsAt(es, n, p + 1) =
                     IF Holder(es, p) = n THEN Append(WidgetsAt(es, n, p), x) ELSE WidgetsAt(es, n, p)
      BY <2>1, <2>3, <2>4, <2>6
    <2>8. builds' = IF stack = <<>> THEN builds
                    ELSE [builds EXCEPT ![Last(stack)].widgets = Append(@, x)]
      BY <2>5 DEF EndTable, PushWidget
    <2>9. PICK e : e = builds'
      OBVIOUS
    <2> QED
      BY <1>3, <1>4, <1>6, <2>2, <2>7, <2>8, <2>9, WidgetAdded
  <1>11. Capture(es, p + 1, cap')
    BY <1>2, <1>3, CaptureElse DEF StartsAt
  <1>12. Tables(es, p + 1, cap'.offset, rows', row')
    BY <1>2, <1>3, TablesElse DEF StartsAt
  <1>13. Walked(es, p + 1, builds', stack', siblings', cap', rows', row')
    BY <1>5, <1>9, <1>10, <1>11, <1>12 DEF Walked
  <1> QED
    BY <1>3, <1>13

-----------------------------------------------------------------------------
(* The theorem *)

\* Before the first event nothing is built, open or captured.
LEMMA ReaderInitially ==
    ASSUME ReaderInit
    PROVE  ReaderInv
  <1>1. PICK es : es = ctd.events
    OBVIOUS
  <1>2. /\ pos = 1 /\ builds = <<>> /\ stack = <<>> /\ siblings = <<0>> /\ rows = <<>> /\ row = <<>>
        /\ cap = [what |-> "none", buf |-> <<>>, style |-> None, offset |-> 0, kind |-> "none"]
        /\ ctd \in Files
    BY DEF ReaderInit
  <1>3. WellFormed(es)
    BY <1>1, <1>2, ReaderAssumption
  <1>4. Len(es) \in Nat /\ 1 \in 1 .. (Len(es) + 1)
    BY <1>3, FileFacts
  <1>5. 1 - 1 = 0 /\ 1 .. 0 = {} /\ 1 \in Nat
    OBVIOUS
  <1>6. Open(es, 1) = {} /\ NodesIn(es, 1, 0, "start") = {}
    BY <1>5 DEF Open, NodesIn
  <1>7. Balance(es, 1)
    BY <1>6 DEF Balance
  <1>8. Opened(es, 1) = <<>>
    BY <1>5, <1>6, StackFacts
  <1>9. Cardinality({}) = 0
    BY FS_EmptySet
  <1>10. Counted(es, 1, <<0>>)
    <2>1. Children(es, 0, 1) = {}
      BY <1>5, <1>6 DEF Children
    <2>2. Cardinality(Open(es, 1)) = 0
      BY <1>6, <1>9
    <2>3. <<0>> \in Seq(Nat) /\ Len(<<0>>) = 1 /\ <<0>>[1] = 0
      OBVIOUS
    <2> QED
      BY <1>6, <1>9, <2>1, <2>2, <2>3 DEF Counted
  <1>11. Built(<<>>)
    <2>1. Len(<<>>) = 0 /\ SeqLike(<<>>)
      BY DEF SeqLike
    <2> QED
      BY <1>5, <2>1 DEF Built
  <1>12. Shape(es, 1, <<>>) /\ Contents(es, 1, <<>>)
    BY <1>5, <1>6, <1>9 DEF Shape, Contents, Rank
  <1>13. IsCap(cap) /\ Capture(es, 1, cap) /\ Tables(es, 1, cap.offset, <<>>, <<>>)
    BY <1>2, <1>5 DEF IsCap, Capture, Tables
  <1>14. Walked(es, 1, <<>>, <<>>, <<0>>, cap, <<>>, <<>>)
    BY <1>4, <1>7, <1>8, <1>10, <1>11, <1>12, <1>13 DEF Walked
  <1> QED
    BY <1>1, <1>2, <1>14 DEF ReaderInv

\* Every event the walk passes is read as the file says.
LEMMA WalkReads ==
    ASSUME ReaderInv, Walk
    PROVE  ReaderInv'
  BY StartRootReads, StartNodeReads, EndNodeReads, StartRichTextReads, EndRichTextReads,
     StartBoxReads, EndBoxReads, StartAnchorReads, StartTableReads, StartRowReads, StartCellReads,
     EndCellReads, EndRowReads, EndTableReads, TextReads, OtherTagReads DEF Walk

\* The other steps leave what the walk made, or come after it.
LEMMA ReaderStep ==
    ASSUME ReaderInv, [ReaderNext]_readerVars
    PROVE  ReaderInv'
  <1>1. CASE Walk
    BY <1>1, WalkReads
  <1>2. ASSUME UNCHANGED <<ctd, pos, walking>>,
               phase' \in {"import", "walk", "identify"} => phase \in {"import", "walk", "identify"}
        PROVE  ReaderInv'
    BY <1>2 DEF ReaderInv, walking
  <1>3. ASSUME ctd' = ctd, phase' \notin {"import", "walk", "identify"} PROVE ReaderInv'
    BY <1>3 DEF ReaderInv
  <1>4. CASE Detect
    BY <1>2, <1>4 DEF Detect
  <1>5. CASE Fault \/ EndOfFile
    BY <1>2, <1>5 DEF Fault, EndOfFile, WalkEnds
  <1>6. CASE Identify
    BY <1>3, <1>6 DEF Identify
  <1>7. CASE Begin
    BY <1>3, <1>7 DEF Begin
  <1>8. CASE SpliceWidget \/ SpliceRest \/ SpliceEnds
    BY <1>3, <1>8 DEF SpliceWidget, SpliceRest, SpliceEnds
  <1>9. CASE RenderText \/ RenderWidget \/ RenderCode
    BY <1>3, <1>9 DEF RenderText, RenderWidget, RenderCode
  <1>10. CASE Finish \/ Return
    BY <1>3, <1>10 DEF Finish, Return
  <1>11. CASE UNCHANGED readerVars
    BY <1>2, <1>11 DEF readerVars
  <1> QED
    BY <1>1, <1>4, <1>5, <1>6, <1>7, <1>8, <1>9, <1>10, <1>11 DEF ReaderNext

\* What is walked is what the file says.
LEMMA WalkedIsWritten ==
    ASSUME ReaderInv
    PROVE  TreeAsWritten
  <1> SUFFICES ASSUME phase \in {"walk", "identify"}
               PROVE  TreeAsWritten
    BY DEF TreeAsWritten
  <1>1. PICK es, p : es = ctd.events /\ p = pos
    OBVIOUS
  <1>2. Walked(es, p, builds, stack, siblings, cap, rows, row)
    BY <1>1 DEF ReaderInv
  <1>3. Shape(es, p, builds) /\ Contents(es, p, builds)
    BY <1>2 DEF Walked
  <1>4. NodeStarts = NodesIn(es, 1, p - 1, "start")
    BY <1>1 DEF NodeStarts
  <1>5. Len(builds) = Cardinality(NodeStarts)
    BY <1>3, <1>4 DEF Shape, Rank
  <1>6. ASSUME NEW k \in NodeStarts
        PROVE  /\ builds[Rank(es, k)].parent = (IF Holder(es, k) = 0 THEN 0 ELSE Rank(es, Holder(es, k)))
               /\ builds[Rank(es, k)].position
                     = Cardinality({j \in NodeStarts : j < k /\ Holder(es, j) = Holder(es, k)})
               /\ builds[Rank(es, k)].runs = RunsAt(es, k, p)
               /\ builds[Rank(es, k)].widgets = WidgetsAt(es, k, p)
    <2>1. {j \in Children(es, Holder(es, k), p) : j < k}
             = {j \in NodeStarts : j < k /\ Holder(es, j) = Holder(es, k)}
      BY <1>4 DEF Children
    <2>2. /\ builds[Rank(es, k)].parent = (IF Holder(es, k) = 0 THEN 0 ELSE Rank(es, Holder(es, k)))
          /\ builds[Rank(es, k)].position = Cardinality({j \in Children(es, Holder(es, k), p) : j < k})
      BY <1>3, <1>4 DEF Shape
    <2>3. builds[Rank(es, k)].runs = RunsAt(es, k, p) /\ builds[Rank(es, k)].widgets = WidgetsAt(es, k, p)
      BY <1>3, <1>4 DEF Contents
    <2> QED
      BY <2>1, <2>2, <2>3
  <1> QED
    BY <1>1, <1>5, <1>6 DEF TreeAsWritten

\* The walk of parse_ctd builds, of every event it has passed, the nodes the file says: each in
\* the order they start, below the node it is in and after the siblings before it, with the runs
\* and the widgets that ended directly in it, whatever the nesting and wherever the file breaks off.
THEOREM TreeIsAsWritten == ReaderSpec => []TreeAsWritten
  <1>1. ReaderInit => ReaderInv
    BY ReaderInitially
  <1>2. ReaderInv /\ [ReaderNext]_readerVars => ReaderInv'
    BY ReaderStep
  <1>3. ReaderInv => TreeAsWritten
    BY WalkedIsWritten
  <1> QED
    BY <1>1, <1>2, <1>3, PTL DEF ReaderSpec

=============================================================================
