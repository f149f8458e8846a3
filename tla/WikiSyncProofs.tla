--------------------------- MODULE WikiSyncProofs ----------------------------
(***************************************************************************)
(* Proofs about WikiSync, for any number of pages, edits, operations,      *)
(* crashes and git commands typed by a person: no edit leaves the working  *)
(* tree and both histories, no save absorbs a merge or commits a conflict, *)
(* each commit is what it says, and the three histories follow             *)
(* WikiHistory.                                                            *)
(***************************************************************************)
EXTENDS WikiSync, SequenceTheorems, TLAPS

USE FilesAssumption, BoundsAssumption

Commit == [by : {"start", "save", "checkpoint", "merge", "person", "other"},
           page : File, other : Nat, past : SUBSET Nat, tree : Tree]

-----------------------------------------------------------------------------
(* Trees and commits *)

\* What a tree holds in a page and in the sidebar.
LEMMA TreeFacts ==
    ASSUME NEW t \in Tree
    PROVE  /\ t \in [File -> Text \cup List]
           /\ t[Sidebar] \in List
           /\ \A p \in Page : t[p] \in Text
           /\ \A f \in File : t[f].marked \in BOOLEAN
  BY DEF Tree, Text, List, File

\* The pages say which exist, and hold the edits.
LEMMA PagesAgree ==
    ASSUME NEW t, NEW u, \A f \in Page : u[f] = t[f]
    PROVE  Pages(u) = Pages(t) /\ EditsIn(u) = EditsIn(t)
  BY DEF Pages, EditsIn

\* A sidebar written for a tree lists its pages and has no conflict.
LEMMA ListingFacts ==
    ASSUME NEW t \in Tree
    PROVE  /\ Listing(t) \in List
           /\ ~Listing(t).marked
           /\ Listing(t).lists = Pages(t)
  BY DEF Listing, List, Pages

\* The tree every clone starts from.
LEMMA FirstTreeFacts ==
    /\ FirstTree \in Tree
    /\ \A f \in File : ~FirstTree[f].marked
    /\ \A p \in Page : FirstTree[p].edits = {}
  <1>1. ASSUME NEW p \in Page
        PROVE  /\ FirstTree[p] = FirstText(p) /\ FirstText(p) \in Text
               /\ ~FirstText(p).marked /\ FirstText(p).edits = {}
    BY DEF FirstTree, FirstText, File, Text
  <1>2. FirstTree[Sidebar] = [lists |-> FirstPages, marked |-> FALSE]
    BY DEF FirstTree, File
  <1>3. FirstTree[Sidebar] \in List /\ ~FirstTree[Sidebar].marked
    BY <1>2 DEF List
  <1>4. FirstTree = [f \in File |-> FirstTree[f]]
    BY DEF FirstTree
  <1>5. FirstTree \in [File -> Text \cup List]
    BY <1>1, <1>3, <1>4 DEF File
  <1>6. QED
    BY <1>1, <1>3, <1>5 DEF Tree, File

\* An edit keeps what was there.
LEMMA EditedText ==
    ASSUME NEW x \in Text, edits + 1 \in 1 .. MaxEdits
    PROVE  /\ Edited(x) \in Text
           /\ Edited(x).there = TRUE
           /\ Edited(x).edits = x.edits \cup {edits + 1}
           /\ Edited(x).marked = x.marked
  BY DEF Edited, Text

\* A text with a conflict has the edits it had and a new one.
LEMMA ClashingText ==
    ASSUME NEW x \in Text, edits + 1 \in 1 .. MaxEdits
    PROVE  /\ Clashing(x) \in Text
           /\ Clashing(x).edits = x.edits \cup {edits + 1}
  BY DEF Clashing, Text

\* Appending a commit leaves the older ones as they are.
LEMMA Appended ==
    ASSUME NEW old \in Seq(Commit), NEW c \in Commit, NEW new, new = Append(old, c)
    PROVE  /\ new \in Seq(Commit)
           /\ Len(new) = Len(old) + 1
           /\ DOMAIN new = DOMAIN old \cup {Len(old) + 1}
           /\ Len(old) + 1 \notin DOMAIN old
           /\ DOMAIN old \subseteq Nat
           /\ new[Len(old) + 1] = c
           /\ \A i \in DOMAIN old : new[i] = old[i] /\ old[i] \in Commit
  BY AppendProperties, LenProperties, ElementOfSeq

\* Three-way merging of typed trees, file by file.
LEMMA MergedTyped ==
    ASSUME NEW b, NEW o \in Tree, NEW t \in Tree, NEW f \in File
    PROVE  /\ f \in Page => Merged(b[f], o[f], t[f]) \in Text
           /\ f = Sidebar => Merged(b[f], o[f], t[f]) \in List
           /\ Clean(b[f], o[f], t[f]) =>
                 Merged(b[f], o[f], t[f]) \in {o[f], t[f]}
           /\ f \in Page =>
                 Merged(b[f], o[f], t[f]).edits \subseteq o[f].edits \cup t[f].edits
  <1>1. ASSUME f \in Page
        PROVE  /\ Merged(b[f], o[f], t[f]) \in Text
               /\ Merged(b[f], o[f], t[f]).edits \subseteq o[f].edits \cup t[f].edits
    <2> o[f] \in Text /\ t[f] \in Text
      BY <1>1, TreeFacts
    <2>1. o[f] \notin List
      BY DEF Text, List
    <2>2. CASE o[f] = t[f] \/ t[f] = b[f]
      BY <2>2 DEF Merged
    <2>3. CASE ~(o[f] = t[f] \/ t[f] = b[f]) /\ o[f] = b[f]
      BY <2>3 DEF Merged
    <2>4. CASE ~(o[f] = t[f] \/ t[f] = b[f]) /\ o[f] # b[f]
      <3> DEFINE m == [edits |-> o[f].edits \cup t[f].edits, there |-> TRUE, marked |-> TRUE]
      <3>1. m \in Text /\ m.edits = o[f].edits \cup t[f].edits
        BY DEF Text
      <3>2. Merged(b[f], o[f], t[f]) = m
        BY <2>1, <2>4 DEF Merged
      <3>3. QED
        BY <3>1, <3>2
    <2>5. QED
      BY <2>2, <2>3, <2>4
  <1>2. ASSUME f = Sidebar
        PROVE  Merged(b[f], o[f], t[f]) \in List
    <2> o[f] \in List /\ t[f] \in List
      BY <1>2, TreeFacts
    <2>1. [o[f] EXCEPT !.marked = TRUE] \in List
      BY DEF List
    <2>2. QED
      BY <2>1 DEF Merged
  <1>3. Clean(b[f], o[f], t[f]) => Merged(b[f], o[f], t[f]) \in {o[f], t[f]}
    BY DEF Clean, Merged
  <1>4. QED
    BY <1>1, <1>2, <1>3

-----------------------------------------------------------------------------
(* Steps *)

\* What changes git's state, or the remote's.
LEMMA Steps ==
    ASSUME [Next]_vars
    PROVE  \/ UNCHANGED <<git, far>>
           \/ Check \/ CommitSave \/ Fetch \/ FastForward \/ Push \/ CommitMerge
           \/ AtRest /\ Terminal
           \/ \E p \in Page : OtherPush(p)
  BY DEF Next, Process, Request, Begin, Refuse, CreatePage, UpdatePage, DeletePage,
         WritePage, RefuseWrite, WriteSidebar, NoFetch, UpToDate, FastForwardFails,
         HandOff, PushFails, PushRaced, RefuseConclude, Conclude, Crash, Open, Reload,
         EditFile, vars

\* What a commit made here is.
CommitMade(by, page, tree, other) ==
    LET new == Len(objects) + 1
    IN  /\ objects' \in Seq(Commit)
        /\ DOMAIN objects' = DOMAIN objects \cup {new}
        /\ new \notin DOMAIN objects /\ new \in Nat
        /\ \A c \in DOMAIN objects : objects'[c] = objects[c]
        /\ objects'[new].by = by
        /\ objects'[new].tree = tree
        /\ objects'[new].other = other
        /\ objects'[new].past = Past(head) \cup {new} \cup
                                (IF other = 0 THEN {} ELSE Past(other))
        /\ head' = new
        /\ branch' = IF attached THEN new ELSE branch
        /\ merging' = 0 /\ unmerged' = {} /\ attached' = attached

\* A commit that is made has a new name, and the past of what it is made on.
LEMMA CommitOnFacts ==
    ASSUME TypeOK, NEW by \in {"save", "checkpoint", "merge", "person"},
           NEW page \in File, NEW tree \in Tree, NEW other \in {0} \cup DOMAIN objects,
           CommitOn(by, page, tree, other)
    PROVE  CommitMade(by, page, tree, other)
  <1> DEFINE new == Len(objects) + 1
             past == Past(head) \cup {new} \cup (IF other = 0 THEN {} ELSE Past(other))
             c == [by |-> by, page |-> page, other |-> other, past |-> past, tree |-> tree]
  <1>1. objects \in Seq(Commit) /\ head \in DOMAIN objects
    BY DEF TypeOK, Commit
  <1>2. Len(objects) \in Nat /\ DOMAIN objects = 1 .. Len(objects)
    BY <1>1, LenProperties
  <1>3. \A i \in DOMAIN objects : objects[i] \in Commit
    BY <1>1, ElementOfSeq, LenProperties
  <1>4. past \subseteq Nat
    BY <1>1, <1>2, <1>3, SMTT(20) DEF Past, Commit
  <1>5. other \in Nat
    BY <1>1, <1>2
  <1>6. c \in Commit
    BY <1>4, <1>5 DEF Commit
  <1>7. objects' = Append(objects, c)
    BY DEF CommitOn
  <1> HIDE DEF c
  <1>8. /\ objects' \in Seq(Commit)
        /\ Len(objects') = new
        /\ DOMAIN objects' = DOMAIN objects \cup {new}
        /\ new \notin DOMAIN objects
        /\ objects'[new] = c
        /\ \A i \in DOMAIN objects : objects'[i] = objects[i]
    BY <1>1, <1>6, <1>7, Appended
  <1>9. /\ head' = new /\ branch' = (IF attached THEN new ELSE branch)
        /\ merging' = 0 /\ unmerged' = {} /\ attached' = attached
    BY DEF CommitOn, MoveHead
  <1>10. QED
    BY <1>2, <1>8, <1>9 DEF c, CommitMade

\* The commits an empty commit_all leaves alone, or the one it adds.
LEMMA CommitAllFacts ==
    ASSUME NEW by, NEW page, CommitAll(by, page)
    PROVE  \/ /\ work = TreeAt(head) /\ unmerged' = {}
              /\ UNCHANGED <<objects, head, branch, attached, merging>>
           \/ CommitTree(by, page, work)
  BY DEF CommitAll

\* Commits are typed, and the newest is the last.
LEMMA Commits ==
    ASSUME TypeOK
    PROVE  /\ objects \in Seq(Commit)
           /\ Len(objects) \in Nat
           /\ DOMAIN objects = 1 .. Len(objects)
           /\ \A c \in DOMAIN objects : objects[c] \in Commit /\ TreeAt(c) \in Tree
           /\ {head, branch, upstream, remote} \subseteq DOMAIN objects
  <1>1. objects \in Seq(Commit) /\ {head, branch, upstream, remote} \subseteq DOMAIN objects
    BY DEF TypeOK, Commit
  <1>2. Len(objects) \in Nat /\ DOMAIN objects = 1 .. Len(objects)
    BY <1>1, LenProperties
  <1>3. \A c \in DOMAIN objects : objects[c] \in Commit
    BY <1>1, ElementOfSeq, LenProperties
  <1>4. QED
    BY <1>1, <1>2, <1>3 DEF Commit, TreeAt

\* A new edit is within the bound.
LEMMA NewEditFacts ==
    ASSUME TypeOK, NewEdit
    PROVE  /\ edits + 1 \in 1 .. MaxEdits /\ edits' = edits + 1
           /\ pc \in {"check", "write"} /\ op.kind \in Mutations => edits' < MaxEdits
  BY SMTT(20) DEF TypeOK, NewEdit, Pending

\* No operation at all is one of the operations.
LEMMA NoOpTyped ==
    /\ NoOp \in [kind : {"none", "create", "update", "delete", "sync", "finish"},
                 page : File, base : Text \cup List, late : SUBSET Page]
    /\ NoOp.kind = "none"
  BY FirstTreeFacts, TreeFacts DEF NoOp, File

\* A process writes well-formed texts.
LEMMA WrittenText ==
    ASSUME TypeOK, Operation, pc = "write"
    PROVE  /\ edits + 1 \in 1 .. MaxEdits
           /\ loaded \in Tree
           /\ [edits |-> {edits + 1}, there |-> TRUE, marked |-> FALSE] \in Text
           /\ op.kind \in {"update", "delete"} =>
                 /\ op.page \in Page
                 /\ op.base = loaded[op.page]
                 /\ op.base \in Text
  <1>1. edits + 1 \in 1 .. MaxEdits /\ loaded \in Tree
    BY DEF TypeOK, Operation
  <1>2. [edits |-> {edits + 1}, there |-> TRUE, marked |-> FALSE] \in Text
    BY <1>1 DEF Text
  <1>3. ASSUME op.kind \in {"update", "delete"}
        PROVE  op.page \in Page /\ op.base = loaded[op.page] /\ op.base \in Text
    BY <1>1, <1>3, TreeFacts DEF Operation, Pages
  <1>4. QED
    BY <1>1, <1>2, <1>3

\* A page saved, and a page deleted, keep the edits they had.
LEMMA SavedText ==
    ASSUME NEW x \in Text, NEW e \in 1 .. MaxEdits
    PROVE  /\ [x EXCEPT !.edits = @ \cup {e}] \in Text
           /\ [x EXCEPT !.edits = @ \cup {e}].edits = x.edits \cup {e}
           /\ [x EXCEPT !.edits = @ \cup {e}].marked = x.marked
  BY DEF Text

\* A deletion is an edit of a text.
LEMMA DeletedText ==
    ASSUME NEW x \in Text, NEW e \in 1 .. MaxEdits
    PROVE  /\ [x EXCEPT !.edits = @ \cup {e}, !.there = FALSE] \in Text
           /\ [x EXCEPT !.edits = @ \cup {e}, !.there = FALSE].edits = x.edits \cup {e}
           /\ [x EXCEPT !.edits = @ \cup {e}, !.there = FALSE].marked = x.marked
  <1>1. [x EXCEPT !.edits = @ \cup {e}, !.there = FALSE] \in Text
    BY DEF Text
  <1>2. [x EXCEPT !.edits = @ \cup {e}, !.there = FALSE].edits = x.edits \cup {e}
    BY DEF Text
  <1>3. [x EXCEPT !.edits = @ \cup {e}, !.there = FALSE].marked = x.marked
    BY DEF Text
  <1>4. QED
    BY <1>1, <1>2, <1>3

\* The step that writes a page.
LEMMA PageWritten ==
    ASSUME TypeOK, Operation, CreatePage \/ UpdatePage \/ DeletePage
    PROVE  \E p \in Page, x \in Text :
              /\ WritePage(p, x)
              /\ work' \in Tree /\ loaded' = work'
              /\ work'[p] = x
              /\ \A f \in File \ {p} : work'[f] = work[f]
              /\ edits + 1 \in x.edits
              /\ CreatePage \/ work[p].edits \subseteq x.edits
              /\ CreatePage => ~work[p].there
              /\ x.marked = FALSE \/ x.marked = work[p].marked
  <1>1. pc = "write" /\ work \in Tree
    BY DEF CreatePage, UpdatePage, DeletePage, TypeOK
  <1> DEFINE Writes(p, x) ==
        /\ WritePage(p, x)
        /\ edits + 1 \in x.edits
        /\ CreatePage \/ work[p].edits \subseteq x.edits
        /\ CreatePage => ~work[p].there
        /\ x.marked = FALSE \/ x.marked = work[p].marked
  <1>2. ASSUME NEW p \in Page, NEW x \in Text, WritePage(p, x)
        PROVE  /\ work' \in Tree /\ loaded' = work' /\ work'[p] = x
               /\ \A f \in File \ {p} : work'[f] = work[f]
    <2>1. work' = [work EXCEPT ![p] = x] /\ loaded' = work'
      BY <1>2 DEF WritePage
    <2>2. QED
      BY <1>1, <2>1, TreeFacts DEF Tree, File
  <1>3. ASSUME CreatePage
        PROVE  \E p \in Page, x \in Text : Writes(p, x)
    <2> DEFINE x == [edits |-> {edits + 1}, there |-> TRUE, marked |-> FALSE]
    <2>1. PICK p \in Page : ~work[p].there /\ WritePage(p, x)
      BY <1>3 DEF CreatePage
    <2>2. x \in Text /\ x.edits = {edits + 1} /\ x.marked = FALSE
      BY <1>1, WrittenText
    <2> HIDE DEF x
    <2>3. Writes(p, x)
      BY <1>3, <2>1, <2>2
    <2>4. QED
      BY <2>2, <2>3
  <1>4. ASSUME UpdatePage
        PROVE  \E p \in Page, x \in Text : Writes(p, x)
    <2> DEFINE x == [op.base EXCEPT !.edits = @ \cup {edits + 1}]
    <2>1. WritePage(op.page, x) /\ op.kind = "update" /\ work[op.page] = loaded[op.page]
      BY <1>4 DEF UpdatePage
    <2>2. op.page \in Page /\ op.base \in Text /\ work[op.page] = op.base
      BY <1>1, <2>1, WrittenText
    <2>3. x \in Text /\ x.edits = op.base.edits \cup {edits + 1} /\ x.marked = op.base.marked
      BY <1>1, <2>2, WrittenText, SavedText
    <2>4. ~CreatePage
      BY <2>1 DEF CreatePage
    <2> HIDE DEF x
    <2>5. Writes(op.page, x)
      BY <2>1, <2>2, <2>3, <2>4
    <2>6. QED
      BY <2>2, <2>3, <2>5
  <1>5. ASSUME DeletePage
        PROVE  \E p \in Page, x \in Text : Writes(p, x)
    <2> DEFINE x == [op.base EXCEPT !.edits = @ \cup {edits + 1}, !.there = FALSE]
    <2>1. WritePage(op.page, x) /\ op.kind = "delete" /\ work[op.page] = loaded[op.page]
      BY <1>5 DEF DeletePage
    <2>2. op.page \in Page /\ op.base \in Text /\ work[op.page] = op.base
      BY <1>1, <2>1, WrittenText
    <2>3. x \in Text /\ x.edits = op.base.edits \cup {edits + 1} /\ x.marked = op.base.marked
      BY <1>1, <2>2, WrittenText, DeletedText
    <2>4. ~CreatePage
      BY <2>1 DEF CreatePage
    <2> HIDE DEF x
    <2>5. Writes(op.page, x)
      BY <2>1, <2>2, <2>3, <2>4
    <2>6. QED
      BY <2>2, <2>3, <2>5
  <1>6. PICK p \in Page, x \in Text : Writes(p, x)
    BY <1>3, <1>4, <1>5
  <1>7. QED
    BY <1>2, <1>6

\* The working tree after a fast-forward.
LEMMA FastForwarded ==
    ASSUME TypeOK, FastForward
    PROVE  /\ work' \in Tree /\ loaded' = work'
           /\ \A f \in File : \/ work'[f] = TreeAt(upstream)[f]
                              \/ /\ work'[f] = work[f]
                                 /\ TreeAt(head)[f] = TreeAt(upstream)[f]
           /\ \A f \in File : work'[f] # work[f] => work[f] = TreeAt(head)[f]
  <1> DEFINE u == TreeAt(upstream)
             h == TreeAt(head)
  <1>1. work \in Tree /\ u \in Tree /\ h \in Tree
    BY Commits DEF TypeOK
  <1> HIDE DEF u, h
  <1>2. work' = [f \in File |-> IF f \in Changed(h, u) THEN u[f] ELSE work[f]]
        /\ loaded' = work'
    BY DEF FastForward, u, h
  <1>3. \A f \in Changed(h, u) : work[f] = h[f]
    BY DEF FastForward, InTheWay, u, h
  <1>4. work' \in [File -> Text \cup List]
    BY <1>1, <1>2, TreeFacts
  <1>5. Sidebar \in File /\ \A p \in Page : p \in File
    BY DEF File
  <1>6. work'[Sidebar] \in List /\ \A p \in Page : work'[p] \in Text
    BY <1>1, <1>2, <1>5, TreeFacts
  <1>7. work' \in Tree
    BY <1>4, <1>6 DEF Tree
  <1>8. \A f \in File : /\ f \in Changed(h, u) => work'[f] = u[f] /\ work[f] = h[f]
                        /\ f \notin Changed(h, u) => work'[f] = work[f] /\ h[f] = u[f]
    BY <1>2, <1>3 DEF Changed
  <1>9. QED
    BY <1>2, <1>7, <1>8 DEF u, h

-----------------------------------------------------------------------------
(* Types *)

\* The working tree and the loaded tree stay trees.
LEMMA TreesTyped ==
    ASSUME TypeOK, Operation, [Next]_vars
    PROVE  work' \in Tree /\ (loaded' \in Tree \/ (pc' = "down" /\ loaded' = Nothing))
  <1>1. /\ work \in Tree /\ File = Page \cup {Sidebar}
        /\ loaded \in Tree \/ (pc = "down" /\ loaded = Nothing)
    BY DEF TypeOK, Operation, File
  <1>2. CASE CreatePage \/ UpdatePage \/ DeletePage
    BY <1>2, PageWritten
  <1>3. CASE WriteSidebar
    <2>1. loaded \in Tree /\ Listing(loaded) \in List
      BY <1>1, <1>3, ListingFacts DEF WriteSidebar
    <2>2. /\ work' = [work EXCEPT ![Sidebar] = Listing(loaded)]
          /\ loaded' = [loaded EXCEPT ![Sidebar] = Listing(loaded)]
      BY <1>3 DEF WriteSidebar
    <2>3. work' \in Tree
      BY <1>1, <2>1, <2>2, TreeFacts DEF Tree
    <2>4. loaded' \in Tree
      BY <1>1, <2>1, <2>2, TreeFacts DEF Tree
    <2>5. QED
      BY <2>3, <2>4
  <1>4. CASE FastForward
    BY <1>4, FastForwarded
  <1>5. CASE Conclude
    <2>1. Listing(work) \in List
      BY <1>1, ListingFacts
    <2>2. work' = [work EXCEPT ![Sidebar] = Listing(work)] /\ loaded' = work'
      BY <1>5 DEF Conclude, WithSidebar
    <2>3. work' \in Tree
      BY <1>1, <2>1, <2>2, TreeFacts DEF Tree
    <2>4. QED
      BY <2>2, <2>3
  <1>6. CASE Open \/ Reload
    BY <1>1, <1>6 DEF Open, Reload
  <1>7. CASE Crash
    BY <1>1, <1>7 DEF Crash
  <1>8. ASSUME NEW p \in Page, EditFile(p)
        PROVE  work' \in Tree /\ UNCHANGED <<loaded, pc>>
    <2>1. NewEdit /\ work' = [work EXCEPT ![p] = Edited(work[p])] /\ UNCHANGED <<loaded, pc>>
      BY <1>8 DEF EditFile
    <2>2. Edited(work[p]) \in Text
      BY <1>1, <2>1, NewEditFacts, EditedText, TreeFacts
    <2>3. QED
      BY <1>1, <2>1, <2>2, TreeFacts DEF Tree
  <1>9. ASSUME NEW p \in Page, PopStash(p)
        PROVE  work' \in Tree /\ UNCHANGED <<loaded, pc>>
    <2>1. NewEdit /\ work' = [work EXCEPT ![p] = Clashing(work[p])] /\ UNCHANGED <<loaded, pc>>
      BY <1>9 DEF PopStash, proc
    <2>2. Clashing(work[p]) \in Text
      BY <1>1, <2>1, NewEditFacts, ClashingText, TreeFacts
    <2>3. QED
      BY <1>1, <2>1, <2>2, TreeFacts DEF Tree
  <1>10. ASSUME NEW f \in File, Settle(f)
         PROVE  work' \in Tree /\ UNCHANGED <<loaded, pc>>
    <2> DEFINE x == [work[f] EXCEPT !.marked = FALSE]
    <2>1. work' = [work EXCEPT ![f] = x] /\ UNCHANGED <<loaded, pc>>
      BY <1>10 DEF Settle, proc
    <2>2. ASSUME f \in Page PROVE x \in Text
      <3>1. work[f] \in Text
        BY <1>1, <2>2, TreeFacts
      <3>2. QED
        BY <3>1 DEF Text
    <2>3. ASSUME f = Sidebar PROVE x \in List
      <3>1. work[f] \in List
        BY <1>1, <2>3, TreeFacts
      <3>2. QED
        BY <3>1 DEF List
    <2> HIDE DEF x
    <2>4. work' \in [File -> Text \cup List]
      BY <1>1, <2>1, <2>2, <2>3, TreeFacts
    <2>5. work'[Sidebar] \in List
      BY <1>1, <2>1, <2>3, TreeFacts
    <2>6. ASSUME NEW p \in Page PROVE work'[p] \in Text
      BY <1>1, <2>1, <2>2, TreeFacts
    <2>7. QED
      BY <2>1, <2>4, <2>5, <2>6 DEF Tree
  <1>11. CASE StartMerge
    <2> DEFINE b == TreeAt(Base)
               o == TreeAt(head)
               t == TreeAt(upstream)
    <2>1. work' = [f \in File |-> Merged(b[f], o[f], t[f])] /\ UNCHANGED <<loaded, pc>>
      BY <1>11 DEF StartMerge, proc
    <2>2. o \in Tree /\ t \in Tree
      BY Commits
    <2> HIDE DEF b, o, t
    <2>3. \A f \in File : /\ f \in Page => work'[f] \in Text
                          /\ f = Sidebar => work'[f] \in List
      BY <2>1, <2>2, MergedTyped
    <2>4. work' \in [File -> Text \cup List]
      BY <1>1, <2>1, <2>3
    <2>5. QED
      BY <1>1, <2>1, <2>3, <2>4 DEF Tree
  <1>12. CASE AbortMerge \/ Attach
    <2>1. work' \in {TreeAt(head), TreeAt(branch)} /\ UNCHANGED <<loaded, pc>>
      BY <1>12 DEF AbortMerge, Attach, proc
    <2>2. QED
      BY <1>1, <2>1, Commits
  <1>13. CASE PersonCommits \/ Detach
    BY <1>1, <1>13 DEF PersonCommits, Detach, proc
  <1>14. ASSUME NEW p \in Page, OtherPush(p)
         PROVE  UNCHANGED <<work, loaded, pc>>
    BY <1>14 DEF OtherPush, proc
  <1>15. CASE \/ Check \/ Refuse \/ RefuseWrite \/ CommitSave \/ Fetch \/ NoFetch \/ UpToDate
              \/ FastForwardFails \/ HandOff \/ Push \/ PushFails \/ PushRaced
              \/ RefuseConclude \/ CommitMerge
    <2>1. UNCHANGED <<work, loaded>> /\ pc # "down"
      BY <1>15 DEF Check, Refuse, RefuseWrite, CommitSave, Fetch, NoFetch, UpToDate,
            FastForwardFails, HandOff, Push, PushFails, PushRaced, RefuseConclude, CommitMerge
    <2>2. QED
      BY <1>1, <2>1
  <1>16. CASE Request
    <2>1. UNCHANGED <<work, loaded>> /\ pc = "idle"
      BY <1>16 DEF Request, Begin
    <2>2. QED
      BY <1>1, <2>1
  <1>17. CASE UNCHANGED vars
    BY <1>1, <1>17 DEF vars, proc
  <1>18. QED
    BY <1>1, <1>2, <1>3, <1>4, <1>5, <1>6, <1>7, <1>8, <1>9, <1>10, <1>11, <1>12, <1>13,
       <1>14, <1>15, <1>16, <1>17 DEF Next, Process, Terminal

-----------------------------------------------------------------------------
(* Commits, and the histories *)

Unmarked(t) == \A f \in File : ~t[f].marked

\* The part of the invariant that git's own state carries.
GitOK ==
    /\ objects \in Seq(Commit)
    /\ {head, branch, upstream, remote} \subseteq DOMAIN objects
    /\ merging \in {0} \cup DOMAIN objects
    /\ attached \in BOOLEAN
    /\ Pasts
    /\ MergeNotAbsorbed
    /\ \A c \in DOMAIN objects : Unmarked(TreeAt(c))

\* What the steps of git need of the invariant.
LEMMA GitOKNow ==
    ASSUME IInv
    PROVE  /\ GitOK /\ work \in Tree /\ DOMAIN objects \subseteq Nat
           /\ \A c \in DOMAIN objects : c \in Past(c) /\ Past(c) \subseteq DOMAIN objects
           /\ head = branch
  <1>1. TypeOK /\ Pasts /\ Marks /\ MergeNotAbsorbed
    BY DEF IInv
  <1>2. objects \in Seq(Commit) /\ DOMAIN objects = 1 .. Len(objects) /\ Len(objects) \in Nat
    BY <1>1, Commits
  <1>3. \A c \in DOMAIN objects : Unmarked(TreeAt(c))
    BY <1>1 DEF Marks, Unmarked
  <1>4. /\ {head, branch, upstream, remote} \subseteq DOMAIN objects
        /\ merging \in {0} \cup DOMAIN objects
        /\ attached \in BOOLEAN /\ work \in Tree
    BY <1>1 DEF TypeOK
  <1>5. GitOK
    BY <1>1, <1>2, <1>3, <1>4 DEF GitOK
  <1>6. QED
    BY <1>1, <1>2, <1>4, <1>5 DEF Pasts

\* The refinement: a commit on the branch records new work, or joins the two sides.
LEMMA CommitStep ==
    ASSUME IInv, UNCHANGED far, attached,
           NEW by \in {"save", "checkpoint", "merge", "person"}, NEW page \in File,
           NEW tree \in Tree, NEW other \in {0, upstream},
           CommitOn(by, page, tree, other), Unmarked(tree),
           other # 0 => by \in {"merge", "person"}
    PROVE  /\ GitOK'
           /\ History!Record \/ History!Join
           /\ objects'[head'].tree = tree
           /\ head' \in Past(branch)'
           /\ Past(branch) \subseteq Past(branch)'
           /\ \A c \in DOMAIN objects : c \in DOMAIN objects' /\ objects'[c] = objects[c]
  <1> DEFINE new == Len(objects) + 1
  <1>1. /\ GitOK /\ work \in Tree /\ DOMAIN objects \subseteq Nat
        /\ \A c \in DOMAIN objects : c \in Past(c) /\ Past(c) \subseteq DOMAIN objects
        /\ head = branch
    BY GitOKNow
  <1>2. /\ objects' \in Seq(Commit)
        /\ DOMAIN objects' = DOMAIN objects \cup {new}
        /\ new \notin DOMAIN objects /\ new \in Nat
        /\ \A c \in DOMAIN objects : objects'[c] = objects[c]
        /\ objects'[new].by = by
        /\ objects'[new].tree = tree
        /\ objects'[new].other = other
        /\ objects'[new].past = Past(head) \cup {new} \cup
                                (IF other = 0 THEN {} ELSE Past(other))
        /\ head' = new /\ branch' = new
        /\ merging' = 0 /\ attached' = attached
    <2>1. TypeOK /\ other \in {0} \cup DOMAIN objects
      BY <1>1 DEF IInv, GitOK
    <2>2. CommitMade(by, page, tree, other)
      BY <2>1, CommitOnFacts
    <2>3. QED
      BY <1>1, <2>2 DEF CommitMade
  <1> HIDE DEF new
  <1>3. {head, branch, upstream, remote} \subseteq DOMAIN objects
        /\ upstream' = upstream /\ remote' = remote
    BY <1>1 DEF GitOK, far
  <1>4. \A c \in DOMAIN objects : Past(c)' = Past(c) /\ TreeAt(c)' = TreeAt(c)
    BY <1>2 DEF Past, TreeAt
  <1>5. Past(branch)' = Past(branch) \cup {new} \cup (IF other = 0 THEN {} ELSE Past(upstream))
        /\ Past(upstream)' = Past(upstream) /\ Past(remote)' = Past(remote)
    BY <1>1, <1>2, <1>3 DEF Past
  <1>6. new \notin Past(branch) \cup Past(upstream) \cup Past(remote)
    BY <1>1, <1>2, <1>3
  <1>7. Pasts'
    BY <1>1, <1>2, <1>3, <1>4, <1>5 DEF Pasts, GitOK
  <1>8. MergeNotAbsorbed'
    BY <1>1, <1>2 DEF MergeNotAbsorbed, GitOK
  <1>9. \A c \in DOMAIN objects' : Unmarked(TreeAt(c))'
    BY <1>1, <1>2 DEF GitOK, Unmarked, TreeAt
  <1>10. GitOK'
    BY <1>1, <1>2, <1>3, <1>7, <1>8, <1>9 DEF GitOK
  <1>11. CASE other = 0
    BY <1>5, <1>6, <1>11, <1>10, <1>2, <1>7 DEF History!Record, History!OneNew, GitOK, Pasts
  <1>12. CASE other # 0
    BY <1>5, <1>6, <1>12, <1>10, <1>2, <1>7 DEF History!Join, History!OneNew, GitOK, Pasts
  <1>13. QED
    BY <1>2, <1>5, <1>10, <1>11, <1>12

\* What every step does to git's state and the three histories.
GitStep ==
    /\ GitOK'
    /\ [History!Next]_<<Past(branch), Past(upstream), Past(remote)>>
    /\ Past(branch) \subseteq Past(branch)'
    /\ Past(remote) \subseteq Past(remote)'
    /\ \A c \in DOMAIN objects : c \in DOMAIN objects' /\ objects'[c] = objects[c]

\* A commit is a step of the abstract history.
LEMMA CommitOnStep ==
    ASSUME IInv, UNCHANGED far, attached,
           NEW by \in {"save", "checkpoint", "merge", "person"}, NEW page \in File,
           NEW tree \in Tree, NEW other \in {0, upstream},
           CommitOn(by, page, tree, other), Unmarked(tree),
           other # 0 => by \in {"merge", "person"}
    PROVE  GitStep
  <1>1. GitOK
    BY GitOKNow
  <1>2. /\ GitOK' /\ (History!Record \/ History!Join)
        /\ Past(branch) \subseteq Past(branch)'
        /\ \A c \in DOMAIN objects : c \in DOMAIN objects' /\ objects'[c] = objects[c]
    BY CommitStep
  <1>3. UNCHANGED <<upstream, remote>>
    BY DEF far
  <1>4. Past(remote)' = Past(remote)
    BY <1>1, <1>2, <1>3 DEF GitOK, Past
  <1>5. QED
    BY <1>2, <1>4 DEF GitStep, History!Next

\* A commit by the process, of everything in the working tree.
LEMMA CommitAllStep ==
    ASSUME IInv, UNCHANGED far, ~Refused, NEW by \in {"save", "checkpoint"},
           NEW page \in File, CommitAll(by, page)
    PROVE  GitStep
  <1>1. /\ GitOK /\ work \in Tree /\ head = branch /\ DOMAIN objects \subseteq Nat
        /\ merging = 0 /\ attached
    BY GitOKNow DEF Refused, DetachedHead, MergeInProgress
  <1>2. Unmarked(work)
    BY DEF IInv, Marks, Unmarked, Refused, UnmergedPaths
  <1>3. CASE CommitTree(by, page, work)
    <2>1. CommitOn(by, page, work, 0)
      BY <1>1, <1>3 DEF CommitTree
    <2>2. QED
      BY <1>1, <1>2, <2>1, CommitOnStep
  <1>4. CASE UNCHANGED <<objects, head, branch, attached, merging>>
    BY <1>1, <1>4 DEF GitStep, GitOK, Pasts, MergeNotAbsorbed, Past, TreeAt, far
  <1>5. QED
    BY <1>3, <1>4, CommitAllFacts

\* Steps that move no commit.
LEMMA NoCommitStep ==
    ASSUME IInv, UNCHANGED <<objects, branch, upstream, remote>>, head' = branch,
           attached' \in BOOLEAN, merging' \in {0} \cup DOMAIN objects
    PROVE  GitStep
  <1>1. GitOK /\ head = branch
    BY GitOKNow
  <1>2. QED
    BY <1>1 DEF GitStep, GitOK, Pasts, MergeNotAbsorbed, Past, TreeAt

\* fetch, fast-forward and push.
LEMMA SyncSteps ==
    ASSUME IInv, Fetch \/ FastForward \/ Push
    PROVE  GitStep
  <1>1. /\ GitOK /\ head = branch
        /\ \A c \in DOMAIN objects : c \in Past(c) /\ Past(c) \subseteq DOMAIN objects
        /\ Past(upstream) \subseteq Past(remote)
    BY GitOKNow DEF IInv, Pasts
  <1>2. {head, branch, upstream, remote} \subseteq DOMAIN objects
    BY <1>1 DEF GitOK
  <1>3. objects' = objects /\ attached' = attached /\ merging' = merging
    BY DEF Fetch, FastForward, Push, git
  <1>4. CASE Fetch
    <2>1. upstream' = remote /\ UNCHANGED <<objects, head, branch, remote>>
      BY <1>4 DEF Fetch, git
    <2>2. GitOK'
      BY <1>1, <1>2, <1>3, <2>1 DEF GitOK, Pasts, MergeNotAbsorbed, Past, TreeAt
    <2>3. History!Look
      BY <2>1 DEF History!Look, Past
    <2>4. QED
      BY <1>3, <2>1, <2>2, <2>3 DEF GitStep, History!Next, Past
  <1>5. CASE FastForward
    <2>1. attached /\ Past(head) \subseteq Past(upstream)
      BY <1>5 DEF FastForward, CanFastForward, Ahead, IInv, Undisturbed, Refused, DetachedHead
    <2>2. head' = upstream /\ branch' = upstream /\ UNCHANGED <<upstream, remote>>
      BY <1>5, <2>1 DEF FastForward, MoveHead, far
    <2>3. GitOK'
      BY <1>1, <1>2, <1>3, <2>2 DEF GitOK, Pasts, MergeNotAbsorbed, Past, TreeAt
    <2>4. History!Integrate
      BY <1>1, <1>3, <2>1, <2>2 DEF History!Integrate, Past
    <2>5. QED
      BY <1>1, <1>3, <2>1, <2>2, <2>3, <2>4 DEF GitStep, History!Next, Past
  <1>6. CASE Push
    <2>1. /\ Past(remote) \subseteq Past(head)
          /\ remote' = head /\ upstream' = head
          /\ UNCHANGED <<head, branch>>
      BY <1>6 DEF Push, git
    <2>2. GitOK'
      BY <1>1, <1>2, <1>3, <2>1 DEF GitOK, Pasts, MergeNotAbsorbed, Past, TreeAt
    <2>3. History!Publish
      BY <1>1, <1>3, <2>1 DEF History!Publish, Past
    <2>4. QED
      BY <1>1, <1>3, <2>1, <2>2, <2>3 DEF GitStep, History!Next, Past
  <1>7. QED
    BY <1>4, <1>5, <1>6

\* Somebody else pushes.
LEMMA OtherPushStep ==
    ASSUME IInv, NEW p \in Page, OtherPush(p)
    PROVE  GitStep
  <1> DEFINE new == Len(objects) + 1
             edited == [TreeAt(remote) EXCEPT ![p] = Edited(TreeAt(remote)[p])]
             tree == WithSidebar(edited)
             c == [by |-> "other", page |-> p, other |-> 0,
                   past |-> Past(remote) \cup {new}, tree |-> tree]
  <1>1. /\ GitOK /\ head = branch /\ DOMAIN objects \subseteq Nat
        /\ \A i \in DOMAIN objects : i \in Past(i) /\ Past(i) \subseteq DOMAIN objects
        /\ {head, branch, upstream, remote} \subseteq DOMAIN objects
        /\ Past(upstream) \subseteq Past(remote)
        /\ objects \in Seq(Commit)
    BY GitOKNow DEF GitOK, Pasts
  <1>2. /\ objects' = Append(objects, c) /\ remote' = new
        /\ UNCHANGED <<head, branch, attached, merging, upstream>>
    BY DEF OtherPush
  <1>3. TreeAt(remote) \in Tree /\ Unmarked(TreeAt(remote)) /\ p \in File /\ Sidebar \in File
    BY <1>1, Commits DEF IInv, GitOK, File
  <1>4. TreeAt(remote)[p] \in Text /\ ~TreeAt(remote)[p].marked
    BY <1>3, TreeFacts DEF Unmarked
  <1>5. NewEdit /\ TypeOK
    BY DEF OtherPush, IInv
  <1>6. Edited(TreeAt(remote)[p]) \in Text /\ ~Edited(TreeAt(remote)[p]).marked
    BY <1>4, <1>5, NewEditFacts, EditedText
  <1>7. edited \in Tree /\ Unmarked(edited)
    <2>1. edited \in Tree
      BY <1>3, <1>6, TreeFacts DEF Tree, File
    <2>2. Unmarked(edited)
      BY <1>3, <1>6, TreeFacts DEF Unmarked
    <2>3. QED
      BY <2>1, <2>2
  <1> HIDE DEF edited
  <1>8. tree \in Tree /\ Unmarked(tree)
    <2>1. Listing(edited) \in List /\ ~Listing(edited).marked
      BY <1>7, ListingFacts
    <2>2. tree = [edited EXCEPT ![Sidebar] = Listing(edited)]
      BY DEF WithSidebar
    <2> HIDE DEF tree
    <2>3. tree \in Tree
      BY <1>3, <1>7, <2>1, <2>2, TreeFacts DEF Tree, File
    <2>4. Unmarked(tree)
      BY <1>3, <1>7, <2>1, <2>2, TreeFacts DEF Unmarked
    <2>5. QED
      BY <2>3, <2>4
  <1> HIDE DEF tree
  <1>9. c \in Commit
    BY <1>1, <1>3, <1>5, <1>8, Commits DEF Commit
  <1>10. c.past = Past(remote) \cup {new} /\ c.other = 0 /\ c.tree = tree
    OBVIOUS
  <1> HIDE DEF c
  <1>11. /\ objects' \in Seq(Commit)
         /\ DOMAIN objects' = DOMAIN objects \cup {new}
         /\ new \notin DOMAIN objects
         /\ objects'[new] = c
         /\ \A i \in DOMAIN objects : objects'[i] = objects[i]
    BY <1>1, <1>2, <1>9, Appended
  <1> HIDE DEF new
  <1>12. /\ Past(branch)' = Past(branch) /\ Past(upstream)' = Past(upstream)
         /\ Past(remote)' = Past(remote) \cup {new}
    BY <1>1, <1>2, <1>10, <1>11 DEF Past
  <1>13. History!Elsewhere
    <2>1. new \notin Past(branch) \cup Past(remote)
      BY <1>1, <1>11
    <2>2. QED
      BY <1>12, <2>1 DEF History!Elsewhere, History!OneNew
  <1>14. \A i \in DOMAIN objects : Past(i)' = Past(i) /\ TreeAt(i)' = TreeAt(i)
    BY <1>11 DEF Past, TreeAt
  <1>15. Pasts'
    BY <1>1, <1>2, <1>11, <1>12, <1>14 DEF Pasts
  <1>16. MergeNotAbsorbed'
    BY <1>1, <1>10, <1>11 DEF MergeNotAbsorbed, GitOK
  <1>17. \A i \in DOMAIN objects' : Unmarked(TreeAt(i))'
    BY <1>1, <1>8, <1>10, <1>11 DEF GitOK, Unmarked, TreeAt
  <1>18. GitOK'
    BY <1>1, <1>2, <1>11, <1>15, <1>16, <1>17 DEF GitOK
  <1>19. QED
    BY <1>11, <1>12, <1>13, <1>18 DEF GitStep, History!Next

\* What the clean case of git merge puts in the folder.
LEMMA CleanMerge ==
    ASSUME IInv,
           \A f \in File : Clean(TreeAt(Base)[f], TreeAt(head)[f], TreeAt(upstream)[f])
    PROVE  LET m == [f \in File |-> Merged(TreeAt(Base)[f], TreeAt(head)[f],
                                           TreeAt(upstream)[f])]
           IN  m \in Tree /\ Unmarked(m)
  <1> DEFINE b == TreeAt(Base)
             o == TreeAt(head)
             t == TreeAt(upstream)
             m == [f \in File |-> Merged(b[f], o[f], t[f])]
  <1>1. o \in Tree /\ t \in Tree
    BY Commits DEF IInv
  <1>2. Unmarked(o) /\ Unmarked(t)
    BY GitOKNow DEF GitOK
  <1> HIDE DEF b, o, t
  <1>3. \A f \in File : m[f] = Merged(b[f], o[f], t[f])
    OBVIOUS
  <1>4. \A f \in File : Clean(b[f], o[f], t[f])
    BY DEF b, o, t
  <1>5. ASSUME NEW f \in File
        PROVE  /\ f \in Page => m[f] \in Text
               /\ f = Sidebar => m[f] \in List
               /\ m[f] \in {o[f], t[f]}
    BY <1>1, <1>3, <1>4, MergedTyped
  <1>6. m = [f \in File |-> m[f]]
    OBVIOUS
  <1> HIDE DEF m
  <1>7. m \in [File -> Text \cup List]
    BY <1>5, <1>6 DEF File
  <1>8. m \in Tree
    BY <1>5, <1>7 DEF Tree, File
  <1>9. Unmarked(m)
    BY <1>2, <1>5 DEF Unmarked
  <1>10. QED
    BY <1>8, <1>9 DEF m, b, o, t

\* finish_merge commits both sides, settled.
LEMMA CommitMergeStep ==
    ASSUME IInv, CommitMerge
    PROVE  /\ GitStep
           /\ attached /\ merging = upstream /\ Unmarked(work)
           /\ CommitOn("merge", Sidebar, work, upstream)
           /\ UNCHANGED far
  <1>1. pc = "concluding" /\ CommitOn("merge", Sidebar, work, merging) /\ UNCHANGED far
    BY DEF CommitMerge, CommitTree
  <1>2. merging # 0 /\ attached /\ merging = upstream
    BY <1>1 DEF IInv, OpenMerge
  <1>3. Unmarked(work)
    <2>1. work \in Tree
      BY GitOKNow
    <2>2. ~work[Sidebar].marked
      BY <1>1, <2>1, ListingFacts DEF IInv, OpenMerge
    <2>3. \A p \in Page : ~work[p].marked
      BY <1>1 DEF IInv, OpenMerge, Marks, File
    <2>4. QED
      BY <2>2, <2>3 DEF Unmarked, File
  <1>4. CommitOn("merge", Sidebar, work, upstream)
    BY <1>1, <1>2
  <1>5. work \in Tree /\ Sidebar \in File
    BY GitOKNow DEF File
  <1>6. GitStep
    BY <1>1, <1>2, <1>3, <1>4, <1>5, CommitOnStep
  <1>7. QED
    BY <1>1, <1>2, <1>3, <1>4, <1>6

\* What a person does with git.
LEMMA TerminalStep ==
    ASSUME IInv, AtRest, Terminal
    PROVE  GitStep
  <1>1. GitOK /\ head = branch /\ work \in Tree /\ Sidebar \in File
    BY GitOKNow DEF File
  <1>2. {head, branch, upstream, remote} \subseteq DOMAIN objects
        /\ merging \in {0} \cup DOMAIN objects /\ attached \in BOOLEAN
    BY <1>1 DEF GitOK
  <1>3. CASE \/ \E p \in Page : PopStash(p)
             \/ \E f \in File : Settle(f)
             \/ AbortMerge \/ Detach \/ Attach
    <2>1. /\ UNCHANGED <<objects, branch, upstream, remote>>
          /\ head' \in {head, branch} /\ attached' \in {attached, TRUE, FALSE}
          /\ merging' \in {merging, 0}
      BY <1>3 DEF PopStash, Settle, AbortMerge, Detach, Attach, far
    <2>2. head' = branch /\ attached' \in BOOLEAN /\ merging' \in {0} \cup DOMAIN objects
      BY <1>1, <1>2, <2>1
    <2>3. QED
      BY <2>1, <2>2, NoCommitStep
  <1>4. CASE PersonCommits
    <2>1. attached /\ unmerged = {} /\ UNCHANGED far
          /\ CommitOn("person", Sidebar, work, merging)
      BY <1>4 DEF PersonCommits, CommitTree
    <2>2. Unmarked(work)
      BY <2>1 DEF IInv, Marks, Unmarked
    <2>3. merging \in {0, upstream}
      BY DEF IInv, OpenMerge
    <2>4. QED
      BY <1>1, <2>1, <2>2, <2>3, CommitOnStep
  <1>5. CASE StartMerge
    <2> DEFINE b == TreeAt(Base)
               o == TreeAt(head)
               t == TreeAt(upstream)
               m == [f \in File |-> Merged(b[f], o[f], t[f])]
               clash == {f \in File : ~Clean(b[f], o[f], t[f])}
    <2>1. /\ attached /\ UNCHANGED far
          /\ IF clash = {}
             THEN CommitOn("person", Sidebar, m, upstream)
             ELSE merging' = upstream /\ UNCHANGED <<objects, head, branch, attached>>
      BY <1>5 DEF StartMerge
    <2>2. CASE clash = {}
      <3>1. \A f \in File : Clean(b[f], o[f], t[f])
        BY <2>2
      <3>2. m \in Tree /\ Unmarked(m)
        BY <3>1, CleanMerge
      <3>3. CommitOn("person", Sidebar, m, upstream)
        BY <2>1, <2>2
      <3> HIDE DEF m
      <3>4. QED
        BY <1>1, <2>1, <3>2, <3>3, CommitOnStep
    <2>3. CASE clash # {}
      <3>1. merging' = upstream /\ UNCHANGED <<objects, head, branch, attached, upstream, remote>>
        BY <2>1, <2>3 DEF far
      <3>2. QED
        BY <1>1, <1>2, <3>1, NoCommitStep
    <2>4. QED
      BY <2>2, <2>3
  <1>6. QED
    BY <1>3, <1>4, <1>5 DEF Terminal

\* Every step keeps git's state sound and is a step of WikiHistory.
LEMMA GitStepHolds ==
    ASSUME IInv, [Next]_vars
    PROVE  GitStep
  <1>1. CASE UNCHANGED <<git, far>>
    <2>1. UNCHANGED <<objects, branch, upstream, remote, head, attached, merging>>
      BY <1>1 DEF git, far
    <2>2. head = branch /\ attached \in BOOLEAN /\ merging \in {0} \cup DOMAIN objects
      BY GitOKNow DEF GitOK
    <2>3. QED
      BY <2>1, <2>2, NoCommitStep
  <1>2. CASE Check
    <2>1. ~Refused /\ CommitAll("checkpoint", Sidebar) /\ UNCHANGED far /\ Sidebar \in File
      BY <1>2 DEF Check, File
    <2>2. QED
      BY <2>1, CommitAllStep
  <1>3. CASE CommitSave
    <2>1. pc = "commit" /\ CommitAll("save", op.page) /\ UNCHANGED far
      BY <1>3 DEF CommitSave
    <2>2. ~Refused /\ op.page \in File
      BY <2>1 DEF IInv, Undisturbed, Operation, File
    <2>3. QED
      BY <2>1, <2>2, CommitAllStep
  <1>4. CASE Fetch \/ FastForward \/ Push
    BY <1>4, SyncSteps
  <1>5. CASE CommitMerge
    BY <1>5, CommitMergeStep
  <1>6. CASE AtRest /\ Terminal
    BY <1>6, TerminalStep
  <1>7. CASE \E p \in Page : OtherPush(p)
    BY <1>7, OtherPushStep
  <1>8. QED
    BY <1>1, <1>2, <1>3, <1>4, <1>5, <1>6, <1>7, Steps

-----------------------------------------------------------------------------
(* The operation under way *)

OpType == [kind : {"none", "create", "update", "delete", "sync", "finish"},
           page : File, base : Text \cup List, late : SUBSET Page]

\* Another program's write is noted, the note is cleared, the page is named.
LEMMA Noted ==
    ASSUME NEW o \in OpType, NEW p \in Page
    PROVE  LET n == [o EXCEPT !.late = @ \cup {p}]
           IN  /\ n \in OpType
               /\ n.kind = o.kind /\ n.page = o.page /\ n.base = o.base
               /\ n.late = o.late \cup {p}
  BY DEF OpType

\* An operation of which nothing is late,
LEMMA Cleared ==
    ASSUME NEW o \in OpType
    PROVE  LET n == [o EXCEPT !.late = {}]
           IN  /\ n \in OpType
               /\ n.kind = o.kind /\ n.page = o.page /\ n.base = o.base
               /\ n.late = {}
  BY DEF OpType

\* and one that has got its page.
LEMMA Named ==
    ASSUME NEW o \in OpType, NEW p \in Page
    PROVE  LET n == [o EXCEPT !.page = p]
           IN  /\ n \in OpType
               /\ n.kind = o.kind /\ n.page = p /\ n.base = o.base
               /\ n.late = o.late
  BY DEF OpType, File

\* What is known of the process, its trees left aside.
ProcOK ==
    /\ pc \in {"idle", "down", "check", "write", "sidebar", "commit", "fetch",
               "advance", "conclude", "concluding"}
    /\ op \in OpType
    /\ attempt \in 0 .. MaxAttempts
    /\ outcome \in {"none", "done", "refused", "diverged"}
    /\ edits \in 0 .. MaxEdits
    /\ pc \in {"idle", "down"} => op = NoOp
    /\ pc = "check" => op.kind \in Mutations \cup {"sync"}
    /\ pc \in {"write", "sidebar", "commit"} => op.kind \in Mutations
    /\ pc \in {"fetch", "advance"} => op.kind = "sync"
    /\ pc \in {"conclude", "concluding"} => op.kind = "finish"
    /\ pc \in {"check", "write"} /\ op.kind \in Mutations => edits < MaxEdits
    /\ pc \in {"check", "write"} /\ op.kind \in {"update", "delete"} =>
          op.page \in Pages(loaded) /\ op.base = loaded[op.page]
    /\ pc \in {"sidebar", "commit"} => op.page \in Page

\* What the steps of the process need of the invariant,
LEMMA ProcOKNow ==
    ASSUME IInv
    PROVE  ProcOK
  BY DEF IInv, TypeOK, Operation, ProcOK, OpType

\* An operation that ends leaves nothing behind.
LEMMA Ended ==
    ASSUME ProcOK, NEW result \in {"done", "refused", "diverged"},
           End(result), edits' = edits
    PROVE  ProcOK'
  BY NoOpTyped DEF ProcOK, End, OpType, Mutations

\* which every step keeps.
LEMMA ProcStep ==
    ASSUME IInv, [Next]_vars
    PROVE  ProcOK'
  <1>1. ProcOK /\ TypeOK /\ Operation
    BY ProcOKNow DEF IInv
  <1>2. CASE Request
    <2>1. PICK kind \in Mutations \cup {"sync", "finish"}, p \in File : Begin(kind, p)
      BY <1>2 DEF Request
    <2>2. /\ pc = "idle" /\ loaded \in Tree
          /\ kind \in Mutations => edits < MaxEdits
          /\ kind \in {"update", "delete"} => p \in Pages(loaded)
          /\ op' = [kind |-> kind, page |-> p, base |-> loaded[p], late |-> {}]
          /\ pc' = IF kind = "finish" THEN "conclude" ELSE "check"
          /\ outcome' = "none"
          /\ UNCHANGED <<loaded, attempt, edits>>
      BY <1>1, <2>1 DEF Begin, Operation
    <2>3. loaded[p] \in Text \cup List
      BY <2>2, TreeFacts
    <2>4. /\ op' \in OpType /\ op'.kind = kind /\ op'.page = p /\ op'.base = loaded[p]
      BY <2>2, <2>3 DEF OpType, Mutations
    <2>5. QED
      BY <1>1, <2>2, <2>4 DEF ProcOK, Mutations, Pages
  <1>3. CASE Check
    <2>1. /\ pc = "check" /\ pc' = (IF op.kind = "sync" THEN "fetch" ELSE "write")
          /\ op' = [op EXCEPT !.late = {}]
          /\ UNCHANGED <<loaded, attempt, outcome, edits>>
      BY <1>3 DEF Check, AfterCheck
    <2>2. op' \in OpType /\ op'.kind = op.kind /\ op'.page = op.page /\ op'.base = op.base
      BY <1>1, <2>1, Cleared DEF ProcOK
    <2>3. QED
      BY <1>1, <2>1, <2>2 DEF ProcOK, Mutations, Pages
  <1>4. CASE CreatePage \/ UpdatePage \/ DeletePage
    <2>1. PICK p \in Page, x \in Text : WritePage(p, x)
      BY <1>1, <1>4, PageWritten
    <2>2. /\ pc = "write" /\ pc' = "sidebar" /\ edits' = edits + 1
          /\ op' = [op EXCEPT !.page = p]
          /\ UNCHANGED <<attempt, outcome>>
      BY <1>4, <2>1 DEF WritePage, CreatePage, UpdatePage, DeletePage
    <2>3. op' \in OpType /\ op'.kind = op.kind /\ op'.page = p
      BY <1>1, <2>2, Named DEF ProcOK
    <2>4. edits + 1 \in 0 .. MaxEdits
      BY <1>1, <2>2 DEF ProcOK
    <2>5. QED
      BY <1>1, <2>2, <2>3, <2>4 DEF ProcOK
  <1>5. CASE WriteSidebar
    BY <1>1, <1>5 DEF ProcOK, WriteSidebar
  <1>6. CASE \/ Refuse \/ RefuseWrite \/ CommitSave \/ NoFetch \/ UpToDate \/ FastForward
             \/ FastForwardFails \/ HandOff \/ Push \/ PushFails
             \/ RefuseConclude \/ CommitMerge
    <2>1. /\ edits' = edits
          /\ End("done") \/ End("refused") \/ End("diverged")
      BY <1>6 DEF Refuse, RefuseWrite, CommitSave, NoFetch, UpToDate, FastForward,
            FastForwardFails, HandOff, Push, PushFails, RefuseConclude, CommitMerge
    <2>2. QED
      BY <1>1, <2>1, Ended
  <1>7. CASE Fetch \/ Conclude
    BY <1>1, <1>7 DEF ProcOK, Fetch, Conclude
  <1>8. CASE PushRaced
    <2>1. CASE attempt + 1 < MaxAttempts
      <3>1. /\ pc = "advance" /\ pc' = "check" /\ attempt' = attempt + 1
            /\ UNCHANGED <<op, outcome, edits, loaded>>
        BY <1>8, <2>1 DEF PushRaced
      <3>2. attempt' \in 0 .. MaxAttempts
        BY <1>1, <2>1, <3>1 DEF ProcOK
      <3>3. QED
        BY <1>1, <3>1, <3>2 DEF ProcOK, Mutations
    <2>2. CASE ~(attempt + 1 < MaxAttempts)
      BY <1>1, <1>8, <2>2, Ended DEF PushRaced
    <2>3. QED
      BY <2>1, <2>2
  <1>9. CASE Crash
    BY <1>1, <1>9, NoOpTyped DEF ProcOK, Crash, OpType, Mutations
  <1>10. CASE Open \/ Reload
    BY <1>1, <1>10 DEF ProcOK, Open, Reload, proc
  <1>11. ASSUME NEW p \in Page, EditFile(p) PROVE ProcOK'
    <2>1. /\ NewEdit /\ UNCHANGED <<loaded, pc, attempt, outcome>>
          /\ op' = (IF op = NoOp THEN op ELSE [op EXCEPT !.late = @ \cup {p}])
      BY <1>11 DEF EditFile
    <2>2. op' \in OpType /\ op'.kind = op.kind /\ op'.page = op.page /\ op'.base = op.base
      BY <1>1, <2>1, Noted DEF ProcOK
    <2>3. /\ edits' \in 0 .. MaxEdits
          /\ pc \in {"check", "write"} /\ op.kind \in Mutations => edits' < MaxEdits
      BY <1>1, <2>1, NewEditFacts
    <2>4. pc \in {"idle", "down"} => op' = NoOp
      BY <1>1, <2>1 DEF ProcOK
    <2>5. QED
      BY <1>1, <2>1, <2>2, <2>3, <2>4 DEF ProcOK, Pages
  <1>12. ASSUME NEW p \in Page, OtherPush(p) PROVE ProcOK'
    <2>1. NewEdit /\ UNCHANGED <<loaded, pc, op, attempt, outcome>>
      BY <1>12 DEF OtherPush, proc
    <2>2. /\ edits' \in 0 .. MaxEdits
          /\ pc \in {"check", "write"} /\ op.kind \in Mutations => edits' < MaxEdits
      BY <1>1, <2>1, NewEditFacts
    <2>3. QED
      BY <1>1, <2>1, <2>2 DEF ProcOK, Pages
  <1>13. CASE AtRest /\ Terminal
    <2>1. /\ UNCHANGED <<loaded, pc, op, attempt, outcome>>
          /\ edits' = edits \/ NewEdit
          /\ pc \in {"idle", "down"}
      BY <1>13 DEF AtRest, Terminal, PopStash, Settle, StartMerge, AbortMerge,
            PersonCommits, Detach, Attach, proc
    <2>2. edits' \in 0 .. MaxEdits
      BY <1>1, <2>1, NewEditFacts, SMTT(20) DEF TypeOK
    <2>3. QED
      BY <1>1, <2>1, <2>2 DEF ProcOK
  <1>14. CASE UNCHANGED vars
    BY <1>1, <1>14 DEF ProcOK, vars, proc, Pages
  <1>15. QED
    BY <1>2, <1>3, <1>4, <1>5, <1>6, <1>7, <1>8, <1>9, <1>10, <1>11, <1>12, <1>13, <1>14
       DEF Next, Process

-----------------------------------------------------------------------------
(* Types, and what ensure_committable found *)

\* Every step keeps what ensure_committable found.
LEMMA UndisturbedStep ==
    ASSUME IInv, [Next]_vars
    PROVE  Undisturbed' /\ unmerged' \subseteq File
  <1>1. /\ TypeOK /\ Undisturbed
        /\ unmerged \subseteq File
    BY DEF IInv, TypeOK
  <1>2. CASE Check
    <2>1. ~Refused /\ CommitAll("checkpoint", Sidebar)
      BY <1>2 DEF Check
    <2>2. unmerged' = {} /\ attached' = attached /\ merging' \in {merging, 0}
      BY <2>1, CommitAllFacts DEF CommitTree, CommitOn
    <2>3. QED
      BY <1>1, <2>1, <2>2 DEF Undisturbed, Refused, DetachedHead, MergeInProgress, UnmergedPaths
  <1>3. CASE CommitSave \/ CommitMerge \/ FastForward \/ Push
    <2>1. pc' = "idle"
      BY <1>3 DEF CommitSave, CommitMerge, FastForward, Push, End
    <2>2. unmerged' \in {{}, unmerged}
      BY <1>3 DEF CommitSave, CommitMerge, FastForward, Push, git, CommitAll, CommitTree, CommitOn
    <2>3. QED
      BY <1>1, <2>1, <2>2 DEF Undisturbed
  <1>4. CASE AtRest /\ Terminal
    <2>1. pc' \in {"idle", "down"}
      BY <1>4 DEF AtRest, Terminal, PopStash, Settle, StartMerge, AbortMerge,
            PersonCommits, Detach, Attach, proc
    <2>2. unmerged' \subseteq File
      <3>1. CASE StartMerge \/ PersonCommits
        BY <1>1, <3>1 DEF StartMerge, PersonCommits, CommitTree, CommitOn
      <3>2. CASE ~(StartMerge \/ PersonCommits)
        BY <1>1, <1>4, <3>2 DEF Terminal, PopStash, Settle, AbortMerge, Detach, Attach, File
      <3>3. QED
        BY <3>1, <3>2
    <2>3. QED
      BY <2>1, <2>2 DEF Undisturbed
  <1>5. ASSUME UNCHANGED <<attached, merging, unmerged>>, ~Check, ~(AtRest /\ Terminal)
        PROVE  Undisturbed' /\ unmerged' \subseteq File
    <2>1. pc' \in {"write", "sidebar", "commit", "fetch", "advance"} =>
             pc \in {"write", "sidebar", "commit", "fetch", "advance"}
      BY <1>5 DEF Next, Process, Request, Begin, Refuse, CreatePage, UpdatePage, DeletePage,
         WritePage, RefuseWrite, WriteSidebar, NoFetch, UpToDate, FastForwardFails,
         HandOff, PushFails, PushRaced, RefuseConclude, Conclude, Crash, Open, Reload,
         EditFile, vars, proc, End, Fetch, FastForward, Push, CommitMerge, CommitSave,
         OtherPush
    <2>2. QED
      BY <1>1, <1>5, <2>1
         DEF Undisturbed, Refused, DetachedHead, MergeInProgress, UnmergedPaths
  <1>6. CASE Fetch \/ (\E p \in Page : OtherPush(p)) \/ UNCHANGED <<git, far>>
    <2>1. UNCHANGED <<attached, merging, unmerged>>
      BY <1>6 DEF git, Fetch, OtherPush
    <2>2. QED
      BY <1>2, <1>4, <1>5, <2>1
  <1>7. QED
    BY <1>2, <1>3, <1>4, <1>6, Steps

\* What is typed of the whole state.
LEMMA TypeStep ==
    ASSUME IInv, [Next]_vars
    PROVE  TypeOK' /\ Operation'
  <1>1. ProcOK' /\ GitOK'
    BY ProcStep, GitStepHolds DEF GitStep
  <1>2. work' \in Tree /\ (loaded' \in Tree \/ (pc' = "down" /\ loaded' = Nothing))
    BY TreesTyped DEF IInv
  <1>3. unmerged' \subseteq File
    BY UndisturbedStep
  <1>4. tracking' \in BOOLEAN
    <2>1. tracking \in BOOLEAN
      BY DEF IInv, TypeOK
    <2>2. tracking' = tracking
      BY Steps DEF far, Check, CommitSave, Fetch, FastForward, Push, CommitMerge, Terminal,
         PopStash, Settle, StartMerge, AbortMerge, PersonCommits, Detach, Attach, OtherPush
    <2>3. QED
      BY <2>1, <2>2
  <1>5. TypeOK'
    BY <1>1, <1>2, <1>3, <1>4 DEF TypeOK, ProcOK, GitOK, Pasts, Commit, OpType
  <1>6. Operation'
    BY <1>1, <1>2 DEF Operation, ProcOK
  <1>7. QED
    BY <1>5, <1>6

-----------------------------------------------------------------------------
(* What the steps do to the working tree *)

\* Another editor's write.
LEMMA EditFacts ==
    ASSUME TypeOK, NEW p \in Page, EditFile(p)
    PROVE  /\ work'[p].there = TRUE
           /\ work'[p].edits = work[p].edits \cup {edits + 1}
           /\ work'[p].marked = work[p].marked
           /\ \A f \in File \ {p} : work'[f] = work[f]
           /\ op # NoOp => op'.late = op.late \cup {p} /\ op'.page = op.page
           /\ op = NoOp => op' = op
           /\ edits' = edits + 1
           /\ merging = 0
           /\ UNCHANGED <<git, far, loaded, pc>>
  <1>1. /\ NewEdit /\ work' = [work EXCEPT ![p] = Edited(work[p])] /\ merging = 0
        /\ op' = (IF op = NoOp THEN op ELSE [op EXCEPT !.late = @ \cup {p}])
        /\ UNCHANGED <<git, far, loaded, pc>>
    BY DEF EditFile
  <1>2. work \in Tree /\ op \in OpType /\ p \in File
    BY DEF TypeOK, OpType, File
  <1>3. work[p] \in Text
    BY <1>2, TreeFacts
  <1>4. /\ Edited(work[p]).there = TRUE
        /\ Edited(work[p]).edits = work[p].edits \cup {edits + 1}
        /\ Edited(work[p]).marked = work[p].marked
    BY <1>1, <1>3, NewEditFacts, EditedText
  <1>5. work'[p] = Edited(work[p]) /\ \A f \in File \ {p} : work'[f] = work[f]
    BY <1>1, <1>2, TreeFacts
  <1>6. /\ op # NoOp => op'.late = op.late \cup {p} /\ op'.page = op.page
        /\ op = NoOp => op' = op
    BY <1>1, <1>2, Noted
  <1>7. edits' = edits + 1
    BY <1>1, NewEditFacts
  <1>8. QED
    BY <1>1, <1>4, <1>5, <1>6, <1>7

\* A stashed edit put back.
LEMMA PopFacts ==
    ASSUME TypeOK, NEW p \in Page, PopStash(p)
    PROVE  /\ work'[p].edits = work[p].edits \cup {edits + 1}
           /\ \A f \in File \ {p} : work'[f] = work[f]
           /\ edits' = edits + 1
           /\ merging = 0 /\ unmerged = {} /\ work = TreeAt(head)
           /\ unmerged' = {p}
           /\ UNCHANGED <<objects, head, branch, attached, merging, far, loaded, pc, op>>
  <1>1. /\ NewEdit /\ work' = [work EXCEPT ![p] = Clashing(work[p])]
        /\ merging = 0 /\ ~Dirty /\ unmerged' = {p}
        /\ UNCHANGED <<objects, head, branch, attached, merging, far, loaded, pc, op>>
    BY DEF PopStash, proc
  <1>2. work \in Tree /\ p \in File
    BY DEF TypeOK, File
  <1>3. work[p] \in Text
    BY <1>2, TreeFacts
  <1>4. Clashing(work[p]).edits = work[p].edits \cup {edits + 1}
    BY <1>1, <1>3, NewEditFacts, ClashingText
  <1>5. work'[p] = Clashing(work[p]) /\ \A f \in File \ {p} : work'[f] = work[f]
    BY <1>1, <1>2, TreeFacts
  <1>6. edits' = edits + 1
    BY <1>1, NewEditFacts
  <1>7. QED
    BY <1>1, <1>4, <1>5, <1>6 DEF Dirty

\* A conflict settled.
LEMMA SettleFacts ==
    ASSUME TypeOK, NEW f \in File, Settle(f)
    PROVE  /\ ~work'[f].marked
           /\ \A g \in File \ {f} : work'[g] = work[g]
           /\ \A p \in Page : work'[p].edits = work[p].edits
           /\ unmerged' = unmerged \ {f}
           /\ UNCHANGED <<objects, head, branch, attached, merging, far, loaded, pc, op, edits>>
  <1> DEFINE x == [work[f] EXCEPT !.marked = FALSE]
  <1>1. /\ work' = [work EXCEPT ![f] = x]
        /\ unmerged' = unmerged \ {f}
        /\ UNCHANGED <<objects, head, branch, attached, merging, far, loaded, pc, op, edits>>
    BY DEF Settle, proc
  <1>2. work \in Tree
    BY DEF TypeOK
  <1>3. ~x.marked /\ (f \in Page => x.edits = work[f].edits)
    <2>1. ASSUME f \in Page PROVE ~x.marked /\ x.edits = work[f].edits
      <3>1. work[f] \in Text
        BY <1>2, <2>1, TreeFacts
      <3>2. QED
        BY <3>1 DEF Text
    <2>2. ASSUME f = Sidebar PROVE ~x.marked
      <3>1. work[f] \in List
        BY <1>2, <2>2, TreeFacts
      <3>2. QED
        BY <3>1 DEF List
    <2>3. QED
      BY <2>1, <2>2 DEF File
  <1> HIDE DEF x
  <1>4. work'[f] = x /\ \A g \in File \ {f} : work'[g] = work[g]
    BY <1>1, <1>2, TreeFacts
  <1>5. \A p \in Page : work'[p].edits = work[p].edits
    BY <1>3, <1>4 DEF File
  <1>6. QED
    BY <1>1, <1>3, <1>4, <1>5

\* A merge of the upstream into a clean folder.
LEMMA StartMergeFacts ==
    ASSUME TypeOK, StartMerge
    PROVE  /\ work = TreeAt(head) /\ unmerged = {} /\ merging = 0 /\ attached
           /\ \A p \in Page : work'[p].edits \subseteq TreeAt(head)[p].edits
                                                  \cup TreeAt(upstream)[p].edits
           /\ \A f \in File : \/ work'[f] \in {TreeAt(head)[f], TreeAt(upstream)[f]}
                              \/ f \in unmerged'
           /\ \/ CommitOn("person", Sidebar, work', upstream)
              \/ merging' = upstream /\ UNCHANGED <<objects, head, branch, attached>>
           /\ UNCHANGED <<far, loaded, pc, op, edits>>
  <1> DEFINE b == TreeAt(Base)
             o == TreeAt(head)
             t == TreeAt(upstream)
             m == [f \in File |-> Merged(b[f], o[f], t[f])]
             clash == {f \in File : ~Clean(b[f], o[f], t[f])}
  <1>1. /\ attached /\ merging = 0 /\ ~Dirty
        /\ work' = m
        /\ IF clash = {}
           THEN CommitOn("person", Sidebar, m, upstream)
           ELSE /\ merging' = upstream /\ unmerged' = clash
                /\ UNCHANGED <<objects, head, branch, attached>>
        /\ UNCHANGED <<far, loaded, pc, op, edits>>
    BY DEF StartMerge, proc
  <1>2. o \in Tree /\ t \in Tree
    BY Commits
  <1>3. \A f \in File : f \in clash <=> ~Clean(b[f], o[f], t[f])
    OBVIOUS
  <1> HIDE DEF b, o, t, clash
  <1>4. \A f \in File : m[f] = Merged(b[f], o[f], t[f])
    OBVIOUS
  <1>5. ASSUME NEW f \in File
        PROVE  /\ f \in Page => m[f].edits \subseteq o[f].edits \cup t[f].edits
               /\ f \in clash \/ m[f] \in {o[f], t[f]}
    BY <1>2, <1>3, <1>4, MergedTyped
  <1> HIDE DEF m
  <1>6. \A p \in Page : m[p].edits \subseteq o[p].edits \cup t[p].edits
    BY <1>5 DEF File
  <1>7. \A f \in File : m[f] \in {o[f], t[f]} \/ f \in unmerged'
    BY <1>1, <1>5
  <1>8. QED
    BY <1>1, <1>6, <1>7 DEF Dirty, o, t

\* The store's own writes of the sidebar.
LEMMA SidebarFacts ==
    ASSUME TypeOK, Operation, WriteSidebar \/ Conclude
    PROVE  /\ \A p \in Page : work'[p] = work[p]
           /\ work'[Sidebar] = Listing(loaded') /\ ~work'[Sidebar].marked
           /\ Conclude => loaded' = work'
           /\ WriteSidebar => \A p \in Page : loaded'[p] = loaded[p]
           /\ UNCHANGED <<git, far, op, edits>>
  <1>1. work \in Tree /\ loaded \in Tree /\ Sidebar \in File /\ \A p \in Page : p \in File
    BY DEF TypeOK, Operation, WriteSidebar, Conclude, File
  <1>2. UNCHANGED <<git, far, op, edits>>
    BY DEF WriteSidebar, Conclude
  <1>3. CASE WriteSidebar
    <2>1. /\ work' = [work EXCEPT ![Sidebar] = Listing(loaded)]
          /\ loaded' = [loaded EXCEPT ![Sidebar] = Listing(loaded)]
      BY <1>3 DEF WriteSidebar
    <2>2. /\ \A p \in Page : work'[p] = work[p] /\ loaded'[p] = loaded[p]
          /\ work'[Sidebar] = Listing(loaded)
      BY <1>1, <2>1, TreeFacts
    <2>3. Listing(loaded') = Listing(loaded)
      BY <2>2, PagesAgree DEF Listing
    <2>4. ~Listing(loaded).marked
      BY <1>1, ListingFacts
    <2>5. ~Conclude
      BY <1>3 DEF WriteSidebar, Conclude
    <2>6. QED
      BY <1>2, <2>2, <2>3, <2>4, <2>5
  <1>4. CASE Conclude
    <2>1. work' = [work EXCEPT ![Sidebar] = Listing(work)] /\ loaded' = work'
      BY <1>4 DEF Conclude, WithSidebar
    <2>2. /\ \A p \in Page : work'[p] = work[p]
          /\ work'[Sidebar] = Listing(work)
      BY <1>1, <2>1, TreeFacts
    <2>3. Listing(work') = Listing(work)
      BY <2>2, PagesAgree DEF Listing
    <2>4. ~Listing(work).marked
      BY <1>1, ListingFacts
    <2>5. ~WriteSidebar
      BY <1>4 DEF WriteSidebar, Conclude
    <2>6. QED
      BY <1>2, <2>1, <2>2, <2>3, <2>4, <2>5
  <1>5. QED
    BY <1>3, <1>4

\* What changes the working tree or the index.
LEMMA WorkSteps ==
    ASSUME [Next]_vars
    PROVE  \/ UNCHANGED <<work, unmerged>>
           \/ Check \/ CommitSave \/ CommitMerge
           \/ CreatePage \/ UpdatePage \/ DeletePage \/ WriteSidebar \/ Conclude \/ FastForward
           \/ AtRest /\ Terminal
           \/ \E p \in Page : EditFile(p)
  BY DEF Next, Process, Request, Begin, Refuse, RefuseWrite, Fetch, NoFetch, UpToDate,
         FastForwardFails, HandOff, Push, PushFails, PushRaced, RefuseConclude, Crash, Open,
         Reload, OtherPush, git, vars

-----------------------------------------------------------------------------
(* Unsettled conflicts *)

\* Every step keeps conflicts where the index says they are.
LEMMA MarksStep ==
    ASSUME IInv, [Next]_vars
    PROVE  Marks'
  <1> SUFFICES \A f \in File : work'[f].marked => f \in unmerged'
    <2>1. \A c \in DOMAIN objects' : Unmarked(TreeAt(c))'
      BY GitStepHolds DEF GitStep, GitOK
    <2>2. QED
      BY <2>1 DEF Marks, Unmarked
  <1>1. /\ TypeOK /\ Operation
        /\ \A f \in File : work[f].marked => f \in unmerged
        /\ \A c \in DOMAIN objects : Unmarked(TreeAt(c))
        /\ {head, branch, upstream} \subseteq DOMAIN objects
    BY GitOKNow DEF IInv, GitOK, Marks
  <1>2. CASE UNCHANGED <<work, unmerged>>
    BY <1>1, <1>2
  <1>3. CASE Check \/ CommitSave
    <2>1. UNCHANGED work /\ unmerged = {}
      BY <1>3 DEF Check, CommitSave, Refused, UnmergedPaths, IInv, Undisturbed
    <2>2. QED
      BY <1>1, <2>1
  <1>4. CASE CommitMerge
    BY <1>4, CommitMergeStep DEF CommitMerge, Unmarked
  <1>5. CASE CreatePage \/ UpdatePage \/ DeletePage
    <2>1. PICK p \in Page, x \in Text :
             /\ WritePage(p, x)
             /\ work'[p] = x
             /\ \A f \in File \ {p} : work'[f] = work[f]
             /\ x.marked = FALSE \/ x.marked = work[p].marked
      BY <1>1, <1>5, PageWritten
    <2>2. unmerged' = unmerged
      BY <2>1 DEF WritePage, git
    <2>3. p \in File
      BY DEF File
    <2>4. QED
      BY <1>1, <2>1, <2>2, <2>3
  <1>6. CASE WriteSidebar \/ Conclude
    <2>1. /\ \A p \in Page : work'[p] = work[p]
          /\ ~work'[Sidebar].marked /\ unmerged' = unmerged
      BY <1>1, <1>6, SidebarFacts DEF git
    <2>2. QED
      BY <1>1, <2>1 DEF File
  <1>7. CASE FastForward
    <2>1. \A f \in File : work'[f] = TreeAt(upstream)[f] \/ work'[f] = work[f]
      BY <1>1, <1>7, FastForwarded
    <2>2. unmerged' = unmerged
      BY <1>7 DEF FastForward
    <2>3. QED
      BY <1>1, <2>1, <2>2 DEF Unmarked
  <1>8. ASSUME NEW p \in Page, EditFile(p)
        PROVE  \A f \in File : work'[f].marked => f \in unmerged'
    BY <1>1, <1>8, EditFacts DEF git
  <1>9. CASE AtRest /\ Terminal
    <2>1. ASSUME NEW p \in Page, PopStash(p)
          PROVE  \A f \in File : work'[f].marked => f \in unmerged'
      BY <1>1, <2>1, PopFacts
    <2>2. ASSUME NEW g \in File, Settle(g)
          PROVE  \A f \in File : work'[f].marked => f \in unmerged'
      BY <1>1, <2>2, SettleFacts
    <2>3. CASE StartMerge
      BY <1>1, <2>3, StartMergeFacts DEF Unmarked
    <2>4. CASE AbortMerge \/ Attach
      BY <1>1, <2>4 DEF AbortMerge, Attach, Unmarked
    <2>5. CASE PersonCommits \/ Detach
      BY <1>1, <2>5 DEF PersonCommits, Detach, CommitTree, CommitOn
    <2>6. QED
      BY <1>9, <2>1, <2>2, <2>3, <2>4, <2>5 DEF Terminal
  <1>10. QED
    BY <1>2, <1>3, <1>4, <1>5, <1>6, <1>7, <1>8, <1>9, WorkSteps

-----------------------------------------------------------------------------
(* A merge under way *)

\* Steps that leave a merge open.
LEMMA MergeSteps ==
    ASSUME IInv, [Next]_vars, merging' # 0
    PROVE  \/ AtRest /\ StartMerge
           \/ /\ merging # 0
              /\ UNCHANGED <<head, attached, merging, upstream>>
              /\ pc' \in {"idle", "down", "check", "conclude", "concluding"}
              /\ \A p \in Page : work'[p].edits = work[p].edits
              /\ \/ Conclude
                 \/ (\E f \in File : Settle(f)) /\ AtRest
                 \/ UNCHANGED <<work, unmerged>>
  <1>1. /\ TypeOK /\ Operation
        /\ merging # 0 => pc \in {"idle", "down", "check", "conclude", "concluding"}
        /\ merging # 0 => Refused
    BY DEF IInv, OpenMerge, Refused, MergeInProgress
  <1>2. CASE AtRest /\ Terminal
    <2>1. ASSUME NEW p \in Page, PopStash(p)
          PROVE  FALSE
      BY <2>1, <1>1, PopFacts
    <2>2. ASSUME NEW f \in File, Settle(f)
          PROVE  /\ merging # 0
                 /\ UNCHANGED <<head, attached, merging, upstream, pc>>
                 /\ \A p \in Page : work'[p].edits = work[p].edits
      BY <2>2, <1>1, SettleFacts DEF far
    <2>3. ~AbortMerge /\ ~PersonCommits
      BY DEF AbortMerge, PersonCommits, CommitTree, CommitOn
    <2>4. ~(merging = 0 /\ Detach) /\ ~Attach
      BY DEF Detach, Attach
    <2>5. QED
      BY <1>1, <1>2, <2>1, <2>2, <2>3, <2>4 DEF Terminal, AtRest
  <1>3. CASE ~(AtRest /\ Terminal)
    <2>1. merging' = merging /\ attached' = attached
      BY <1>3, Steps DEF git, Check, CommitSave, CommitAll, CommitTree, CommitOn, Fetch,
         FastForward, Push, CommitMerge, OtherPush
    <2>2. merging # 0 /\ Refused /\ pc \in {"idle", "down", "check", "conclude", "concluding"}
      BY <1>1, <2>1
    <2>3. ~(\E p \in Page : EditFile(p)) /\ ~CommitMerge
      BY <2>2 DEF EditFile, CommitMerge, CommitTree, CommitOn
    <2>4. /\ UNCHANGED <<head, upstream>>
          /\ pc' \in {"idle", "down", "check", "conclude", "concluding"}
      BY <1>3, <2>2, <2>3 DEF Next, Process, Request, Begin, Refuse, RefuseWrite,
         Check, CreatePage, UpdatePage, DeletePage, WriteSidebar, CommitSave,
         Fetch, NoFetch, UpToDate, FastForward, FastForwardFails, HandOff, Push, PushFails,
         PushRaced, RefuseConclude, Conclude, Crash, Open, Reload, OtherPush, End, git, far,
         proc, vars
    <2>5. UNCHANGED <<work, unmerged>> \/ Conclude
      BY <1>3, <2>2, <2>3, WorkSteps DEF Check, CommitSave, CreatePage, UpdatePage, DeletePage,
         WriteSidebar, FastForward
    <2>6. \A p \in Page : work'[p].edits = work[p].edits
      BY <1>1, <2>5, SidebarFacts
    <2>7. QED
      BY <2>1, <2>2, <2>4, <2>5, <2>6
  <1>4. QED
    BY <1>2, <1>3

\* Every step keeps the merge in progress one of what was fetched.
LEMMA OpenMergeStep ==
    ASSUME IInv, [Next]_vars
    PROVE  OpenMerge'
  <1>1. /\ TypeOK /\ Operation /\ OpenMerge
        /\ {head, branch, upstream} \subseteq DOMAIN objects
    BY GitOKNow DEF IInv, GitOK
  <1>2. ASSUME merging' # 0
        PROVE  /\ attached'
               /\ merging' = upstream'
               /\ pc' \in {"idle", "down", "check", "conclude", "concluding"}
               /\ UNCHANGED <<head, upstream>>
               /\ EditsIn(work') \subseteq EditsIn(TreeAt(head)) \cup EditsIn(TreeAt(upstream))
    <2>1. CASE AtRest /\ StartMerge
      <3>1. /\ merging' = upstream /\ UNCHANGED <<objects, head, branch, attached, far, pc>>
            /\ attached
            /\ \A p \in Page : work'[p].edits \subseteq TreeAt(head)[p].edits
                                                   \cup TreeAt(upstream)[p].edits
        BY <1>1, <1>2, <2>1, StartMergeFacts DEF CommitOn
      <3>2. EditsIn(work') \subseteq EditsIn(TreeAt(head)) \cup EditsIn(TreeAt(upstream))
        BY <3>1 DEF EditsIn
      <3>3. QED
        BY <2>1, <3>1, <3>2 DEF AtRest, far
    <2>2. CASE /\ merging # 0
               /\ UNCHANGED <<head, attached, merging, upstream>>
               /\ pc' \in {"idle", "down", "check", "conclude", "concluding"}
               /\ \A p \in Page : work'[p].edits = work[p].edits
      <3>1. EditsIn(work') = EditsIn(work)
        BY <2>2 DEF EditsIn
      <3>2. QED
        BY <1>1, <2>2, <3>1 DEF OpenMerge
    <2>3. QED
      BY <1>2, <2>1, <2>2, MergeSteps
  <1>3. ASSUME pc' = "concluding"
        PROVE  merging' # 0 /\ unmerged' \cap Page = {} /\ work'[Sidebar] = Listing(work')
    <2>1. pc = "concluding" \/ Conclude
      BY <1>3 DEF Next, Process, Request, Begin, Refuse, RefuseWrite, Check, AfterCheck,
         CreatePage, UpdatePage, DeletePage, WritePage, WriteSidebar, CommitSave,
         Fetch, NoFetch, UpToDate, FastForward, FastForwardFails, HandOff, Push, PushFails,
         PushRaced, RefuseConclude, CommitMerge, Crash, Open, Reload, EditFile, OtherPush, End,
         Terminal, PopStash, Settle, StartMerge, AbortMerge, PersonCommits, Detach, Attach,
         proc, vars
    <2>2. CASE Conclude
      <3>1. merging # 0 /\ unmerged \cap Page = {} /\ UNCHANGED git
        BY <2>2 DEF Conclude, CannotConclude
      <3>2. work'[Sidebar] = Listing(work')
        BY <1>1, <2>2, SidebarFacts
      <3>3. QED
        BY <3>1, <3>2 DEF git
    <2>3. CASE pc = "concluding"
      <3>1. /\ merging # 0 /\ unmerged \cap Page = {} /\ work[Sidebar] = Listing(work)
            /\ ~AtRest /\ ~Conclude
        BY <1>1, <2>3 DEF OpenMerge, AtRest, Conclude
      <3>2. ~CommitMerge /\ ~(\E p \in Page : EditFile(p))
        BY <1>3, <3>1 DEF CommitMerge, End, EditFile
      <3>3. UNCHANGED <<work, unmerged>>
        BY <2>3, <3>1, <3>2, WorkSteps DEF Check, CommitSave, CreatePage, UpdatePage,
           DeletePage, WriteSidebar, FastForward
      <3>4. merging' = merging
        BY <2>3, <3>1, <3>2, Steps DEF git, Check, CommitSave, Fetch, FastForward, Push,
           OtherPush
      <3>5. QED
        BY <3>1, <3>3, <3>4
    <2>4. QED
      BY <2>1, <2>2, <2>3
  <1>4. ASSUME merging' # 0
        PROVE  EditsIn(work)' \subseteq EditsIn(TreeAt(head))' \cup EditsIn(TreeAt(upstream))'
    <2>1. /\ UNCHANGED <<head, upstream>>
          /\ EditsIn(work') \subseteq EditsIn(TreeAt(head)) \cup EditsIn(TreeAt(upstream))
      BY <1>2, <1>4
    <2>2. TreeAt(head)' = TreeAt(head) /\ TreeAt(upstream)' = TreeAt(upstream)
      BY <1>1, <2>1, GitStepHolds DEF GitStep, TreeAt
    <2>3. QED
      BY <2>1, <2>2 DEF EditsIn
  <1>5. (work[Sidebar] = Listing(work))' <=> work'[Sidebar] = Listing(work')
    BY DEF Listing, Pages
  <1>6. QED
    BY <1>2, <1>3, <1>4, <1>5 DEF OpenMerge

-----------------------------------------------------------------------------
(* What differs from the last commit *)

\* Steps of an operation that has been found committable.
LEMMA MiddleSteps ==
    ASSUME [Next]_vars, pc' \in {"write", "sidebar", "commit", "fetch", "advance"}
    PROVE  \/ Check \/ CreatePage \/ UpdatePage \/ DeletePage \/ WriteSidebar \/ Fetch
           \/ /\ pc' = pc
              /\ \/ \E p \in Page : EditFile(p)
                 \/ UNCHANGED <<head, work, loaded, op>>
  <1>1. \A p \in Page : EditFile(p) => pc' = pc
    BY DEF EditFile
  <1>2. AtRest /\ Terminal => pc' \in {"idle", "down"}
    BY DEF AtRest, Terminal, PopStash, Settle, StartMerge, AbortMerge, PersonCommits,
       Detach, Attach, proc
  <1>3. \A p \in Page : OtherPush(p) => UNCHANGED <<head, work, loaded, op, pc>>
    BY DEF OtherPush, proc
  <1>4. Process => \/ Check \/ CreatePage \/ UpdatePage \/ DeletePage \/ WriteSidebar \/ Fetch
                   \/ pc' \notin {"write", "sidebar", "commit", "fetch", "advance"}
    BY DEF Process, Refuse, RefuseWrite, CommitSave, NoFetch, UpToDate,
       FastForward, FastForwardFails, HandOff, Push, PushFails, PushRaced, RefuseConclude,
       Conclude, CommitMerge, End
  <1>5. Request \/ Crash \/ Open \/ Reload =>
           pc' \notin {"write", "sidebar", "commit", "fetch", "advance"}
    BY DEF Request, Begin, Crash, Open, Reload, proc
  <1>6. UNCHANGED vars => UNCHANGED <<head, work, loaded, op, pc>>
    BY DEF vars, git, proc
  <1>7. QED
    BY <1>1, <1>2, <1>3, <1>4, <1>5, <1>6 DEF Next

\* A checkpoint, and a save's commit, leave nothing pending.
LEMMA NothingPending ==
    ASSUME IInv, NEW by \in {"save", "checkpoint"}, NEW page \in File, CommitAll(by, page)
    PROVE  /\ objects'[head'].tree = work
           /\ \/ UNCHANGED <<objects, head>>
              \/ CommitMade(by, page, work, merging)
  <1>1. TypeOK /\ work \in Tree /\ merging \in {0} \cup DOMAIN objects
    BY DEF IInv, TypeOK
  <1>2. CASE CommitTree(by, page, work)
    <2>1. CommitMade(by, page, work, merging)
      BY <1>1, <1>2, CommitOnFacts DEF CommitTree
    <2>2. QED
      BY <2>1 DEF CommitMade
  <1>3. QED
    BY <1>2, CommitAllFacts DEF TreeAt

\* Every step keeps the differences from the last commit accounted for.
LEMMA DifferencesStep ==
    ASSUME IInv, [Next]_vars
    PROVE  Differences'
  <1> DEFINE Same(f) == work[f] = TreeAt(head)[f]
             Writing == pc \in {"write", "fetch", "advance"} =>
                           \A f \in File \ op.late : Same(f)
             Saving == pc \in {"sidebar", "commit"} =>
                           \A f \in File \ ({op.page, Sidebar} \cup op.late) : Same(f)
             Late == pc = "write" => \A p \in op.late : work[p].there
             Loaded == pc \in {"sidebar", "commit"} =>
                           \A p \in Page \ op.late : loaded[p].there = work[p].there
             Listed == pc = "commit" => work[Sidebar] = Listing(loaded)
  <1>1. /\ TypeOK /\ Operation /\ ProcOK
        /\ Writing /\ Saving /\ Late /\ Loaded /\ Listed
        /\ head \in DOMAIN objects
    BY ProcOKNow DEF IInv, Differences, Changed, TypeOK
  <1>2. \A c \in DOMAIN objects : objects'[c] = objects[c]
    BY GitStepHolds DEF GitStep
  <1>3. (\A f \in File : Changed(TreeAt(head), work)' = {g \in File : TreeAt(head)'[g] # work'[g]})
        /\ (work[Sidebar] = Listing(loaded))' = (work'[Sidebar] = Listing(loaded'))
    BY DEF Changed, Listing, Pages
  <1>4. SUFFICES Writing' /\ Saving' /\ Late' /\ Loaded' /\ Listed'
    BY <1>3 DEF Differences, Changed
  <1>5. CASE pc' \notin {"write", "sidebar", "commit", "fetch", "advance"}
    BY <1>5
  <1>6. CASE Check
    <2>1. /\ CommitAll("checkpoint", Sidebar) /\ work' = work
          /\ pc' \in {"fetch", "write"} /\ op' = [op EXCEPT !.late = {}]
          /\ Sidebar \in File
      BY <1>6 DEF Check, AfterCheck, File
    <2>2. TreeAt(head)' = work
      BY <2>1, NothingPending DEF TreeAt
    <2>3. op'.late = {}
      BY <1>1, <2>1, Cleared DEF ProcOK
    <2>4. QED
      BY <2>1, <2>2, <2>3
  <1>7. CASE CreatePage \/ UpdatePage \/ DeletePage
    <2>1. PICK p \in Page, x \in Text :
             /\ WritePage(p, x) /\ loaded' = work'
             /\ \A f \in File \ {p} : work'[f] = work[f]
      BY <1>1, <1>7, PageWritten
    <2>2. /\ pc = "write" /\ pc' = "sidebar" /\ op' = [op EXCEPT !.page = p]
          /\ UNCHANGED <<objects, head>>
      BY <1>7, <2>1 DEF WritePage, CreatePage, UpdatePage, DeletePage, git
    <2>3. op'.page = p /\ op'.late = op.late
      BY <1>1, <2>2, Named DEF ProcOK
    <2>4. TreeAt(head)' = TreeAt(head)
      BY <2>2 DEF TreeAt
    <2>5. QED
      BY <1>1, <2>1, <2>2, <2>3, <2>4
  <1>8. CASE WriteSidebar
    <2>1. /\ \A p \in Page : work'[p] = work[p] /\ loaded'[p] = loaded[p]
          /\ work'[Sidebar] = Listing(loaded')
          /\ UNCHANGED <<objects, head, op>>
      BY <1>1, <1>8, SidebarFacts DEF git
    <2>2. pc = "sidebar" /\ pc' = "commit"
      BY <1>8 DEF WriteSidebar
    <2>3. TreeAt(head)' = TreeAt(head)
      BY <2>1 DEF TreeAt
    <2>4. Writing' /\ Late'
      BY <2>2
    <2>5. Saving'
      BY <1>1, <2>1, <2>2, <2>3 DEF File
    <2>6. Loaded'
      BY <1>1, <2>1, <2>2
    <2>7. Listed'
      BY <1>3, <2>1
    <2>8. QED
      BY <2>4, <2>5, <2>6, <2>7
  <1>9. CASE Fetch
    <2>1. pc = "fetch" /\ pc' = "advance" /\ UNCHANGED <<objects, head, work, op>>
      BY <1>9 DEF Fetch, git
    <2>2. TreeAt(head)' = TreeAt(head)
      BY <2>1 DEF TreeAt
    <2>3. QED
      BY <1>1, <2>1, <2>2
  <1>10. ASSUME NEW p \in Page, EditFile(p),
                pc' \in {"write", "sidebar", "commit", "fetch", "advance"}
         PROVE  Writing' /\ Saving' /\ Late' /\ Loaded' /\ Listed'
    <2>1. /\ work'[p].there = TRUE
          /\ \A f \in File \ {p} : work'[f] = work[f]
          /\ op # NoOp => op'.late = op.late \cup {p} /\ op'.page = op.page
          /\ UNCHANGED <<objects, head, loaded, pc>>
      BY <1>1, <1>10, EditFacts DEF git
    <2>2. op # NoOp
      BY <1>1, <1>10, <2>1, NoOpTyped DEF ProcOK, Mutations
    <2>3. TreeAt(head)' = TreeAt(head)
      BY <2>1 DEF TreeAt
    <2>4. op.late \subseteq Page /\ \A f \in Page : f \in File /\ f # Sidebar
      BY <1>1 DEF ProcOK, OpType, File
    <2>5. Writing'
      BY <1>1, <2>1, <2>2, <2>3
    <2>6. Saving'
      BY <1>1, <2>1, <2>2, <2>3
    <2>7. Late'
      BY <1>1, <2>1, <2>2, <2>4
    <2>8. Loaded'
      BY <1>1, <2>1, <2>2, <2>4
    <2>9. Listed'
      BY <1>1, <1>3, <2>1, <2>4 DEF File
    <2>10. QED
      BY <2>5, <2>6, <2>7, <2>8, <2>9
  <1>11. CASE pc' = pc /\ UNCHANGED <<head, work, loaded, op>>
    <2>1. TreeAt(head)' = TreeAt(head)
      BY <1>1, <1>2, <1>11 DEF TreeAt
    <2>2. Listed'
      BY <1>1, <1>3, <1>11
    <2>3. QED
      BY <1>1, <1>11, <2>1, <2>2
  <1>12. QED
    BY <1>5, <1>6, <1>7, <1>8, <1>9, <1>10, <1>11, MiddleSteps

-----------------------------------------------------------------------------
(* No edit is lost *)

Committed == UNION {EditsIn(TreeAt(c)) : c \in Past(branch) \cup Past(remote)}

\* What is committed stays committed.
LEMMA CommittedGrows ==
    ASSUME IInv, [Next]_vars
    PROVE  /\ Committed \subseteq Committed'
           /\ EditsIn(TreeAt(head)) \subseteq Committed
           /\ EditsIn(TreeAt(upstream)) \subseteq Committed
  <1>1. /\ GitOK /\ head = branch
        /\ \A c \in DOMAIN objects : c \in Past(c) /\ Past(c) \subseteq DOMAIN objects
        /\ Past(upstream) \subseteq Past(remote)
    BY GitOKNow DEF IInv, Pasts
  <1>2. GitStep
    BY GitStepHolds
  <1>3. {head, branch, upstream, remote} \subseteq DOMAIN objects
    BY <1>1 DEF GitOK
  <1>4. ASSUME NEW c \in Past(branch) \cup Past(remote)
        PROVE  /\ c \in Past(branch)' \cup Past(remote)'
               /\ EditsIn(TreeAt(c))' = EditsIn(TreeAt(c))
    <2>1. c \in DOMAIN objects
      BY <1>1, <1>3
    <2>2. objects'[c] = objects[c] /\ c \in Past(branch)' \cup Past(remote)'
      BY <1>2, <2>1 DEF GitStep
    <2>3. QED
      BY <2>2 DEF EditsIn, TreeAt
  <1>5. Committed \subseteq Committed'
    BY <1>4 DEF Committed
  <1>6. head \in Past(branch) /\ upstream \in Past(remote)
    BY <1>1, <1>3
  <1>7. QED
    BY <1>5, <1>6 DEF Committed

\* The edits of a page are edits of its tree.
LEMMA PageEdits ==
    ASSUME NEW t, NEW p \in Page
    PROVE  t[p].edits \subseteq EditsIn(t)
  BY DEF EditsIn

\* What the working tree held is still there, or committed; so is a new edit.
LEMMA WorkKept ==
    ASSUME IInv, [Next]_vars
    PROVE  /\ EditsIn(work) \subseteq EditsIn(work') \cup Committed'
           /\ edits' = edits \/ /\ edits' = edits + 1
                                /\ edits + 1 \in EditsIn(work') \cup Committed'
  <1>1. /\ TypeOK /\ Operation /\ OpenMerge /\ Differences
        /\ Committed \subseteq Committed'
        /\ EditsIn(TreeAt(head)) \subseteq Committed
        /\ EditsIn(TreeAt(upstream)) \subseteq Committed
    BY CommittedGrows DEF IInv
  <1>2. CASE CreatePage \/ UpdatePage \/ DeletePage
    <2>1. PICK p \in Page, x \in Text :
             /\ WritePage(p, x)
             /\ work'[p] = x
             /\ \A f \in File \ {p} : work'[f] = work[f]
             /\ edits + 1 \in x.edits
             /\ CreatePage \/ work[p].edits \subseteq x.edits
             /\ CreatePage => ~work[p].there
      BY <1>1, <1>2, PageWritten
    <2>2. pc = "write" /\ edits' = edits + 1
      BY <1>2, <2>1 DEF WritePage, CreatePage, UpdatePage, DeletePage
    <2>3. edits + 1 \in EditsIn(work')
      BY <2>1, PageEdits
    <2>4. work[p].edits \subseteq x.edits \cup EditsIn(TreeAt(head))
      <3>1. CASE ~CreatePage
        BY <2>1, <3>1
      <3>2. CASE CreatePage
        <4>1. p \notin op.late /\ p \in File
          BY <1>1, <2>1, <2>2, <3>2 DEF Differences, File
        <4>2. work[p] = TreeAt(head)[p]
          BY <1>1, <2>2, <4>1 DEF Differences, Changed
        <4>3. QED
          BY <4>2, PageEdits
      <3>3. QED
        BY <3>1, <3>2
    <2>5. \A q \in Page : work[q].edits \subseteq EditsIn(work') \cup Committed'
      <3>1. SUFFICES ASSUME NEW q \in Page
                     PROVE  work[q].edits \subseteq EditsIn(work') \cup Committed'
        OBVIOUS
      <3>2. CASE q = p
        BY <1>1, <2>1, <2>4, <3>2, PageEdits
      <3>3. CASE q # p
        <4>1. work'[q] = work[q]
          BY <2>1, <3>3 DEF File
        <4>2. QED
          BY <4>1, PageEdits
      <3>4. QED
        BY <3>2, <3>3
    <2>6. EditsIn(work) \subseteq EditsIn(work') \cup Committed'
      BY <2>5 DEF EditsIn
    <2>7. QED
      BY <2>2, <2>3, <2>6
  <1>3. CASE WriteSidebar \/ Conclude
    <2>1. /\ \A p \in Page : work'[p] = work[p]
          /\ edits' = edits
      BY <1>1, <1>3, SidebarFacts
    <2>2. EditsIn(work') = EditsIn(work)
      BY <2>1, PagesAgree
    <2>3. QED
      BY <2>1, <2>2
  <1>4. CASE FastForward
    <2>1. \A f \in File : work'[f] # work[f] => work[f] = TreeAt(head)[f]
      BY <1>1, <1>4, FastForwarded
    <2>2. \A q \in Page : work[q].edits \subseteq EditsIn(work') \cup Committed'
      <3>1. SUFFICES ASSUME NEW q \in Page
                     PROVE  work[q].edits \subseteq EditsIn(work') \cup Committed'
        OBVIOUS
      <3>2. work[q] = TreeAt(head)[q] \/ work'[q] = work[q]
        BY <2>1 DEF File
      <3>3. /\ TreeAt(head)[q].edits \subseteq EditsIn(TreeAt(head))
            /\ work'[q].edits \subseteq EditsIn(work')
        BY PageEdits
      <3>4. QED
        BY <1>1, <3>2, <3>3
    <2>3. EditsIn(work) \subseteq EditsIn(work') \cup Committed'
      BY <2>2 DEF EditsIn
    <2>4. edits' = edits
      BY <1>4 DEF FastForward
    <2>5. QED
      BY <2>3, <2>4
  <1>5. ASSUME NEW p \in Page, EditFile(p) \/ PopStash(p)
        PROVE  /\ EditsIn(work) \subseteq EditsIn(work')
               /\ edits' = edits + 1 /\ edits + 1 \in EditsIn(work')
    <2>1. /\ work'[p].edits = work[p].edits \cup {edits + 1}
          /\ \A f \in File \ {p} : work'[f] = work[f]
          /\ edits' = edits + 1
      BY <1>1, <1>5, EditFacts, PopFacts
    <2>2. \A q \in Page : work[q].edits \subseteq work'[q].edits
      BY <2>1 DEF File
    <2>3. EditsIn(work) \subseteq EditsIn(work')
      BY <2>2 DEF EditsIn
    <2>4. edits + 1 \in EditsIn(work')
      BY <2>1, PageEdits
    <2>5. QED
      BY <2>1, <2>3, <2>4
  <1>6. ASSUME NEW f \in File, Settle(f)
        PROVE  EditsIn(work) = EditsIn(work') /\ edits' = edits
    <2>1. (\A p \in Page : work'[p].edits = work[p].edits) /\ edits' = edits
      BY <1>1, <1>6, SettleFacts
    <2>2. QED
      BY <2>1 DEF EditsIn
  <1>7. CASE StartMerge
    <2>1. work = TreeAt(head) /\ edits' = edits
      BY <1>1, <1>7, StartMergeFacts
    <2>2. QED
      BY <1>1, <2>1
  <1>8. CASE AbortMerge
    <2>1. merging # 0 /\ edits' = edits
      BY <1>8 DEF AbortMerge
    <2>2. QED
      BY <1>1, <2>1 DEF OpenMerge
  <1>9. CASE Attach
    <2>1. work = TreeAt(head) /\ edits' = edits
      BY <1>9 DEF Attach, Dirty
    <2>2. QED
      BY <1>1, <2>1
  <1>10. CASE PersonCommits \/ Detach
    BY <1>10 DEF PersonCommits, Detach
  <1>11. ASSUME NEW p \in Page, OtherPush(p)
         PROVE  /\ work' = work /\ edits' = edits + 1
                /\ edits + 1 \in Committed'
    <2> PICK new : new = Len(objects) + 1
      OBVIOUS
    <2> DEFINE text == TreeAt(remote)[p]
               edited == [TreeAt(remote) EXCEPT ![p] = Edited(text)]
               tree == WithSidebar(edited)
               c == [by |-> "other", page |-> p, other |-> 0,
                     past |-> Past(remote) \cup {new}, tree |-> tree]
    <2>1. /\ NewEdit /\ work' = work /\ edits' = edits + 1
          /\ objects' = Append(objects, c) /\ remote' = new
      BY <1>11 DEF OtherPush, NewEdit
    <2>2. /\ objects \in Seq(Commit) /\ Len(objects) \in Nat
          /\ TreeAt(remote) \in Tree /\ p \in File /\ p # Sidebar
      BY <1>1, Commits DEF File
    <2>3. text \in Text
      BY <2>2, TreeFacts
    <2>4. Edited(text).edits = text.edits \cup {edits + 1}
      BY <1>1, <2>1, <2>3, NewEditFacts, EditedText
    <2>5. tree[p] = Edited(text)
      BY <2>2, TreeFacts DEF WithSidebar
    <2> HIDE DEF tree
    <2>6. objects'[new] = c
      BY <2>1, <2>2, AppendProperties
    <2>7. TreeAt(new)' = tree /\ new \in Past(remote)'
      BY <2>1, <2>6 DEF TreeAt, Past
    <2>8. edits + 1 \in EditsIn(tree)
      BY <2>4, <2>5, PageEdits
    <2>9. EditsIn(TreeAt(new))' = EditsIn(tree)
      BY <2>7 DEF EditsIn
    <2>10. QED
      BY <2>1, <2>7, <2>8, <2>9 DEF Committed
  <1>12. CASE UNCHANGED <<work, edits>>
    BY <1>12
  <1>13. QED
    <2>1. \/ UNCHANGED <<work, edits>>
          \/ CreatePage \/ UpdatePage \/ DeletePage \/ WriteSidebar \/ Conclude \/ FastForward
          \/ \E p \in Page : EditFile(p) \/ OtherPush(p)
          \/ Terminal
      BY DEF Next, Process, Request, Begin, Check, Refuse, RefuseWrite, CommitSave, Fetch,
         NoFetch, UpToDate, FastForwardFails, HandOff, Push, PushFails, PushRaced,
         RefuseConclude, CommitMerge, Crash, Open, Reload, vars
    <2>2. QED
      BY <2>1, <1>2, <1>3, <1>4, <1>5, <1>6, <1>7, <1>8, <1>9, <1>10, <1>11, <1>12 DEF Terminal

\* Every step keeps every edit somewhere.
LEMMA NoWorkLostStep ==
    ASSUME IInv, [Next]_vars
    PROVE  NoWorkLost'
  <1>1. 1 .. edits \subseteq EditsIn(work) \cup Committed
    BY DEF IInv, NoWorkLost, Committed
  <1>2. Committed \subseteq Committed'
    BY CommittedGrows
  <1>3. edits \in Nat
    BY DEF IInv, TypeOK
  <1>4. 1 .. edits' \subseteq EditsIn(work') \cup Committed'
    BY <1>1, <1>2, <1>3, WorkKept
  <1>5. EditsIn(work)' = EditsIn(work')
    BY DEF EditsIn
  <1>6. QED
    BY <1>4, <1>5 DEF NoWorkLost, Committed

-----------------------------------------------------------------------------
(* The invariant *)

\* The invariant holds at the start,
LEMMA InitIInv == Init => IInv
  <1> SUFFICES ASSUME Init PROVE IInv
    OBVIOUS
  <1> DEFINE c == [by |-> "start", page |-> Sidebar, other |-> 0, past |-> {1},
                   tree |-> FirstTree]
  <1>1. /\ objects = <<c>>
        /\ head = 1 /\ branch = 1 /\ upstream = 1 /\ remote = 1
        /\ attached = TRUE /\ tracking \in BOOLEAN
        /\ work = FirstTree /\ loaded = FirstTree
        /\ unmerged = {} /\ merging = 0
        /\ pc = "idle" /\ op = NoOp /\ attempt = 0 /\ outcome = "none"
        /\ edits = 0
    BY DEF Init
  <1>2. c \in Commit /\ c.past = {1} /\ c.tree = FirstTree /\ c.other = 0
    BY FirstTreeFacts DEF Commit, File
  <1> HIDE DEF c
  <1>3. objects \in Seq(Commit) /\ DOMAIN objects = {1} /\ objects[1] = c
    BY <1>1, <1>2
  <1>4. TypeOK
    BY <1>1, <1>3, FirstTreeFacts, NoOpTyped DEF TypeOK, Commit
  <1>5. Operation /\ Undisturbed /\ Differences /\ OpenMerge
    BY <1>1, FirstTreeFacts, NoOpTyped DEF Operation, Undisturbed, Differences, OpenMerge, Mutations
  <1>6. Pasts
    BY <1>1, <1>2, <1>3 DEF Pasts, Past
  <1>7. Marks
    BY <1>1, <1>2, <1>3, FirstTreeFacts DEF Marks, TreeAt
  <1>8. MergeNotAbsorbed
    BY <1>2, <1>3 DEF MergeNotAbsorbed
  <1>9. NoWorkLost
    BY <1>1 DEF NoWorkLost
  <1>10. QED
    BY <1>4, <1>5, <1>6, <1>7, <1>8, <1>9 DEF IInv

\* and every step keeps it.
LEMMA NextIInv == IInv /\ [Next]_vars => IInv'
  <1> SUFFICES ASSUME IInv, [Next]_vars PROVE IInv'
    OBVIOUS
  <1>1. Pasts' /\ MergeNotAbsorbed'
    BY GitStepHolds DEF GitStep, GitOK
  <1>2. QED
    BY <1>1, TypeStep, UndisturbedStep, OpenMergeStep, MarksStep, DifferencesStep,
       NoWorkLostStep DEF IInv

\* The invariant that carries all that follows.
THEOREM Inductive == Spec => []IInv
  BY InitIInv, NextIInv, PTL DEF Spec

-----------------------------------------------------------------------------
(* The state properties *)

\* git's and the process's state have their types, whatever the order of
\* saves, outside edits, syncs, crashes and git commands.
THEOREM TypeCorrect == Spec => []TypeOK
  <1>1. IInv => TypeOK
    BY DEF IInv
  <1>2. QED
    BY <1>1, Inductive, PTL

\* INV-4: no edit ever leaves the working tree and both histories.
THEOREM WorkIsKept == Spec => []NoWorkLost
  <1>1. IInv => NoWorkLost
    BY DEF IInv
  <1>2. QED
    BY <1>1, Inductive, PTL

\* BerryWiki commits no conflict markers.
THEOREM ConflictsStayOut == Spec => []NoMarkersCommitted
  <1>1. IInv => NoMarkersCommitted
    BY DEF IInv, Marks, NoMarkersCommitted, Made
  <1>2. QED
    BY <1>1, Inductive, PTL

\* No save and no checkpoint concludes a merge someone else has open.
THEOREM MergesAreTheirOwn == Spec => []MergeNotAbsorbed
  <1>1. IInv => MergeNotAbsorbed
    BY DEF IInv
  <1>2. QED
    BY <1>1, Inductive, PTL

-----------------------------------------------------------------------------
(* The action properties *)

\* Who makes a commit.
LEMMA Makers ==
    ASSUME IInv, [Next]_vars, Makes({"save", "merge"})
    PROVE  \/ /\ CommitSave
              /\ CommitMade("save", op.page, work, 0)
              /\ objects'[Len(objects')].by = "save"
           \/ /\ CommitMerge
              /\ CommitMade("merge", Sidebar, work, upstream)
              /\ objects'[Len(objects')].by = "merge"
  <1>1. TypeOK /\ Len(objects) \in Nat
    BY Commits DEF IInv
  <1>2. Len(objects') > Len(objects) /\ objects'[Len(objects')].by \in {"save", "merge"}
    BY DEF Makes
  <1>3. ASSUME NEW by \in {"save", "checkpoint", "merge", "person"}, NEW page \in File,
               NEW tree \in Tree, NEW other \in {0} \cup DOMAIN objects,
               CommitOn(by, page, tree, other)
        PROVE  /\ CommitMade(by, page, tree, other)
               /\ objects'[Len(objects')].by = by
    <2>1. CommitMade(by, page, tree, other)
      BY <1>1, <1>3, CommitOnFacts
    <2>2. objects' \in Seq(Commit) /\ DOMAIN objects' = DOMAIN objects \cup {Len(objects) + 1}
          /\ objects'[Len(objects) + 1].by = by
      BY <2>1 DEF CommitMade
    <2>3. Len(objects') = Len(objects) + 1
      <3>1. DOMAIN objects' = 1 .. Len(objects') /\ Len(objects') \in Nat
        BY <2>2, LenProperties
      <3>2. DOMAIN objects = 1 .. Len(objects)
        BY <1>1, Commits
      <3>3. Len(objects') \in 1 .. Len(objects) + 1
        BY <1>1, <1>2, <2>2, <3>1, <3>2
      <3>4. QED
        BY <1>1, <1>2, <3>3
    <2>4. QED
      BY <2>1, <2>2, <2>3
  <1>4. work \in Tree /\ Sidebar \in File /\ merging \in {0} \cup DOMAIN objects
        /\ upstream \in DOMAIN objects
    BY <1>1 DEF TypeOK, File
  <1>5. CASE Check
    <2>1. \/ objects' = objects
          \/ CommitOn("checkpoint", Sidebar, work, merging)
      BY <1>5 DEF Check, CommitAll, CommitTree
    <2>2. QED
      BY <1>1, <1>2, <1>3, <1>4, <2>1
  <1>6. CASE CommitSave
    <2>1. pc = "commit" /\ (objects' = objects \/ CommitOn("save", op.page, work, merging))
      BY <1>6 DEF CommitSave, CommitAll, CommitTree
    <2>2. op.page \in File /\ merging = 0
      BY <2>1 DEF IInv, Operation, Undisturbed, Refused, MergeInProgress, File
    <2>3. CommitOn("save", op.page, work, 0)
      BY <1>1, <1>2, <2>1, <2>2
    <2>4. QED
      BY <1>3, <1>4, <1>6, <2>2, <2>3
  <1>7. CASE CommitMerge
    <2>1. CommitOn("merge", Sidebar, work, upstream)
      BY <1>7, CommitMergeStep
    <2>2. QED
      BY <1>3, <1>4, <1>7, <2>1
  <1>8. CASE Terminal
    <2>1. CASE StartMerge
      <3>1. CommitOn("person", Sidebar, work', upstream) \/ objects' = objects
        BY <1>1, <2>1, StartMergeFacts
      <3>2. work' \in Tree
        BY TypeStep DEF TypeOK
      <3>3. QED
        <4>1. PICK tree \in Tree : CommitOn("person", Sidebar, tree, upstream) \/ objects' = objects
          BY <3>1, <3>2
        <4>2. QED
          BY <1>1, <1>2, <1>3, <1>4, <4>1
    <2>2. CASE PersonCommits
      BY <1>1, <1>2, <1>3, <1>4, <2>2 DEF PersonCommits, CommitTree
    <2>3. QED
      BY <1>1, <1>2, <1>8, <2>1, <2>2 DEF Terminal, PopStash, Settle, AbortMerge, Detach, Attach
  <1>9. ASSUME NEW p \in Page, OtherPush(p) PROVE FALSE
    <2> DEFINE tree == [TreeAt(remote) EXCEPT ![p] = Edited(@)]
               c == [by |-> "other", page |-> p, other |-> 0,
                     past |-> Past(remote) \cup {Len(objects) + 1}, tree |-> WithSidebar(tree)]
    <2>1. objects' = Append(objects, c) /\ c.by = "other"
      BY <1>9 DEF OtherPush
    <2> HIDE DEF c
    <2>2. Len(objects') = Len(objects) + 1 /\ objects'[Len(objects) + 1] = c
      BY <1>1, <2>1, Commits, AppendProperties
    <2>3. QED
      BY <1>2, <2>1, <2>2
  <1>10. CASE UNCHANGED <<git, far>> \/ Fetch \/ FastForward \/ Push
    BY <1>1, <1>2, <1>10 DEF git, Fetch, FastForward, Push
  <1>11. QED
    BY <1>5, <1>6, <1>7, <1>8, <1>9, <1>10, Steps

\* A save's commit changes the page saved and the sidebar only.
LEMMA SaveStep ==
    ASSUME IInv, [Next]_vars, Makes({"save"})
    PROVE  Changed(TreeAt(head), objects'[head'].tree) \subseteq {op.page, Sidebar} \cup op.late
  <1>1. /\ CommitSave /\ CommitMade("save", op.page, work, 0)
    BY Makers DEF Makes
  <1>2. objects'[head'].tree = work
    BY <1>1 DEF CommitMade
  <1>3. QED
    BY <1>1, <1>2 DEF CommitSave, IInv, Differences

\* A save's commit changes the page it saved and the sidebar, and beyond them only pages edited
\* outside since the check.
THEOREM SavesAreOneCommit == Spec => OneCommitPerSave
  <1>1. IInv /\ [Next]_vars =>
           [Makes({"save"}) =>
              Changed(TreeAt(head), objects'[head'].tree)
                 \subseteq {op.page, Sidebar} \cup op.late]_vars
    BY SaveStep
  <1>2. QED
    BY <1>1, Inductive, PTL DEF Spec, OneCommitPerSave

\* The sidebar of a save's commit and of a merge's lists the pages they hold.
LEMMA SidebarStep ==
    ASSUME IInv, [Next]_vars, Makes({"save", "merge"})
    PROVE  LET tree == objects'[head'].tree
           IN  /\ ~tree[Sidebar].marked
               /\ tree[Sidebar].lists \ op.late = Pages(tree) \ op.late
  <1>1. work \in Tree /\ TypeOK /\ Operation /\ Differences /\ OpenMerge
    BY DEF IInv, TypeOK
  <1>2. objects'[head'].tree = work
    BY Makers DEF CommitMade
  <1>3. CASE CommitSave
    <2>1. /\ pc = "commit" /\ loaded \in Tree
          /\ \A p \in Page \ op.late : loaded[p].there = work[p].there
          /\ work[Sidebar] = Listing(loaded)
      BY <1>1, <1>3 DEF CommitSave, Differences, Operation
    <2>2. ~work[Sidebar].marked /\ work[Sidebar].lists = Pages(loaded)
      BY <2>1, ListingFacts
    <2>3. Pages(loaded) \ op.late = Pages(work) \ op.late
      BY <2>1 DEF Pages
    <2>4. QED
      BY <1>2, <2>2, <2>3
  <1>4. CASE CommitMerge
    <2>1. work[Sidebar] = Listing(work)
      BY <1>1, <1>4 DEF CommitMerge, OpenMerge
    <2>2. ~work[Sidebar].marked /\ work[Sidebar].lists = Pages(work)
      BY <1>1, <2>1, ListingFacts
    <2>3. QED
      BY <1>2, <2>2
  <1>5. QED
    BY <1>3, <1>4, Makers

\* INV-3, in the commit itself.
THEOREM SidebarsAreCommitted == Spec => SidebarInSameCommit
  <1>1. IInv /\ [Next]_vars =>
           [Makes({"save", "merge"}) =>
              LET tree == objects'[head'].tree
              IN  /\ ~tree[Sidebar].marked
                  /\ tree[Sidebar].lists \ op.late = Pages(tree) \ op.late]_vars
    BY SidebarStep
  <1>2. QED
    BY <1>1, Inductive, PTL DEF Spec, SidebarInSameCommit

\* The process's own write keeps every edit of a page that is there.
LEMMA WriteStep ==
    ASSUME IInv, [Next]_vars, pc = "write"
    PROVE  \A p \in Pages(work) : work[p].edits \subseteq work'[p].edits
  <1>1. TypeOK /\ Operation
    BY DEF IInv
  <1>2. CASE CreatePage \/ UpdatePage \/ DeletePage
    <2>1. PICK p \in Page, x \in Text :
             /\ work'[p] = x
             /\ \A f \in File \ {p} : work'[f] = work[f]
             /\ CreatePage \/ work[p].edits \subseteq x.edits
             /\ CreatePage => ~work[p].there
      BY <1>1, <1>2, PageWritten
    <2>2. QED
      BY <2>1 DEF Pages, File
  <1>3. ASSUME NEW p \in Page, EditFile(p)
        PROVE  \A q \in Pages(work) : work[q].edits \subseteq work'[q].edits
    BY <1>1, <1>3, EditFacts DEF Pages, File
  <1>4. CASE UNCHANGED <<work, unmerged>>
    BY <1>4
  <1>5. QED
    BY <1>2, <1>3, <1>4, WorkSteps DEF Check, CommitSave, CommitMerge, WriteSidebar,
       Conclude, FastForward, AtRest

\* A save never trusts the text a checkpoint committed in between.
THEOREM SavesClobberNothing == Spec => NoClobber
  <1>1. IInv /\ [Next]_vars =>
           [pc = "write" =>
              \A p \in Pages(work) : work[p].edits \subseteq work'[p].edits]_vars
    BY WriteStep
  <1>2. QED
    BY <1>1, Inductive, PTL DEF Spec, NoClobber

\* A divergence reported is one.
LEMMA DivergedStep ==
    ASSUME IInv, [Next]_vars, outcome # "diverged", outcome' = "diverged"
    PROVE  /\ Behind # {} /\ (Ahead # {} \/ op.late # {})
           /\ op.late = {} => work = TreeAt(head)
           /\ UNCHANGED <<git, work, far>>
  <1>1. HandOff \/ FastForwardFails
    BY DEF Next, Process, Request, Begin, Refuse, RefuseWrite, Check, AfterCheck,
       CreatePage, UpdatePage, DeletePage, WritePage, WriteSidebar, CommitSave,
       Fetch, NoFetch, UpToDate, FastForward, Push, PushFails,
       PushRaced, RefuseConclude, Conclude, CommitMerge, Crash, Open, Reload, EditFile,
       OtherPush, End, Terminal, PopStash, Settle, StartMerge, AbortMerge, PersonCommits,
       Detach, Attach, proc, vars
  <1>2. pc = "advance" /\ UNCHANGED <<git, work, far>>
    BY <1>1 DEF HandOff, FastForwardFails
  <1>3. Changed(TreeAt(head), work) \subseteq op.late /\ unmerged = {} /\ merging = 0
    BY <1>2 DEF IInv, Differences, Undisturbed, Refused, MergeInProgress, UnmergedPaths
  <1>4. work \in Tree /\ TreeAt(head) \in Tree
    BY Commits DEF IInv, TypeOK
  <1>5. work \in [File -> Text \cup List] /\ TreeAt(head) \in [File -> Text \cup List]
    BY <1>4, TreeFacts
  <1>6. ASSUME op.late = {} PROVE work = TreeAt(head)
    <2>1. \A f \in File : work[f] = TreeAt(head)[f]
      BY <1>3, <1>6 DEF Changed
    <2>2. QED
      BY <1>5, <2>1
  <1>7. Behind # {} /\ (Ahead # {} \/ op.late # {})
    <2>1. CASE HandOff
      BY <2>1 DEF HandOff
    <2>2. CASE FastForwardFails
      <3>1. PICK f \in File : work[f] # TreeAt(head)[f]
        BY <1>3, <2>2 DEF FastForwardFails, InTheWay, Changed
      <3>2. QED
        BY <1>3, <2>2, <3>1 DEF FastForwardFails, CanFastForward, Changed
    <2>3. QED
      BY <1>1, <2>1, <2>2
  <1>8. QED
    BY <1>2, <1>6, <1>7

\* Histories are reported as diverged only when the remote has a commit this clone has not, and
\* this clone has one of its own or was edited outside meanwhile; nothing is changed then.
THEOREM DivergencesAreReal == Spec => DivergedIsTrue
  <1>1. IInv /\ [Next]_vars =>
           [outcome # "diverged" /\ outcome' = "diverged" =>
              /\ Behind # {} /\ (Ahead # {} \/ op.late # {})
              /\ op.late = {} => work = TreeAt(head)
              /\ UNCHANGED <<git, work, far>>]_vars
    BY DivergedStep
  <1>2. QED
    BY <1>1, Inductive, PTL DEF Spec, DivergedIsTrue

-----------------------------------------------------------------------------
(* The refinement *)

\* The clone's branch, what it has seen of the remote and the remote only grow,
\* the remote only by what extends it: every step is a step of WikiHistory.
THEOREM HistoryIsKept == Spec => KeepsHistory
  <1>1. Init => History!Init
    BY DEF Init, History!Init, Past
  <1>2. IInv /\ [Next]_vars => [History!Next]_History!vars
    BY GitStepHolds DEF GitStep, History!vars
  <1>3. QED
    BY <1>1, <1>2, Inductive, PTL DEF Spec, KeepsHistory, History!Spec
=============================================================================
