-------------------------- MODULE LocalStoreProofs --------------------------
(***************************************************************************)
(* For every set of pages, every starting folder and every bound on the    *)
(* operations, edits and crashes: the store's state stays well typed, no   *)
(* page is lost, the last text of every page stays in the folder, links    *)
(* that resolve go on resolving to the page they mean, and a recovered     *)
(* move is all or nothing, across moves, crashes at any step, recoveries   *)
(* (themselves interrupted) and outside edits.                             *)
(***************************************************************************)
EXTENDS LocalStore, TLAPS

-----------------------------------------------------------------------------
(* Folders and journals *)

\* Touching files only ever lowers the marks of the journal and the store.
LEMMA TouchFacts ==
    ASSUME NEW S, Touch(S), journal \subseteq Rename
    PROVE  /\ journal' \subseteq Rename
           /\ NewNames' = NewNames /\ OldNames' = OldNames
           /\ \A x \in journal' : \E e \in journal :
                /\ x.old = e.old /\ x.new = e.new
                /\ x.same => e.same /\ e.old \notin S
           /\ stale' = stale \cup (S \cap DOMAIN loaded)
           /\ journal = {} => journal' = {}
  <1> DEFINE low(e) == [e EXCEPT !.same = @ /\ e.old \notin S]
  <1>1. journal' = {low(e) : e \in journal}
    BY DEF Touch
  <1>2. ASSUME NEW e \in journal
        PROVE  /\ low(e) \in Rename
               /\ low(e).old = e.old /\ low(e).new = e.new
               /\ low(e).same => e.same /\ e.old \notin S
    BY DEF Rename
  <1> HIDE DEF low
  <1>3. NewNames' = NewNames /\ OldNames' = OldNames
    BY <1>1, <1>2 DEF NewNames, OldNames
  <1>4. QED
    BY <1>1, <1>2, <1>3 DEF Touch

\* Rewriting links changes neither the page's identity nor its text.
LEMMA RelinkFacts ==
    ASSUME NEW R, NEW x \in Page,
           \A r \in R : r[2] \in File
    PROVE  Relink(R, x) \in Page /\ Alike(Relink(R, x), x) /\ Relink(R, x).parent = x.parent
  <1> DEFINE links == {[l EXCEPT !.stem = Renamed(R, l.stem)] : l \in x.links}
  <1>1. Relink(R, x) = [x EXCEPT !.links = links]
    BY DEF Relink
  <1>2. ASSUME NEW g \in File PROVE Renamed(R, g) \in File
    BY DEF Renamed
  <1>3. links \subseteq Link
    BY <1>2 DEF Page, Link
  <1> HIDE DEF links
  <1>4. QED
    BY <1>1, <1>3 DEF Page, Alike
-----------------------------------------------------------------------------
(* The invariant holds at the start *)

\* Any starting folder satisfies the inductive invariant.
LEMMA InitIInv == Init => IInv
  <1> SUFFICES ASSUME Init PROVE IInv
    OBVIOUS
  <1> USE DEF Init
  <1>1. TypeOK
    <2>1. latest \in [PageId -> Nat \cup {Gone}]
      OBVIOUS
    <2>2. QED
      BY <2>1, StoreAssumption DEF TypeOK, Phase, NoPlan
  <1>2. PlanTyped
    BY DEF PlanTyped, NoPlan, Empty
  <1>3. FingerprintsTrue
    BY DEF FingerprintsTrue
  <1>4. PlanSafe
    BY DEF PlanSafe, NoPlan, Empty
  <1>5. CopiesAlike /\ JournalPhase
    BY DEF CopiesAlike, JournalPhase
  <1>6. TextSafe
    BY StoreAssumption DEF TextSafe, Alive, Ids, Carriers, AllNew, NewNames
  <1>7. QED
    BY <1>1, <1>2, <1>3, <1>4, <1>5, <1>6 DEF IInv

-----------------------------------------------------------------------------
(* Steps of a move *)

\* Overwriting or adding one file of the plan: nothing is lost as long as an
\* existing file keeps its page and text.
LEMMA WritePlanned ==
    ASSUME IInv, pc = "moving", NEW f \in File, NEW x \in Page,
           f \in DOMAIN disk => Alike(x, disk[f]),
           \A e \in journal : e.new = f /\ e.old \in DOMAIN disk => Alike(x, disk[e.old]),
           disk' = Put(disk, f, x), Touch({f}),
           plan' \in {[plan EXCEPT !.pages = Without(@, {f})],
                     [plan EXCEPT !.links = Without(@, {f})]},
           f \notin DOMAIN plan'.pages, f \in OldNames => f \in DOMAIN disk,
           UNCHANGED <<loaded, pc, latest>>
    PROVE  IInv'
  <1>1. /\ DOMAIN disk' = DOMAIN disk \cup {f}
        /\ disk'[f] = x
        /\ \A g \in DOMAIN disk : g # f => disk'[g] = disk[g]
    BY DEF Put
  <1>2. \A g \in DOMAIN disk : Alike(disk'[g], disk[g])
    BY <1>1 DEF Alike
  <1>3. journal \subseteq Rename
    BY DEF IInv, TypeOK
  <1>4. /\ journal' \subseteq Rename
        /\ NewNames' = NewNames /\ OldNames' = OldNames
        /\ \A z \in journal' : \E e \in journal :
              /\ z.old = e.old /\ z.new = e.new
              /\ z.same => e.same /\ e.old \notin {f}
        /\ stale' = stale \cup ({f} \cap DOMAIN loaded)
        /\ journal = {} => journal' = {}
    BY <1>3, TouchFacts
  <1>5. /\ DOMAIN plan'.pages \subseteq DOMAIN plan.pages
        /\ DOMAIN plan.pages \ {f} \subseteq DOMAIN plan'.pages
        /\ \A g \in DOMAIN plan'.pages : plan'.pages[g] = plan.pages[g]
        /\ DOMAIN plan'.links \subseteq DOMAIN plan.links
        /\ \A g \in DOMAIN plan'.links : plan'.links[g] = plan.links[g]
        /\ plan'.deletes = plan.deletes
        /\ plan' = [pages |-> plan'.pages, links |-> plan'.links, deletes |-> plan'.deletes]
    BY DEF IInv, PlanTyped, Without
  <1>6. TypeOK'
    BY <1>1, <1>4 DEF IInv, TypeOK
  <1>7. PlanTyped'
    BY <1>5 DEF IInv, PlanTyped
  <1>8. FingerprintsTrue'
    BY <1>1, <1>4 DEF IInv, FingerprintsTrue
  <1>9. PlanSafe'
    <2>1. \A g \in DOMAIN plan'.pages \cap DOMAIN disk' :
             Alike(plan'.pages[g], disk'[g])
      BY <1>1, <1>5 DEF IInv, PlanSafe
    <2>2. \A g \in DOMAIN plan'.links :
             g \in DOMAIN disk' /\ Alike(plan'.links[g], disk'[g])
      BY <1>1, <1>2, <1>5 DEF IInv, PlanSafe, Alike
    <2>3. \A z \in journal' : z.new \in DOMAIN plan'.pages =>
             z.old \in DOMAIN disk' /\ Alike(plan'.pages[z.new], disk'[z.old])
      BY <1>1, <1>2, <1>4, <1>5 DEF IInv, PlanSafe, Alike
    <2>4. /\ DOMAIN plan'.pages \cap OldNames' \subseteq DOMAIN disk'
          /\ NewNames' \ DOMAIN disk' \subseteq DOMAIN plan'.pages
          /\ plan'.deletes \subseteq OldNames' \ NewNames'
      BY <1>1, <1>4, <1>5 DEF IInv, PlanSafe
    <2>5. QED
      BY <2>1, <2>2, <2>3, <2>4 DEF PlanSafe
  <1>10. CopiesAlike'
    <2> SUFFICES ASSUME NEW z \in journal', {z.old, z.new} \subseteq DOMAIN disk'
                 PROVE  Alike(disk'[z.old], disk'[z.new])
      BY DEF CopiesAlike
    <2>1. PICK e \in journal : z.old = e.old /\ z.new = e.new
      BY <1>4
    <2>2. e.old \in DOMAIN disk
      BY <1>1, <2>1 DEF OldNames
    <2>3. CASE e.new = f
      BY <1>1, <1>2, <2>1, <2>2, <2>3 DEF Alike
    <2>4. CASE e.new # f
      BY <1>1, <1>2, <2>1, <2>2, <2>4 DEF IInv, CopiesAlike, Alike
    <2>5. QED
      BY <2>3, <2>4
  <1>11. JournalPhase'
    BY DEF IInv, JournalPhase
  <1>12. TextSafe'
    BY <1>1, <1>2, <1>4 DEF IInv, TextSafe, Alike, Carriers, AllNew, Alive
  <1>13. QED
    BY <1>6, <1>7, <1>8, <1>9, <1>10, <1>11, <1>12 DEF IInv

\* Writing a page of the subtree under its new name.
LEMMA WriteMovedPageStep ==
    ASSUME IInv, NEW f \in DOMAIN plan.pages, WriteMovedPage(f)
    PROVE  IInv'
  <1>1. f \in File /\ plan.pages[f] \in Page
    BY DEF IInv, PlanTyped
  <1>2. /\ f \in DOMAIN disk => Alike(plan.pages[f], disk[f])
        /\ \A e \in journal : e.new = f /\ e.old \in DOMAIN disk =>
              Alike(plan.pages[f], disk[e.old])
        /\ f \in OldNames => f \in DOMAIN disk
    BY DEF IInv, PlanSafe
  <1>3. plan' = [plan EXCEPT !.pages = Without(@, {f})]
    BY DEF WriteMovedPage
  <1>4. f \notin DOMAIN plan'.pages
    BY <1>3 DEF IInv, PlanTyped, Without
  <1>5. QED
    BY <1>1, <1>2, <1>3, <1>4, WritePlanned DEF WriteMovedPage

\* Rewriting the links of a page outside the subtree.
LEMMA RewriteInboundLinksStep ==
    ASSUME IInv, NEW f \in DOMAIN plan.links, RewriteInboundLinks(f)
    PROVE  IInv'
  <1>1. f \in File /\ plan.links[f] \in Page
    BY DEF IInv, PlanTyped
  <1>2. f \in DOMAIN disk /\ Alike(plan.links[f], disk[f])
    BY DEF IInv, PlanSafe
  <1>3. DOMAIN plan.pages = {}
    BY DEF RewriteInboundLinks, Empty
  <1>4. plan' = [plan EXCEPT !.links = Without(@, {f})]
    BY DEF RewriteInboundLinks
  <1>5. f \notin DOMAIN plan'.pages
    BY <1>3, <1>4 DEF IInv, PlanTyped
  <1>6. \A e \in journal :
           e.new = f /\ e.old \in DOMAIN disk => Alike(plan.links[f], disk[e.old])
    BY <1>2 DEF RewriteInboundLinks, IInv, CopiesAlike, Alike
  <1>7. QED
    BY <1>1, <1>2, <1>4, <1>5, <1>6, WritePlanned DEF RewriteInboundLinks

-----------------------------------------------------------------------------
(* Removing and healing files *)

\* Removing one file: safe when no page has its last text only there.
LEMMA RemoveFile ==
    ASSUME IInv, NEW f,
           disk' = Without(disk, {f}), Touch({f}),
           AllNew => f \notin NewNames,
           \A p \in PageId : Alive(p) =>
              \E g \in Carriers(disk, p) \ {f} :
                 disk[g].text = latest[p] /\ (g \in NewNames => AllNew),
           \/ plan' = plan /\ plan = NoPlan
           \/ pc = "moving" /\ plan.pages = Empty /\ plan.links = Empty
              /\ plan' = [plan EXCEPT !.deletes = @ \ {f}],
           UNCHANGED <<loaded, pc, latest>>
    PROVE  IInv'
  <1>1. /\ DOMAIN disk' = DOMAIN disk \ {f}
        /\ \A g \in DOMAIN disk : g # f => disk'[g] = disk[g]
    BY DEF Without
  <1>2. journal \subseteq Rename
    BY DEF IInv, TypeOK
  <1>3. /\ journal' \subseteq Rename
        /\ NewNames' = NewNames /\ OldNames' = OldNames
        /\ \A z \in journal' : \E e \in journal :
              /\ z.old = e.old /\ z.new = e.new
              /\ z.same => e.same /\ e.old \notin {f}
        /\ stale' = stale \cup ({f} \cap DOMAIN loaded)
        /\ journal = {} => journal' = {}
    BY <1>2, TouchFacts
  <1>4. AllNew' <=> AllNew
    BY <1>1, <1>3 DEF AllNew
  <1>5. /\ DOMAIN plan'.pages = {} /\ DOMAIN plan'.links = {}
        /\ plan'.deletes \subseteq plan.deletes
        /\ DOMAIN plan.pages = {}
        /\ plan' = [pages |-> plan'.pages, links |-> plan'.links, deletes |-> plan'.deletes]
    BY DEF IInv, PlanTyped, NoPlan, Empty
  <1>6. TypeOK'
    BY <1>1, <1>3 DEF IInv, TypeOK, NoPlan
  <1>7. PlanTyped'
    BY <1>5 DEF PlanTyped
  <1>8. FingerprintsTrue'
    BY <1>1, <1>3 DEF IInv, FingerprintsTrue
  <1>9. PlanSafe'
    BY <1>1, <1>3, <1>4, <1>5 DEF IInv, PlanSafe, AllNew
  <1>10. CopiesAlike'
    <2> SUFFICES ASSUME NEW z \in journal', z.same \/ pc' = "moving",
                        {z.old, z.new} \subseteq DOMAIN disk'
                 PROVE  Alike(disk'[z.old], disk'[z.new])
      BY DEF CopiesAlike
    <2>1. PICK e \in journal : z.old = e.old /\ z.new = e.new /\ (z.same => e.same)
      BY <1>3
    <2>2. e.same \/ pc = "moving"
      BY <2>1
    <2>3. /\ {e.old, e.new} \subseteq DOMAIN disk
          /\ disk'[e.old] = disk[e.old] /\ disk'[e.new] = disk[e.new]
      BY <1>1, <2>1
    <2>4. Alike(disk[e.old], disk[e.new])
      BY <2>2, <2>3 DEF IInv, CopiesAlike
    <2>5. QED
      BY <2>1, <2>3, <2>4
  <1>11. JournalPhase'
    BY <1>3, <1>4 DEF IInv, JournalPhase
  <1>12. TextSafe'
    BY <1>1, <1>3, <1>4, ZenonT(20) DEF TextSafe, Carriers, Alive
  <1>13. QED
    BY <1>6, <1>7, <1>8, <1>9, <1>10, <1>11, <1>12 DEF IInv

\* An old file with an unchanged new copy may go.
LEMMA CopiedFileNotNeeded ==
    ASSUME IInv, NEW e \in journal, e.same \/ pc = "moving", AllNew, e.old \notin NewNames,
           NEW p \in PageId, Alive(p)
    PROVE  \E g \in Carriers(disk, p) \ {e.old} :
              disk[g].text = latest[p] /\ (g \in NewNames => AllNew)
  <1>1. PICK f \in Carriers(disk, p) : disk[f].text = latest[p]
    BY DEF IInv, TextSafe
  <1>2. CASE f # e.old
    BY <1>1, <1>2
  <1>3. CASE f = e.old
    <2>1. e.new \in NewNames /\ e.new \in DOMAIN disk
      BY DEF NewNames, AllNew
    <2>2. Alike(disk[e.old], disk[e.new])
      BY <1>1, <1>3, <2>1 DEF IInv, CopiesAlike, Carriers
    <2>3. e.new \in Carriers(disk, p) \ {e.old} /\ disk[e.new].text = latest[p]
      BY <1>1, <1>3, <2>1, <2>2 DEF Alike, Carriers
    <2>4. QED
      BY <2>3
  <1>4. QED
    BY <1>2, <1>3

\* apply_move removes an old file.
LEMMA RemoveOldFileStep ==
    ASSUME IInv, NEW f \in plan.deletes, RemoveOldFile(f)
    PROVE  IInv'
  <1>1. DOMAIN plan.pages = {}
    BY DEF RemoveOldFile, Empty
  <1>2. AllNew /\ f \in OldNames \ NewNames
    BY <1>1 DEF RemoveOldFile, IInv, PlanSafe, AllNew
  <1>3. PICK e \in journal : e.old = f
    BY <1>2 DEF OldNames
  <1>4. \A p \in PageId : Alive(p) =>
           \E g \in Carriers(disk, p) \ {f} :
              disk[g].text = latest[p] /\ (g \in NewNames => AllNew)
    BY <1>2, <1>3, CopiedFileNotNeeded DEF RemoveOldFile
  <1>5. QED
    BY <1>2, <1>4, RemoveFile DEF RemoveOldFile

\* Recovery rewrites the links of one file.
LEMMA HealFile ==
    ASSUME IInv, pc \in {"forward", "back"}, NEW R, \A r \in R : r[2] \in File,
           NEW f \in DOMAIN disk,
           disk' = Put(disk, f, Relink(R, disk[f])), Touch({f}),
           UNCHANGED <<loaded, pc, plan, latest>>
    PROVE  IInv'
  <1>1. /\ disk[f] \in Page /\ f \in File
        /\ plan = NoPlan
    BY DEF IInv, TypeOK
  <1>2. Relink(R, disk[f]) \in Page /\ Alike(Relink(R, disk[f]), disk[f])
    BY <1>1, RelinkFacts
  <1>3. /\ DOMAIN disk' = DOMAIN disk
        /\ disk'[f] \in Page
        /\ \A g \in DOMAIN disk : g # f => disk'[g] = disk[g]
        /\ \A g \in DOMAIN disk : Alike(disk'[g], disk[g])
    BY <1>2 DEF Put, Alike
  <1>4. journal \subseteq Rename
    BY DEF IInv, TypeOK
  <1>5. /\ journal' \subseteq Rename
        /\ NewNames' = NewNames /\ OldNames' = OldNames
        /\ \A z \in journal' : \E e \in journal :
              /\ z.old = e.old /\ z.new = e.new
              /\ z.same => e.same /\ e.old \notin {f}
        /\ stale' = stale \cup ({f} \cap DOMAIN loaded)
        /\ journal = {} => journal' = {}
    BY <1>4, TouchFacts
  <1>6. AllNew' <=> AllNew
    BY <1>3, <1>5 DEF AllNew
  <1>7. TypeOK'
    BY <1>1, <1>3, <1>5 DEF IInv, TypeOK
  <1>8. PlanTyped' /\ FingerprintsTrue'
    BY <1>3, <1>5 DEF IInv, PlanTyped, FingerprintsTrue
  <1>9. PlanSafe'
    BY <1>1, <1>5 DEF PlanSafe, NoPlan, Empty
  <1>10. CopiesAlike'
    BY <1>3, <1>5 DEF IInv, CopiesAlike, Alike
  <1>11. JournalPhase'
    BY <1>6 DEF IInv, JournalPhase
  <1>12. TextSafe'
    BY <1>3, <1>5, <1>6 DEF IInv, TextSafe, Alike, Carriers, Alive
  <1>13. QED
    BY <1>7, <1>8, <1>9, <1>10, <1>11, <1>12 DEF IInv

\* Files the links of the journal name are valid names.
LEMMA RenamesAreFiles ==
    ASSUME IInv
    PROVE  /\ \A r \in Renames : r[2] \in File
           /\ \A r \in Reverse(Renames) : r[2] \in File
  <1>1. \A e \in journal : e.old \in File /\ e.new \in File
    BY DEF IInv, TypeOK, Rename
  <1>2. \A r \in Renames : r[1] \in File /\ r[2] \in File
    BY <1>1 DEF Renames
  <1>3. QED
    BY <1>2 DEF Reverse

\* A roll-forward step: an unchanged old file goes, then links are healed.
LEMMA RollForwardStep ==
    ASSUME IInv, RollForward
    PROVE  IInv'
  <1>1. CASE \E f \in Leftover : disk' = Without(disk, {f}) /\ Touch({f})
    <2>1. PICK f \in Leftover : disk' = Without(disk, {f}) /\ Touch({f})
      BY <1>1
    <2>2. PICK e \in journal : e.same /\ e.old \notin NewNames /\ f = e.old
      BY <2>1 DEF Leftover
    <2>3. AllNew
      BY DEF RollForward, IInv, JournalPhase
    <2>4. \A p \in PageId : Alive(p) =>
             \E g \in Carriers(disk, p) \ {f} :
                disk[g].text = latest[p] /\ (g \in NewNames => AllNew)
      BY <2>2, <2>3, CopiedFileNotNeeded
    <2>5. plan = NoPlan
      BY DEF RollForward, IInv, TypeOK
    <2>6. QED
      BY <2>1, <2>2, <2>4, <2>5, RemoveFile DEF RollForward
  <1>2. CASE \E f \in Unhealed(Renames) :
                disk' = Put(disk, f, Relink(Renames, disk[f])) /\ Touch({f})
    <2>1. PICK f \in Unhealed(Renames) :
                disk' = Put(disk, f, Relink(Renames, disk[f])) /\ Touch({f})
      BY <1>2
    <2>2. f \in DOMAIN disk
      BY <2>1 DEF Unhealed
    <2>3. QED
      BY <2>1, <2>2, HealFile, RenamesAreFiles DEF RollForward
  <1>3. QED
    BY <1>1, <1>2 DEF RollForward

\* A roll-back step: a new file goes, then links are healed.
LEMMA RollBackStep ==
    ASSUME IInv, RollBack
    PROVE  IInv'
  <1>1. ~AllNew
    BY DEF RollBack, IInv, JournalPhase
  <1>2. CASE \E f \in Partial : disk' = Without(disk, {f}) /\ Touch({f})
    <2>1. PICK f \in Partial : disk' = Without(disk, {f}) /\ Touch({f})
      BY <1>2
    <2>2. f \in NewNames
      BY <2>1 DEF Partial
    <2>3. \A p \in PageId : Alive(p) =>
             \E g \in Carriers(disk, p) \ {f} :
                disk[g].text = latest[p] /\ (g \in NewNames => AllNew)
      BY <1>1, <2>2 DEF IInv, TextSafe
    <2>4. plan = NoPlan
      BY DEF RollBack, IInv, TypeOK
    <2>5. QED
      BY <1>1, <2>1, <2>3, <2>4, RemoveFile DEF RollBack
  <1>3. CASE \E f \in Unhealed(Reverse(Renames)) :
                disk' = Put(disk, f, Relink(Reverse(Renames), disk[f])) /\ Touch({f})
    <2>1. PICK f \in Unhealed(Reverse(Renames)) :
                disk' = Put(disk, f, Relink(Reverse(Renames), disk[f])) /\ Touch({f})
      BY <1>3
    <2>2. f \in DOMAIN disk
      BY <2>1 DEF Unhealed
    <2>3. QED
      BY <2>1, <2>2, HealFile, RenamesAreFiles DEF RollBack
  <1>4. QED
    BY <1>2, <1>3 DEF RollBack

-----------------------------------------------------------------------------
(* Loads, the sidebar and crashes: no file changes *)

\* Steps that leave the folder alone and end with the journal retired, kept
\* over a crash, or just read.
LEMMA QuietStep ==
    ASSUME IInv,
           \/ FinishMove \/ WriteSidebar \/ Reload \/ Crash
           \/ OpenClean \/ BeginRecovery \/ FinishRecovery
    PROVE  IInv'
  <1> USE DEF FinishMove, WriteSidebar, Reload, Crash, OpenClean, BeginRecovery,
              FinishRecovery, ReloadFrom
  <1>1. disk' = disk /\ latest' = latest
    OBVIOUS
  <1>2. journal' = journal \/ journal' = {}
    OBVIOUS
  <1>3. pc' # "moving" /\ plan' = NoPlan
    BY DEF IInv, TypeOK
  <1>4. \/ loaded' = loaded /\ stale' = stale
        \/ loaded' = disk /\ stale' = {}
        \/ loaded' = Empty /\ stale' = {}
    OBVIOUS
  <1>5. TypeOK'
    BY <1>1, <1>2, <1>3, <1>4 DEF IInv, TypeOK, Phase, Empty
  <1>6. PlanTyped'
    BY <1>3 DEF PlanTyped, NoPlan, Empty
  <1>7. FingerprintsTrue'
    BY <1>1, <1>4 DEF IInv, FingerprintsTrue, Empty
  <1>8. PlanSafe'
    BY <1>3 DEF PlanSafe, NoPlan, Empty
  <1>9. CopiesAlike'
    BY <1>1, <1>2, <1>3 DEF IInv, CopiesAlike
  <1>10. JournalPhase'
    BY DEF IInv, JournalPhase, AllNew, NewNames
  <1>11. TextSafe'
    BY <1>1, <1>2 DEF IInv, TextSafe, Carriers, Alive, AllNew, NewNames
  <1>12. QED
    BY <1>5, <1>6, <1>7, <1>8, <1>9, <1>10, <1>11 DEF IInv

-----------------------------------------------------------------------------
(* Operations on one file, and the owner's edits *)

\* While the store is idle no journal is open, so an operation that keeps
\* every other page's text keeps the invariant.
LEMMA IdleStep ==
    ASSUME IInv, pc = "idle",
           DOMAIN disk' \subseteq File, \A f \in DOMAIN disk' : disk'[f] \in Page,
           latest' \in [PageId -> Nat \cup {Gone}],
           journal' = {}, loaded' = disk', stale' = {}, pc' = "sidebar", plan' = plan,
           \A p \in PageId : latest'[p] > 0 =>
              \E f \in Carriers(disk', p) : disk'[f].text = latest'[p]
    PROVE  IInv'
  <1>1. plan' = NoPlan
    BY DEF IInv, TypeOK
  <1>2. TypeOK'
    BY <1>1 DEF TypeOK, Phase
  <1>3. PlanTyped' /\ PlanSafe'
    BY <1>1 DEF PlanTyped, PlanSafe, NoPlan, Empty
  <1>4. FingerprintsTrue' /\ CopiesAlike' /\ JournalPhase'
    BY DEF FingerprintsTrue, CopiesAlike, JournalPhase
  <1>5. TextSafe'
    BY DEF TextSafe, Alive, AllNew, NewNames, Carriers
  <1>6. QED
    BY <1>2, <1>3, <1>4, <1>5 DEF IInv

\* The one file of an unambiguous page is the page's.
LEMMA UnambiguousPath ==
    ASSUME NEW p, Unambiguous(p)
    PROVE  PathOf(loaded, p) \in DOMAIN loaded /\ loaded[PathOf(loaded, p)].id = p
  <1>1. PICK f \in DOMAIN loaded : Carriers(loaded, p) = {f}
    BY DEF Unambiguous
  <1>2. Addressed(loaded, p) = {f}
    BY <1>1 DEF Addressed
  <1>3. PathOf(loaded, p) = f
    BY <1>2 DEF PathOf
  <1>4. QED
    BY <1>1, <1>3 DEF Carriers

\* create_page
LEMMA CreateStep ==
    ASSUME IInv, NEW p \in PageId, NEW q \in Parent, NEW t \in TypedTitles, Create(p, q, t)
    PROVE  IInv'
  <1> DEFINE new == [id |-> p, parent |-> q, title |-> t, text |-> 1, links |-> {}]
  <1>1. new \in Page
    BY StoreAssumption DEF Page
  <1>2. PICK f \in File \ DOMAIN disk : disk' = Put(disk, f, new)
    BY DEF Create
  <1>3. /\ DOMAIN disk' = DOMAIN disk \cup {f}
        /\ disk'[f] = new
        /\ \A g \in DOMAIN disk : disk'[g] = disk[g]
    BY <1>2 DEF Put
  <1>4. /\ DOMAIN disk' \subseteq File
        /\ \A g \in DOMAIN disk' : disk'[g] \in Page
    BY <1>1, <1>2, <1>3 DEF IInv, TypeOK
  <1>5. latest' = [latest EXCEPT ![p] = 1] /\ latest \in [PageId -> Nat \cup {Gone}]
    BY DEF Create, IInv, TypeOK
  <1>6. \A x \in PageId : latest'[x] > 0 =>
           \E g \in Carriers(disk', x) : disk'[g].text = latest'[x]
    <2> SUFFICES ASSUME NEW x \in PageId, latest'[x] > 0
                 PROVE  \E g \in Carriers(disk', x) : disk'[g].text = latest'[x]
      OBVIOUS
    <2>1. CASE x = p
      BY <1>3, <1>5, <2>1 DEF Carriers
    <2>2. CASE x # p
      BY <1>3, <1>5, <2>2 DEF IInv, TextSafe, Alive, Carriers
    <2>3. QED
      BY <2>1, <2>2
  <1>7. journal' = {} /\ pc = "idle" /\ pc' = "sidebar" /\ plan' = plan
    BY DEF Create, IInv, JournalPhase
  <1>8. loaded' = disk' /\ stale' = {}
    BY DEF Create, ReloadFrom
  <1>9. QED
    BY <1>4, <1>5, <1>6, <1>7, <1>8, IdleStep DEF Gone

\* write_body
LEMMA WriteBodyStep ==
    ASSUME IInv, NEW p \in PageId, NEW t \in TypedTitles, WriteBody(p, t)
    PROVE  IInv'
  <1> DEFINE f == PathOf(loaded, p)
             new == [loaded[f] EXCEPT !.text = latest[p] + 1, !.title = t]
  <1>1. /\ f \in DOMAIN loaded /\ loaded[f].id = p
        /\ f \notin stale
        /\ disk' = Put(disk, f, new)
    BY UnambiguousPath DEF WriteBody
  <1>2. f \in DOMAIN disk /\ disk[f] = loaded[f]
    BY <1>1 DEF IInv, FingerprintsTrue
  <1>3. latest' = [latest EXCEPT ![p] = @ + 1] /\ latest \in [PageId -> Nat \cup {Gone}]
    BY DEF WriteBody, IInv, TypeOK
  <1> HIDE DEF f
  <1>4. latest[p] + 1 \in Nat
    BY <1>3 DEF Gone
  <1>5. new \in Page /\ new.id = p /\ new.text = latest[p] + 1
    <2>1. loaded[f] \in Page /\ t \in Title
      BY <1>1, StoreAssumption DEF IInv, TypeOK
    <2>2. QED
      BY <1>1, <1>4, <2>1 DEF Page
  <1> HIDE DEF new
  <1>6. /\ DOMAIN disk' = DOMAIN disk
        /\ disk'[f] = new
        /\ \A g \in DOMAIN disk : g # f => disk'[g] = disk[g]
    BY <1>1, <1>2 DEF Put
  <1>7. /\ DOMAIN disk' \subseteq File
        /\ \A g \in DOMAIN disk' : disk'[g] \in Page
    BY <1>5, <1>6 DEF IInv, TypeOK
  <1>8. \A x \in PageId : latest'[x] > 0 =>
           \E g \in Carriers(disk', x) : disk'[g].text = latest'[x]
    <2> SUFFICES ASSUME NEW x \in PageId, latest'[x] > 0
                 PROVE  \E g \in Carriers(disk', x) : disk'[g].text = latest'[x]
      OBVIOUS
    <2>1. CASE x = p
      BY <1>2, <1>3, <1>5, <1>6, <2>1 DEF Carriers
    <2>2. CASE x # p
      BY <1>1, <1>2, <1>3, <1>6, <2>2 DEF IInv, TextSafe, Alive, Carriers
    <2>3. QED
      BY <2>1, <2>2
  <1>9. journal' = {} /\ pc = "idle" /\ pc' = "sidebar" /\ plan' = plan
    BY DEF WriteBody, IInv, JournalPhase
  <1>10. loaded' = disk' /\ stale' = {}
    BY DEF WriteBody, ReloadFrom
  <1>11. latest' \in [PageId -> Nat \cup {Gone}]
    BY <1>3, <1>4
  <1>12. QED
    BY <1>7, <1>8, <1>9, <1>10, <1>11, IdleStep

\* delete_page
LEMMA DeleteStep ==
    ASSUME IInv, NEW p \in PageId, Delete(p)
    PROVE  IInv'
  <1> DEFINE f == PathOf(loaded, p)
  <1>1. /\ f \in DOMAIN loaded /\ loaded[f].id = p
        /\ f \notin stale
        /\ disk' = Without(disk, {f})
    BY UnambiguousPath DEF Delete
  <1>2. f \in DOMAIN disk /\ disk[f].id = p
    BY <1>1 DEF IInv, FingerprintsTrue
  <1>3. latest' = [latest EXCEPT ![p] = Gone] /\ latest \in [PageId -> Nat \cup {Gone}]
    BY DEF Delete, IInv, TypeOK
  <1> HIDE DEF f
  <1>4. /\ DOMAIN disk' = DOMAIN disk \ {f}
        /\ \A g \in DOMAIN disk' : disk'[g] = disk[g]
    BY <1>1 DEF Without
  <1>5. /\ DOMAIN disk' \subseteq File
        /\ \A g \in DOMAIN disk' : disk'[g] \in Page
    BY <1>4 DEF IInv, TypeOK
  <1>6. \A x \in PageId : latest'[x] > 0 =>
           \E g \in Carriers(disk', x) : disk'[g].text = latest'[x]
    BY <1>2, <1>3, <1>4 DEF IInv, TextSafe, Alive, Carriers, Gone
  <1>7. journal' = {} /\ pc = "idle" /\ pc' = "sidebar" /\ plan' = plan
    BY DEF Delete, IInv, JournalPhase
  <1>8. loaded' = disk' /\ stale' = {}
    BY DEF Delete, ReloadFrom
  <1>9. QED
    BY <1>3, <1>5, <1>6, <1>7, <1>8, IdleStep

\* An edit in a text editor, of a file no roll-back would remove.
LEMMA EditOwnFileStep ==
    ASSUME IInv, NEW f \in DOMAIN disk, EditOwnFile(f)
    PROVE  IInv'
  <1> DEFINE p == disk[f].id
             new == [disk[f] EXCEPT !.text = latest[p] + 1]
  <1> USE DEF EditOwnFile, ExternalEdit
  <1>1. /\ f \in File /\ disk[f] \in Page /\ p \in PageId
        /\ latest \in [PageId -> Nat \cup {Gone}]
        /\ journal \subseteq Rename
    BY DEF IInv, TypeOK, Page
  <1>2. latest[p] + 1 \in Nat
    BY <1>1 DEF Gone
  <1>3. disk' = Put(disk, f, new) /\ Touch({f}) /\ f \notin NewNames
    OBVIOUS
  <1>4. latest' = [latest EXCEPT ![p] = @ + 1]
    OBVIOUS
  <1>5. new \in Page /\ new.id = p /\ new.text = latest[p] + 1
    BY <1>1, <1>2 DEF Page
  <1>6. plan = NoPlan /\ pc # "moving" /\ UNCHANGED <<plan, pc, loaded>>
    BY DEF IInv, TypeOK
  <1> HIDE DEF p, new, EditOwnFile, ExternalEdit
  <1>7. /\ DOMAIN disk' = DOMAIN disk
        /\ disk'[f] = new
        /\ \A g \in DOMAIN disk : g # f => disk'[g] = disk[g]
        /\ \A g \in DOMAIN disk : disk'[g].id = disk[g].id
    BY <1>3, <1>5 DEF Put, p
  <1>8. /\ journal' \subseteq Rename
        /\ NewNames' = NewNames /\ OldNames' = OldNames
        /\ \A z \in journal' : \E e \in journal :
              /\ z.old = e.old /\ z.new = e.new
              /\ z.same => e.same /\ e.old \notin {f}
        /\ stale' = stale \cup ({f} \cap DOMAIN loaded)
        /\ journal = {} => journal' = {}
    BY <1>1, <1>3, TouchFacts
  <1>9. AllNew' <=> AllNew
    BY <1>7, <1>8 DEF AllNew
  <1>10. TypeOK'
    <2>1. latest' \in [PageId -> Nat \cup {Gone}]
      BY <1>1, <1>2, <1>4
    <2>2. QED
      BY <1>1, <1>5, <1>6, <1>7, <1>8, <2>1 DEF IInv, TypeOK
  <1>11. PlanTyped' /\ PlanSafe'
    BY <1>6 DEF PlanTyped, PlanSafe, NoPlan, Empty
  <1>12. FingerprintsTrue'
    BY <1>6, <1>7, <1>8 DEF IInv, FingerprintsTrue
  <1>13. CopiesAlike'
    <2> SUFFICES ASSUME NEW z \in journal', z.same, {z.old, z.new} \subseteq DOMAIN disk'
                 PROVE  Alike(disk'[z.old], disk'[z.new])
      BY <1>6 DEF CopiesAlike
    <2>1. PICK e \in journal : /\ z.old = e.old /\ z.new = e.new
                               /\ e.same /\ e.old # f
      BY <1>8
    <2>2. e.new # f
      BY <1>3 DEF NewNames
    <2>3. Alike(disk[e.old], disk[e.new])
      BY <1>7, <2>1 DEF IInv, CopiesAlike
    <2>4. QED
      BY <1>7, <2>1, <2>2, <2>3
  <1>14. JournalPhase'
    BY <1>6, <1>8, <1>9 DEF IInv, JournalPhase
  <1>15. TextSafe'
    <2> SUFFICES ASSUME NEW x \in PageId, Alive(x)'
                 PROVE  \E g \in Carriers(disk', x) :
                           disk'[g].text = latest'[x] /\ (g \in NewNames' => AllNew')
      BY DEF TextSafe
    <2>1. CASE x = p
      BY <1>1, <1>3, <1>4, <1>5, <1>7, <1>8, <2>1 DEF Carriers
    <2>2. CASE x # p
      <3>1. latest'[x] = latest[x] /\ Alive(x)
        BY <1>1, <1>4, <2>2 DEF Alive
      <3>2. PICK g \in Carriers(disk, x) :
               disk[g].text = latest[x] /\ (g \in NewNames => AllNew)
        BY <3>1 DEF IInv, TextSafe
      <3>3. g # f
        BY <2>2, <3>2 DEF Carriers, p
      <3>4. QED
        BY <1>7, <1>8, <1>9, <3>1, <3>2, <3>3 DEF Carriers
    <2>3. QED
      BY <2>1, <2>2
  <1>16. QED
    BY <1>10, <1>11, <1>12, <1>13, <1>14, <1>15 DEF IInv
-----------------------------------------------------------------------------
(* Planning a move *)

\* Every page of the moved subtree has an addressed file.
LEMMA AddressedPath ==
    ASSUME NEW d, NEW p, Addressed(d, p) # {}
    PROVE  PathOf(d, p) \in DOMAIN d /\ d[PathOf(d, p)].id = p
  BY DEF PathOf, Addressed, Carriers

\* The names plan_move assigns are distinct, and none is on disk but a page's
\* own old name.
LEMMA AssignedNames ==
    ASSUME NEW S \in SUBSET PageId, NEW new, DOMAIN new = S, NEW par, IsAssignment(new, S, par)
    PROVE  /\ \A p \in S : new[p] \in File
           /\ \A p \in S : new[p] \in DOMAIN disk => new[p] = PathOf(loaded, p)
           /\ \A p, r \in S : new[p] = new[r] => p = r
  <1>1. \A p \in S : new[p] \in File /\ new[p] \notin Claimed(new, p)
    BY DEF IsAssignment
  <1>2. \A p, r \in S : r < p => new[r] # new[p]
    BY <1>1 DEF Claimed
  <1>3. \A p, r \in S : p = r \/ p < r \/ r < p
    BY NamingAssumption
  <1>4. QED
    BY <1>1, <1>2, <1>3 DEF Claimed

\* The plan removes exactly the old names no page of the subtree takes.
LEMMA PlanDeletes ==
    ASSUME NEW m, NEW q, NEW S, NEW new
    PROVE  /\ \A p \in S : \/ PathOf(loaded, p) \in {new[r] : r \in S}
                           \/ PathOf(loaded, p) \in MovePlan(m, q, S, new).deletes
           /\ \A f \in MovePlan(m, q, S, new).deletes :
                 /\ f \notin {new[r] : r \in S}
                 /\ \E p \in S : f = PathOf(loaded, p) /\ PathOf(loaded, p) # new[p]
  <1> DEFINE old == [p \in S |-> PathOf(loaded, p)]
             R == {<<old[p], new[p]>> : p \in {p \in S : old[p] # new[p]}}
             written == {new[r] : r \in S}
  <1>1. MovePlan(m, q, S, new).deletes = {r[1] : r \in R} \ written
    BY DEF MovePlan
  <1>2. \A p \in S : old[p] = PathOf(loaded, p)
    OBVIOUS
  <1>3. \A p \in S : old[p] # new[p] => <<old[p], new[p]>> \in R
    OBVIOUS
  <1>4. \A r \in R : \E p \in S : r = <<old[p], new[p]>> /\ old[p] # new[p]
    OBVIOUS
  <1> HIDE DEF old, R
  <1>5. ASSUME NEW p \in S, old[p] # new[p]
        PROVE  old[p] \in {r[1] : r \in R}
    <2>1. PICK r \in R : r = <<old[p], new[p]>>
      BY <1>3, <1>5
    <2>2. r[1] = old[p]
      BY <2>1
    <2>3. QED
      BY <2>2
  <1>6. \A f \in {r[1] : r \in R} : \E p \in S : f = old[p] /\ old[p] # new[p]
    BY <1>4
  <1>7. QED
    BY <1>1, <1>2, <1>5, <1>6

\* The old files of the subtree are on disk as the store loaded them, and no
\* page takes another page's old name.
LEMMA OldFilesFresh ==
    ASSUME IInv, NEW S \in SUBSET PageId, NEW new, DOMAIN new = S, NEW par, NEW deleted,
           \A p \in S : Addressed(loaded, p) # {},
           IsAssignment(new, S, par),
           \A p \in S : new[p] \notin stale,
           deleted \cap stale = {},
           \A p \in S : PathOf(loaded, p) \in {new[r] : r \in S} \cup deleted
    PROVE  \A p \in S :
             /\ PathOf(loaded, p) \in DOMAIN loaded \cap DOMAIN disk
             /\ loaded[PathOf(loaded, p)].id = p
             /\ disk[PathOf(loaded, p)] = loaded[PathOf(loaded, p)]
             /\ \A r \in S : PathOf(loaded, p) = new[r] => p = r
  <1> DEFINE old(p) == PathOf(loaded, p)
  <1>1. \A p \in S : old(p) \in DOMAIN loaded /\ loaded[old(p)].id = p
    BY AddressedPath
  <1>5. \A p \in S : old(p) \in DOMAIN disk /\ disk[old(p)] = loaded[old(p)]
    BY <1>1 DEF IInv, FingerprintsTrue
  <1>6. \A p, r \in S : old(p) = new[r] => p = r
    <2> SUFFICES ASSUME NEW p \in S, NEW r \in S, old(p) = new[r] PROVE p = r
      OBVIOUS
    <2>1. new[r] = old(r)
      BY <1>5, AssignedNames
    <2>2. QED
      BY <1>1, <2>1
  <1>7. QED
    BY <1>1, <1>5, <1>6

\* A plan's pages are copies of the subtree's files, its links rewritten
\* copies of files outside.
LEMMA PlanWrites ==
    ASSUME IInv, NEW m, NEW q \in Parent, NEW S \in SUBSET PageId, NEW new, DOMAIN new = S,
           \A p \in S : /\ new[p] \in File
                        /\ PathOf(loaded, p) \in DOMAIN loaded,
           \A p, r \in S : new[p] = new[r] => p = r,
           NEW a, a = MovePlan(m, q, S, new)
    PROVE  /\ \A p \in S :
                /\ a.pages[new[p]] \in Page
                /\ Alike(a.pages[new[p]], loaded[PathOf(loaded, p)])
                /\ p # m => a.pages[new[p]].parent = loaded[PathOf(loaded, p)].parent
           /\ \A f \in DOMAIN a.links :
                /\ f \in DOMAIN loaded /\ loaded[f].id \notin S
                /\ a.links[f] \in Page
                /\ Alike(a.links[f], loaded[f])
                /\ a.links[f].parent = loaded[f].parent
  <1> DEFINE old == [p \in S |-> PathOf(loaded, p)]
             R == {<<old[p], new[p]>> : p \in {p \in S : old[p] # new[p]}}
             page(p) == [Relink(R, loaded[old[p]]) EXCEPT !.parent = IF p = m THEN q ELSE @]
             owner(f) == CHOOSE p \in S : new[p] = f
             pages == [f \in {new[p] : p \in S} |-> page(owner(f))]
             outside == {g \in DOMAIN loaded :
                           loaded[g].id \notin S /\ Relink(R, loaded[g]) # loaded[g]}
             links == [f \in outside |-> Relink(R, loaded[f])]
  <1>1. a.pages = pages /\ a.links = links
    BY DEF MovePlan
  <1>2. ASSUME NEW r \in R PROVE r[2] \in File
    <2>1. PICK p \in S : r = <<old[p], new[p]>>
      OBVIOUS
    <2>2. QED
      BY <2>1
  <1>3. \A p \in S : old[p] = PathOf(loaded, p)
    OBVIOUS
  <1>4. \A f \in DOMAIN loaded : loaded[f] \in Page
    BY DEF IInv, TypeOK
  <1>5. \A f \in DOMAIN loaded : /\ Relink(R, loaded[f]) \in Page
                               /\ Alike(Relink(R, loaded[f]), loaded[f])
                               /\ Relink(R, loaded[f]).parent = loaded[f].parent
    <2> HIDE DEF R
    <2>1. QED
      BY <1>2, <1>4, RelinkFacts
  <1>6. ASSUME NEW p \in S
        PROVE  /\ owner(new[p]) = p
               /\ page(p) \in Page
               /\ Alike(page(p), loaded[PathOf(loaded, p)])
               /\ p # m => page(p).parent = loaded[PathOf(loaded, p)].parent
    <2> HIDE DEF R, old
    <2>1. old[p] \in DOMAIN loaded
      BY <1>3
    <2>2. /\ Relink(R, loaded[old[p]]) \in Page
          /\ Alike(Relink(R, loaded[old[p]]), loaded[old[p]])
          /\ Relink(R, loaded[old[p]]).parent = loaded[old[p]].parent
      BY <1>5, <2>1
    <2>3. /\ page(p) \in Page /\ Alike(page(p), loaded[old[p]])
          /\ p # m => page(p).parent = loaded[old[p]].parent
      BY <2>2 DEF Page, Alike, Parent
    <2>4. owner(new[p]) \in S /\ new[owner(new[p])] = new[p]
      BY ZenonT(20)
    <2>5. QED
      BY <1>3, <2>3, <2>4
  <1> HIDE DEF R, old, page, owner
  <1>7. \A p \in S : pages[new[p]] = page(p)
    BY <1>6
  <1>8. QED
    BY <1>1, <1>5, <1>6, <1>7

\* The links a plan a will write under the renames R: those of the files it
\* copies, renamed; a file outside that it leaves alone has none to rename.
PlansLinks(S, new, a, R) ==
    /\ \A p \in S : a.pages[new[p]].links = Relink(R, loaded[PathOf(loaded, p)]).links
    /\ \A f \in DOMAIN a.links : a.links[f] = Relink(R, loaded[f])
    /\ \A f \in DOMAIN loaded \ DOMAIN a.links :
         loaded[f].id \notin S => Relink(R, loaded[f]) = loaded[f]

\* The renames of the pages S to the names `new`.
RenamesTo(S, new, R) ==
    /\ \A r \in R : \E p \in S : /\ r = <<PathOf(loaded, p), new[p]>>
                               /\ PathOf(loaded, p) # new[p]
    /\ \A p \in S : PathOf(loaded, p) # new[p] => <<PathOf(loaded, p), new[p]>> \in R

\* The plan of a move renames one to one and rewrites every link to a name that goes.
LEMMA PlanLinks ==
    ASSUME IInv, NEW m, NEW q \in Parent, NEW S \in SUBSET PageId, NEW new, DOMAIN new = S,
           \A p \in S : /\ new[p] \in File
                        /\ PathOf(loaded, p) \in DOMAIN loaded,
           \A p, r \in S : new[p] = new[r] => p = r,
           NEW R, RenamesTo(S, new, R)
    PROVE  PlansLinks(S, new, MovePlan(m, q, S, new), R)
  <1> DEFINE a == MovePlan(m, q, S, new)
             old == [p \in S |-> PathOf(loaded, p)]
             renames == {<<old[p], new[p]>> : p \in {p \in S : old[p] # new[p]}}
             page(p) == [Relink(renames, loaded[old[p]]) EXCEPT
                            !.parent = IF p = m THEN q ELSE @]
             owner(f) == CHOOSE p \in S : new[p] = f
             pages == [f \in {new[p] : p \in S} |-> page(owner(f))]
             outside == {g \in DOMAIN loaded : /\ loaded[g].id \notin S
                                               /\ Relink(renames, loaded[g]) # loaded[g]}
             links == [f \in outside |-> Relink(renames, loaded[f])]
  <1>1. a.pages = pages /\ a.links = links
    BY DEF MovePlan
  <1> HIDE DEF a
  <1>2. \A p \in S : old[p] = PathOf(loaded, p) /\ old[p] \in DOMAIN loaded
    OBVIOUS
  <1> HIDE DEF old
  <1>3. R = renames
    BY <1>2 DEF RenamesTo
  <1> HIDE DEF renames
  <1>4. \A r \in R : r[2] \in File
    BY DEF RenamesTo
  <1>5. \A f \in DOMAIN loaded : Relink(R, loaded[f]) \in Page
    BY <1>4, RelinkFacts DEF IInv, TypeOK
  <1>6. \A p \in S : page(p).links = Relink(R, loaded[PathOf(loaded, p)]).links
    BY <1>2, <1>3, <1>5 DEF Page
  <1>7. \A p \in S : owner(new[p]) = p
    <2> TAKE p \in S
    <2>1. owner(new[p]) \in S /\ new[owner(new[p])] = new[p]
      BY ZenonT(20)
    <2> QED
      BY <2>1
  <1> HIDE DEF page, owner
  <1>8. \A p \in S : pages[new[p]] = page(p)
    BY <1>7
  <1>10. /\ DOMAIN links = outside /\ \A f \in outside : links[f] = Relink(R, loaded[f])
         /\ \A f \in DOMAIN loaded \ outside :
              loaded[f].id \notin S => Relink(R, loaded[f]) = loaded[f]
    BY <1>3
  <1> HIDE DEF pages, links, outside
  <1>9. \A p \in S : a.pages[new[p]].links = Relink(R, loaded[PathOf(loaded, p)]).links
    BY <1>1, <1>6, <1>8
  <1>11. PlansLinks(S, new, a, R)
    BY <1>1, <1>9, <1>10 DEF PlansLinks
  <1> QED
    BY <1>11 DEF a

\* What move_page has decided when the journal is on disk: the pages S move to
\* the names `new`, which are free or their own, and the plan writes copies of
\* what the store loaded, which is what the folder holds.
Begun(m, S, new) ==
    /\ plan' = [pages |-> plan'.pages, links |-> plan'.links, deletes |-> plan'.deletes]
    /\ DOMAIN plan'.pages = {new[p] : p \in S}
    /\ \A p \in S :
         /\ new[p] \in File
         /\ new[p] \in DOMAIN disk => new[p] = PathOf(loaded, p)
         /\ PathOf(loaded, p) \in DOMAIN loaded \cap DOMAIN disk
         /\ disk[PathOf(loaded, p)] = loaded[PathOf(loaded, p)]
         /\ loaded[PathOf(loaded, p)].id = p
         /\ \A r \in S : PathOf(loaded, p) = new[r] => p = r
         /\ plan'.pages[new[p]] \in Page
         /\ Alike(plan'.pages[new[p]], loaded[PathOf(loaded, p)])
         /\ p # m => plan'.pages[new[p]].parent = loaded[PathOf(loaded, p)].parent
         /\ PathOf(loaded, p) # new[p] =>
               \E e \in journal' : e.old = PathOf(loaded, p) /\ e.new = new[p]
         /\ PathOf(loaded, p) \in {new[r] : r \in S} \cup plan'.deletes
    /\ \A f \in DOMAIN plan'.links :
         /\ f \in DOMAIN loaded \ stale
         /\ loaded[f].id \notin S
         /\ plan'.links[f] \in Page
         /\ Alike(plan'.links[f], loaded[f])
         /\ plan'.links[f].parent = loaded[f].parent
    /\ \A f \in plan'.deletes :
         /\ f \notin {new[p] : p \in S}
         /\ \E p \in S : f = PathOf(loaded, p) /\ PathOf(loaded, p) # new[p]
    /\ \A e \in journal' :
         /\ e \in Rename
         /\ \E p \in S : /\ e.old = PathOf(loaded, p) /\ e.new = new[p]
                         /\ PathOf(loaded, p) # new[p]
    /\ goal'.before = Shape(disk) /\ goal'.after = Shape(Applied(plan'))
    /\ goal'.inPlace <=> new[m] = PathOf(loaded, m)

\* move_page decides that much before it writes the journal.
LEMMA BegunMove ==
    ASSUME IInv, NEW m \in PageId, NEW q \in Parent, BeginMove(m, q)
    PROVE  \E S \in SUBSET PageId : \E new : Begun(m, S, new) /\ PlansLinks(S, new, plan', Renames')
  <1> DEFINE S == Subtree(loaded, m)
             old(p) == PathOf(loaded, p)
  <1>1. PICK new : LET a == MovePlan(m, q, S, new)
                       R == {[old |-> old(p), new |-> new[p], same |-> TRUE] :
                               p \in {p \in S : old(p) # new[p]}}
                   IN  /\ DOMAIN new = S
                       /\ IsAssignment(new, S, IntendedParent(m, q))
                       /\ (DOMAIN a.pages \cup DOMAIN a.links \cup a.deletes) \cap stale = {}
                       /\ journal' = IF R = {} THEN journal ELSE R
                       /\ plan' = a
                       /\ goal' = [before  |-> Shape(disk), after |-> Shape(Applied(a)),
                                   mover   |-> m,
                                   inPlace |-> new[m] = old(m)]
    BY DEF BeginMove
  <1>2. /\ pc = "idle" /\ pc' = "moving" /\ journal = {}
        /\ \A p \in S : Addressed(loaded, p) # {}
        /\ UNCHANGED <<disk, loaded, stale, latest>>
    BY DEF BeginMove, IInv, JournalPhase
  <1> DEFINE a == MovePlan(m, q, S, new)
             entry(p) == [old |-> old(p), new |-> new[p], same |-> TRUE]
             R == {entry(p) : p \in {p \in S : old(p) # new[p]}}
  <1>3. journal' = R
    BY <1>1, <1>2
  <1> HIDE DEF S
  <1>4. S \in SUBSET PageId
    BY <1>2, AddressedPath DEF IInv, TypeOK, Page
  <1>5. /\ DOMAIN new = S
        /\ IsAssignment(new, S, IntendedParent(m, q))
        /\ (DOMAIN a.pages \cup DOMAIN a.links \cup a.deletes) \cap stale = {}
        /\ plan' = a
        /\ goal'.before = Shape(disk) /\ goal'.after = Shape(Applied(a))
        /\ goal'.inPlace <=> new[m] = old(m)
    BY <1>1
  <1>6. /\ \A p \in S : new[p] \in File
        /\ \A p \in S : new[p] \in DOMAIN disk => new[p] = old(p)
        /\ \A p, r \in S : new[p] = new[r] => p = r
    BY <1>4, <1>5, AssignedNames
  <1>7. \A p \in S : /\ old(p) \in DOMAIN loaded \cap DOMAIN disk
                     /\ disk[old(p)] = loaded[old(p)]
                     /\ loaded[old(p)].id = p
                     /\ \A r \in S : old(p) = new[r] => p = r
    <2> DEFINE deleted == a.deletes
               par == IntendedParent(m, q)
    <2>1. \A p \in S : old(p) \in {new[r] : r \in S} \cup deleted
      BY PlanDeletes
    <2>2. DOMAIN a.pages = {new[p] : p \in S}
      BY DEF MovePlan
    <2>3. /\ \A p \in S : new[p] \notin stale
          /\ deleted \cap stale = {}
      BY <1>5, <2>2
    <2>4. IsAssignment(new, S, par)
      BY <1>5
    <2>5. /\ \A p \in S : Addressed(loaded, p) # {}
          /\ DOMAIN new = S
      BY <1>2, <1>5
    <2> HIDE DEF deleted, par, a
    <2>6. \A p \in S :
             /\ PathOf(loaded, p) \in DOMAIN loaded \cap DOMAIN disk
             /\ loaded[PathOf(loaded, p)].id = p
             /\ disk[PathOf(loaded, p)] = loaded[PathOf(loaded, p)]
             /\ \A r \in S : PathOf(loaded, p) = new[r] => p = r
      BY <1>4, <2>1, <2>3, <2>4, <2>5, OldFilesFresh
    <2>7. QED
      BY <2>6
  <1>8. /\ a = [pages |-> a.pages, links |-> a.links, deletes |-> a.deletes]
        /\ DOMAIN a.pages = {new[p] : p \in S}
        /\ \A p \in S : /\ a.pages[new[p]] \in Page
                        /\ Alike(a.pages[new[p]], loaded[old(p)])
                        /\ p # m => a.pages[new[p]].parent = loaded[old(p)].parent
        /\ \A f \in DOMAIN a.links : /\ f \in DOMAIN loaded /\ loaded[f].id \notin S
                                     /\ a.links[f] \in Page
                                     /\ Alike(a.links[f], loaded[f])
                                     /\ a.links[f].parent = loaded[f].parent
    <2>1. \A p \in S : new[p] \in File /\ old(p) \in DOMAIN loaded
      BY <1>6, <1>7
    <2>2. DOMAIN new = S /\ \A p, r \in S : new[p] = new[r] => p = r
      BY <1>5, <1>6
    <2>3. /\ a = MovePlan(m, q, S, new)
          /\ a = [pages |-> a.pages, links |-> a.links, deletes |-> a.deletes]
          /\ DOMAIN a.pages = {new[p] : p \in S}
      BY DEF MovePlan
    <2>4. \A p \in S : new[p] \in File /\ PathOf(loaded, p) \in DOMAIN loaded
      BY <2>1
    <2> HIDE DEF a, old
    <2>5. /\ \A p \in S :
               /\ a.pages[new[p]] \in Page
               /\ Alike(a.pages[new[p]], loaded[PathOf(loaded, p)])
               /\ p # m => a.pages[new[p]].parent = loaded[PathOf(loaded, p)].parent
          /\ \A f \in DOMAIN a.links :
               /\ f \in DOMAIN loaded /\ loaded[f].id \notin S
               /\ a.links[f] \in Page
               /\ Alike(a.links[f], loaded[f])
               /\ a.links[f].parent = loaded[f].parent
      BY <1>4, <2>2, <2>3, <2>4, PlanWrites
    <2>6. QED
      BY <2>3, <2>5 DEF old
  <1>9. /\ \A f \in a.deletes : /\ f \notin {new[p] : p \in S}
                                /\ \E p \in S : f = old(p) /\ old(p) # new[p]
        /\ \A p \in S : old(p) \in {new[r] : r \in S} \cup a.deletes
    BY PlanDeletes
  <1>10. /\ \A e \in R : /\ e \in Rename
                         /\ \E p \in S : e.old = old(p) /\ e.new = new[p] /\ old(p) # new[p]
         /\ \A p \in S : old(p) # new[p] =>
               \E e \in R : e.old = old(p) /\ e.new = new[p]
    <2>1. DOMAIN loaded \subseteq File
      BY DEF IInv, TypeOK
    <2>2. \A p \in S : entry(p) \in Rename /\ entry(p).old = old(p) /\ entry(p).new = new[p]
      BY <1>6, <1>7, <2>1 DEF Rename
    <2> HIDE DEF entry
    <2>3. QED
      BY <2>2
  <1>11. RenamesTo(S, new, Renames')
    <2> HIDE DEF R, old
    <2> QED
      BY <1>3, <1>10 DEF Renames, RenamesTo, old
  <1> HIDE DEF R
  <1>12. PlansLinks(S, new, plan', Renames')
    <2>1. a = MovePlan(m, q, S, new) /\ plan' = a
      BY <1>5
    <2>2. DOMAIN new = S /\ \A p, r \in S : new[p] = new[r] => p = r
      BY <1>5, <1>6
    <2>3. \A p \in S : new[p] \in File /\ PathOf(loaded, p) \in DOMAIN loaded
      BY <1>6, <1>7
    <2> HIDE DEF a, old
    <2> QED
      BY <1>4, <1>11, <2>1, <2>2, <2>3, PlanLinks
  <1> HIDE DEF a, old
  <1>13. \A f \in DOMAIN a.links : f \notin stale
    BY <1>5
  <1>14. Begun(m, S, new)
    BY <1>3, <1>5, <1>6, <1>7, <1>8, <1>9, <1>10, <1>13 DEF Begun, old
  <1>15. QED
    BY <1>4, <1>12, <1>14

\* move_page, up to the journal.
LEMMA BeginMoveStep ==
    ASSUME IInv, NEW m \in PageId, NEW q \in Parent, BeginMove(m, q)
    PROVE  IInv'
  <1> DEFINE old(p) == PathOf(loaded, p)
  <1>begun. PICK S \in SUBSET PageId : \E new : Begun(m, S, new)
    BY BegunMove
  <1>names. PICK new : Begun(m, S, new)
    BY <1>begun
  <1>1. /\ plan' = [pages |-> plan'.pages, links |-> plan'.links, deletes |-> plan'.deletes]
        /\ DOMAIN plan'.pages = {new[p] : p \in S}
        /\ \A p \in S :
             /\ new[p] \in File
             /\ new[p] \in DOMAIN disk => new[p] = old(p)
             /\ old(p) \in DOMAIN loaded \cap DOMAIN disk
             /\ disk[old(p)] = loaded[old(p)]
             /\ plan'.pages[new[p]] \in Page
             /\ Alike(plan'.pages[new[p]], loaded[old(p)])
        /\ \A f \in DOMAIN plan'.links :
             /\ f \in DOMAIN loaded \ stale
             /\ plan'.links[f] \in Page
             /\ Alike(plan'.links[f], loaded[f])
        /\ \A f \in plan'.deletes :
             /\ f \notin {new[p] : p \in S}
             /\ \E p \in S : f = old(p) /\ old(p) # new[p]
        /\ \A p \in S : old(p) # new[p] =>
             \E e \in journal' : e.old = old(p) /\ e.new = new[p]
        /\ \A e \in journal' :
             /\ e \in Rename
             /\ \E p \in S : e.old = old(p) /\ e.new = new[p] /\ old(p) # new[p]
    BY <1>names DEF Begun
  <1>2. /\ pc = "idle" /\ pc' = "moving" /\ journal = {}
        /\ UNCHANGED <<disk, loaded, stale, latest>>
    BY DEF BeginMove, IInv, JournalPhase
  <1> HIDE DEF old
  <1>3. TypeOK'
    BY <1>1, <1>2 DEF IInv, TypeOK, Phase
  <1>4. PlanTyped'
    BY <1>1 DEF PlanTyped, IInv, TypeOK
  <1>5. FingerprintsTrue'
    BY <1>2 DEF IInv, FingerprintsTrue
  <1>6. PlanSafe'
    <2>1. \A f \in DOMAIN plan'.pages \cap DOMAIN disk : Alike(plan'.pages[f], disk[f])
      BY <1>1
    <2>2. \A f \in DOMAIN plan'.links : f \in DOMAIN disk /\ Alike(plan'.links[f], disk[f])
      BY <1>1 DEF IInv, FingerprintsTrue
    <2>3. \A e \in journal' : /\ e.old \in DOMAIN disk
                              /\ e.new \in DOMAIN plan'.pages
                              /\ Alike(plan'.pages[e.new], disk[e.old])
      BY <1>1
    <2>4. \A f \in plan'.deletes : (\E e \in journal' : e.old = f) /\ \A e \in journal' : e.new # f
      BY <1>1
    <2>5. QED
      BY <1>2, <2>1, <2>2, <2>3, <2>4 DEF PlanSafe, OldNames, NewNames
  <1>7. \A e \in journal' : e.new \notin DOMAIN disk
    BY <1>1
  <1>8. CopiesAlike'
    BY <1>2, <1>7 DEF CopiesAlike
  <1>9. JournalPhase'
    BY <1>2 DEF JournalPhase
  <1>10. TextSafe'
    <2>1. \A f \in DOMAIN disk : f \notin NewNames'
      BY <1>7 DEF NewNames
    <2>2. QED
      BY <1>2, <2>1 DEF IInv, TextSafe, Carriers, Alive
  <1>11. QED
    BY <1>3, <1>4, <1>5, <1>6, <1>8, <1>9, <1>10 DEF IInv

-----------------------------------------------------------------------------
(* All or nothing: the folder of an open journal lies between two goals *)

\* The shape of a folder has one spot for every file.
LEMMA ShapeFacts ==
    ASSUME NEW d
    PROVE  /\ \A f \in DOMAIN d : Spot(f, d[f]) \in Shape(d)
           /\ \A x \in Shape(d) : x[1] \in DOMAIN d /\ x = Spot(x[1], d[x[1]])
  BY DEF Shape, Spot

\* A file written takes the spot of the file it replaces, if any.
LEMMA ShapePut ==
    ASSUME NEW d, NEW f, NEW page, NEW e, e = Put(d, f, page)
    PROVE  Shape(e) = {x \in Shape(d) : x[1] # f} \cup {Spot(f, page)}
  <1>1. /\ DOMAIN e = DOMAIN d \cup {f}
        /\ e[f] = page
        /\ \A g \in DOMAIN d : g # f => e[g] = d[g]
    BY DEF Put
  <1>2. Spot(f, page)[1] = f
    BY DEF Spot
  <1>3. ASSUME NEW x \in Shape(e) PROVE x \in {y \in Shape(d) : y[1] # f} \cup {Spot(f, page)}
    BY <1>1, ShapeFacts
  <1>4. ASSUME NEW x \in Shape(d), x[1] # f PROVE x \in Shape(e)
    BY <1>1, <1>4, ShapeFacts
  <1>5. Spot(f, page) \in Shape(e)
    BY <1>1, ShapeFacts
  <1>6. QED
    BY <1>3, <1>4, <1>5

\* A file removed leaves the others where they were.
LEMMA ShapeWithout ==
    ASSUME NEW d, NEW f, NEW e, e = Without(d, {f})
    PROVE  \A x : x \in Shape(e) <=> x \in Shape(d) /\ x[1] # f
  <1>1. DOMAIN e = DOMAIN d \ {f} /\ \A g \in DOMAIN d : g # f => e[g] = d[g]
    BY DEF Without
  <1>2. ASSUME NEW x \in Shape(e) PROVE x \in Shape(d) /\ x[1] # f
    <2>1. x[1] \in DOMAIN d /\ x[1] # f /\ x = Spot(x[1], e[x[1]])
      BY <1>1, ShapeFacts
    <2>2. x = Spot(x[1], d[x[1]])
      BY <1>1, <2>1
    <2>3. QED
      BY <2>1, <2>2, ShapeFacts
  <1>3. ASSUME NEW x \in Shape(d), x[1] # f PROVE x \in Shape(e)
    <2>1. x[1] \in DOMAIN e /\ x = Spot(x[1], d[x[1]])
      BY <1>1, <1>3, ShapeFacts
    <2>2. x = Spot(x[1], e[x[1]])
      BY <1>1, <1>3, <2>1
    <2>3. QED
      BY <2>1, <2>2, ShapeFacts
  <1>4. QED
    BY <1>2, <1>3

\* Steps that put no page elsewhere: reads, loads, crashes, healed links and
\* edited texts.
LEMMA BetweenKept ==
    ASSUME GInv,
           journal' # {} => /\ journal # {}
                            /\ NewNames' = NewNames /\ OldNames' = OldNames
                            /\ UNCHANGED goal
                            /\ Shape(disk') = Shape(disk) /\ DOMAIN disk' = DOMAIN disk
                            /\ plan' \in {plan, NoPlan},
           journal' # {}, ~goal'.inPlace
    PROVE  Between'
  <1>1. Between
    BY DEF GInv
  <1>2. AllNew' <=> AllNew
    BY DEF AllNew
  <1>3. /\ \A f \in DOMAIN plan'.pages : Spot(f, plan'.pages[f]) \in goal.after
        /\ \A f \in DOMAIN plan'.links : Spot(f, plan'.links[f]) \in goal.after
    BY <1>1 DEF Between, NoPlan, Empty
  <1>4. QED
    BY <1>1, <1>2, <1>3 DEF Between

\* A planned file goes to the spot the move gives it.
LEMMA BetweenWritten ==
    ASSUME GInv, journal # {}, ~goal.inPlace, NEW f, NEW page,
           Spot(f, page) \in goal.after,
           disk' = Put(disk, f, page),
           NewNames' = NewNames, OldNames' = OldNames, UNCHANGED goal,
           DOMAIN plan'.pages \subseteq DOMAIN plan.pages,
           \A g \in DOMAIN plan'.pages : plan'.pages[g] = plan.pages[g],
           DOMAIN plan'.links \subseteq DOMAIN plan.links,
           \A g \in DOMAIN plan'.links : plan'.links[g] = plan.links[g]
    PROVE  Between'
  <1>1. Between
    BY DEF GInv
  <1>2. Shape(disk') = {x \in Shape(disk) : x[1] # f} \cup {Spot(f, page)}
    BY ShapePut
  <1>3. DOMAIN disk' = DOMAIN disk \cup {f} /\ Spot(f, page)[1] = f
    BY DEF Put, Spot
  <1>4. AllNew => AllNew'
    BY <1>3 DEF AllNew
  <1>5. ASSUME goal.before \subseteq Shape(disk) PROVE goal.before \subseteq Shape(disk')
    <2> SUFFICES ASSUME NEW x \in goal.before, x[1] = f PROVE x = Spot(f, page)
      BY <1>2, <1>5
    <2>1. f \notin OldNames
      BY <1>1, <1>3 DEF Between
    <2>2. x \in goal.after
      BY <1>1, <2>1 DEF Between
    <2>3. QED
      BY <1>1, <1>3, <2>2 DEF Between
  <1>6. \A x \in goal.after : x \in Shape(disk') \/ x[1] \in NewNames \ DOMAIN disk'
    BY <1>1, <1>2, <1>3 DEF Between
  <1>7. QED
    BY <1>1, <1>2, <1>4, <1>5, <1>6 DEF Between

\* An old file goes once all new files are there.
LEMMA BetweenRemoved ==
    ASSUME GInv, journal # {}, ~goal.inPlace, AllNew, NEW f \in OldNames \ NewNames,
           disk' = Without(disk, {f}),
           NewNames' = NewNames, OldNames' = OldNames, UNCHANGED goal,
           plan'.pages = plan.pages, plan'.links = plan.links
    PROVE  Between'
  <1>1. Between
    BY DEF GInv
  <1>2. /\ \A x : x \in Shape(disk') <=> x \in Shape(disk) /\ x[1] # f
        /\ DOMAIN disk' = DOMAIN disk \ {f}
    <2>1. \A x : x \in Shape(disk') <=> x \in Shape(disk) /\ x[1] # f
      BY ShapeWithout
    <2>2. QED
      BY <2>1 DEF Without
  <1>3. AllNew'
    BY <1>2 DEF AllNew
  <1>4. ASSUME NEW x \in goal.after PROVE x \in Shape(disk')
    <2>1. x[1] # f /\ (x \in Shape(disk) \/ x[1] \in NewNames \ DOMAIN disk)
      BY <1>1 DEF Between
    <2>2. QED
      BY <1>2, <2>1 DEF AllNew
  <1>5. Shape(disk') \subseteq goal.before \cup goal.after
    BY <1>1, <1>2 DEF Between
  <1>6. QED
    BY <1>1, <1>3, <1>4, <1>5 DEF Between

\* Rolling back, a new file goes while another is still missing.
LEMMA BetweenUndone ==
    ASSUME GInv, journal # {}, ~goal.inPlace, ~AllNew, NEW f \in NewNames,
           disk' = Without(disk, {f}),
           NewNames' = NewNames, OldNames' = OldNames, UNCHANGED <<goal, plan>>
    PROVE  Between'
  <1>1. Between
    BY DEF GInv
  <1>2. /\ \A x : x \in Shape(disk') <=> x \in Shape(disk) /\ x[1] # f
        /\ DOMAIN disk' = DOMAIN disk \ {f}
    <2>1. \A x : x \in Shape(disk') <=> x \in Shape(disk) /\ x[1] # f
      BY ShapeWithout
    <2>2. QED
      BY <2>1 DEF Without
  <1>3. goal.before \subseteq Shape(disk')
    BY <1>1, <1>2 DEF Between
  <1>4. \A x \in goal.after : x \in Shape(disk') \/ x[1] \in NewNames \ DOMAIN disk'
    BY <1>1, <1>2 DEF Between
  <1>5. Shape(disk') \subseteq goal.before \cup goal.after
    BY <1>1, <1>2 DEF Between
  <1>6. QED
    BY <1>1, <1>3, <1>4, <1>5 DEF Between

\* A move that has just been journalled, of a page that changes its filename:
\* the folder is the one before it, and the plan leads to the one after it.
LEMMA BetweenBegun ==
    ASSUME IInv, NEW m \in PageId, NEW q \in Parent, BeginMove(m, q),
           ~goal'.inPlace
    PROVE  Between'
  <1> DEFINE old(p) == PathOf(loaded, p)
             target == Applied(plan')
  <1>begun. PICK S \in SUBSET PageId : \E new : Begun(m, S, new)
    BY BegunMove
  <1>1. PICK new : Begun(m, S, new)
    BY <1>begun
  <1>2. /\ DOMAIN plan'.pages = {new[p] : p \in S}
        /\ \A p \in S :
             /\ new[p] \in DOMAIN disk => new[p] = old(p)
             /\ old(p) \in DOMAIN loaded \cap DOMAIN disk
             /\ disk[old(p)] = loaded[old(p)]
             /\ loaded[old(p)].id = p
             /\ \A r \in S : old(p) = new[r] => p = r
             /\ plan'.pages[new[p]].id = p
             /\ p # m => plan'.pages[new[p]].parent = loaded[old(p)].parent
             /\ old(p) # new[p] => \E e \in journal' : e.old = old(p) /\ e.new = new[p]
             /\ old(p) \in {new[r] : r \in S} \cup plan'.deletes
    BY <1>1 DEF Begun, Alike
  <1>3. \A f \in DOMAIN plan'.links :
             /\ f \in DOMAIN loaded \ stale
             /\ loaded[f].id \notin S
             /\ plan'.links[f].id = loaded[f].id
             /\ plan'.links[f].parent = loaded[f].parent
    BY <1>1 DEF Begun, Alike
  <1>4. /\ \A f \in plan'.deletes :
             /\ f \notin {new[p] : p \in S}
             /\ \E p \in S : f = old(p) /\ old(p) # new[p]
        /\ \A e \in journal' : \E p \in S : e.old = old(p) /\ e.new = new[p] /\ old(p) # new[p]
        /\ goal'.before = Shape(disk) /\ goal'.after = Shape(target)
        /\ new[m] # old(m)
    BY <1>1 DEF Begun
  <1>5. disk' = disk
    BY DEF BeginMove
  <1>6. \A f \in DOMAIN plan'.links : f \in DOMAIN disk /\ disk[f] = loaded[f]
    BY <1>3 DEF IInv, FingerprintsTrue
  <1>7. /\ DOMAIN target = (DOMAIN disk \ plan'.deletes) \cup DOMAIN plan'.pages
                              \cup DOMAIN plan'.links
        /\ \A f \in DOMAIN plan'.pages : target[f] = plan'.pages[f]
        /\ \A f \in DOMAIN plan'.links \ DOMAIN plan'.pages : target[f] = plan'.links[f]
        /\ \A f \in DOMAIN target \ (DOMAIN plan'.pages \cup DOMAIN plan'.links) :
              target[f] = disk[f]
    BY DEF Applied
  <1> HIDE DEF target, old
  <1>8. \A f \in DOMAIN plan'.links : f \notin DOMAIN plan'.pages
    BY <1>2, <1>3, <1>6
  <1>9. ASSUME NEW f \in DOMAIN disk
        PROVE  f \notin NewNames' /\ (f \in OldNames' \/ (f \in DOMAIN target /\ Spot(f, target[f]) = Spot(f, disk[f])))
    <2>1. f \notin NewNames'
      BY <1>2, <1>4 DEF NewNames
    <2>2. f \in plan'.deletes => f \in OldNames'
      BY <1>2, <1>4 DEF OldNames
    <2>3. CASE f \in DOMAIN plan'.pages
      <3>1. PICK p \in S : f = new[p]
        BY <1>2, <2>3
      <3>2. f = old(p) /\ p # m
        BY <1>2, <1>4, <3>1
      <3>3. QED
        BY <1>2, <1>7, <2>1, <2>3, <3>1, <3>2 DEF Spot
    <2>4. CASE f \in DOMAIN plan'.links
      BY <1>3, <1>6, <1>7, <1>8, <2>1, <2>4 DEF Spot
    <2>5. CASE f \notin plan'.deletes \cup DOMAIN plan'.pages \cup DOMAIN plan'.links
      BY <1>7, <2>1, <2>5
    <2>6. QED
      BY <2>1, <2>2, <2>3, <2>4, <2>5
  <1>10. ASSUME NEW f \in DOMAIN target
         PROVE  /\ f \notin OldNames'
                /\ f \in NewNames' \/ f \in DOMAIN disk
    <2>1. ASSUME f \in OldNames' PROVE FALSE
      <3>1. PICK p \in S : f = old(p) /\ old(p) # new[p]
        BY <1>4, <2>1 DEF OldNames
      <3>2. f \notin DOMAIN plan'.pages
        BY <1>2, <3>1
      <3>3. f \in plan'.deletes
        BY <1>2, <3>1, <3>2
      <3>4. f \notin DOMAIN plan'.links
        BY <1>2, <1>3, <3>1
      <3>5. QED
        BY <1>7, <3>2, <3>3, <3>4
    <2>2. f \in DOMAIN plan'.pages => f \in NewNames' \/ f \in DOMAIN disk
      BY <1>2 DEF NewNames
    <2>3. QED
      BY <1>6, <1>7, <2>1, <2>2
  <1>11. \A x \in goal'.before : /\ x[1] \notin NewNames'
                                 /\ x[1] \in OldNames' \/ x \in goal'.after
    BY <1>4, <1>9, ShapeFacts
  <1>12. \A x \in goal'.after : /\ x[1] \notin OldNames'
                                /\ x[1] \in NewNames' \/ x \in goal'.before
    <2> SUFFICES ASSUME NEW x \in Shape(target)
                 PROVE  x[1] \notin OldNames' /\ (x[1] \in NewNames' \/ x \in Shape(disk))
      BY <1>4
    <2>1. x[1] \in DOMAIN target /\ x = Spot(x[1], target[x[1]])
      BY ShapeFacts
    <2>2. CASE x[1] \in DOMAIN disk
      <3>1. Spot(x[1], target[x[1]]) = Spot(x[1], disk[x[1]])
        BY <1>9, <1>10, <2>1, <2>2
      <3>2. QED
        BY <1>10, <2>1, <2>2, <3>1, ShapeFacts
    <2>3. QED
      BY <1>10, <2>1, <2>2
  <1>13. \A x, y \in goal'.after : x[1] = y[1] => x = y
    BY <1>4, ShapeFacts
  <1>14. \A x \in goal'.after : x \in Shape(disk') \/ x[1] \in NewNames' \ DOMAIN disk'
    BY <1>4, <1>5, <1>9, <1>12
  <1>15. /\ \A f \in DOMAIN plan'.pages : Spot(f, plan'.pages[f]) \in goal'.after
         /\ \A f \in DOMAIN plan'.links : Spot(f, plan'.links[f]) \in goal'.after
    BY <1>4, <1>7, <1>8, ShapeFacts
  <1>16. QED
    <2>1. Shape(disk') \subseteq goal'.before \cup goal'.after
      BY <1>4, <1>5
    <2>2. goal'.before \subseteq Shape(disk')
      BY <1>4, <1>5
    <2>3. QED
      BY <2>1, <2>2, <1>11, <1>12, <1>13, <1>14, <1>15 DEF Between

\* Touched journals keep their names, and stay open.
LEMMA TouchedNames ==
    ASSUME IInv, NEW S, Touch(S)
    PROVE  /\ NewNames' = NewNames /\ OldNames' = OldNames
           /\ journal' # {} <=> journal # {}
  <1>1. NewNames' = NewNames /\ OldNames' = OldNames /\ (journal = {} => journal' = {})
    BY TouchFacts DEF IInv, TypeOK
  <1>2. (journal # {} <=> NewNames # {}) /\ (journal' # {} <=> NewNames' # {})
    BY DEF NewNames
  <1>3. QED
    BY <1>1, <1>2

\* A healed or edited file stays at its spot.
LEMMA SpotKept ==
    ASSUME NEW f \in DOMAIN disk, NEW page, page.id = disk[f].id, page.parent = disk[f].parent,
           disk' = Put(disk, f, page)
    PROVE  Shape(disk') = Shape(disk) /\ DOMAIN disk' = DOMAIN disk
  <1>1. /\ DOMAIN disk' = DOMAIN disk
        /\ \A g \in DOMAIN disk : Spot(g, disk'[g]) = Spot(g, disk[g])
    BY DEF Put, Spot
  <1>2. ASSUME NEW x PROVE x \in Shape(disk') <=> x \in Shape(disk)
    BY <1>1, ShapeFacts
  <1>3. QED
    BY <1>1, <1>2

\* Every step of a move and of its recovery keeps the folder between the goals.
LEMMA MoveStepBetween ==
    ASSUME GInv, journal' # {}, ~goal'.inPlace,
           \/ \E f \in DOMAIN plan.pages : WriteMovedPage(f)
           \/ \E f \in DOMAIN plan.links : RewriteInboundLinks(f)
           \/ \E f \in plan.deletes : RemoveOldFile(f)
           \/ RollForward
           \/ RollBack
    PROVE  Between'
  <1>1. /\ IInv /\ UNCHANGED goal
        /\ \E S : Touch(S)
    BY DEF GInv, WriteMovedPage, RewriteInboundLinks, RemoveOldFile, RollForward, RollBack
  <1>2. /\ NewNames' = NewNames /\ OldNames' = OldNames
        /\ journal # {} /\ ~goal.inPlace
    BY <1>1, TouchedNames
  <1>3. Between
    BY <1>2 DEF GInv
  <1>4. CASE \E f \in DOMAIN plan.pages : WriteMovedPage(f)
    <2>1. PICK f \in DOMAIN plan.pages : WriteMovedPage(f)
      BY <1>4
    <2>2. /\ disk' = Put(disk, f, plan.pages[f])
          /\ plan' = [plan EXCEPT !.pages = Without(@, {f})]
      BY <2>1 DEF WriteMovedPage
    <2>3. /\ DOMAIN plan'.pages \subseteq DOMAIN plan.pages
          /\ \A g \in DOMAIN plan'.pages : plan'.pages[g] = plan.pages[g]
          /\ plan'.links = plan.links
      BY <1>1, <2>2 DEF IInv, PlanTyped, Without
    <2>4. Spot(f, plan.pages[f]) \in goal.after
      BY <1>3 DEF Between
    <2>5. QED
      BY <1>1, <1>2, <2>2, <2>3, <2>4, BetweenWritten
  <1>5. CASE \E f \in DOMAIN plan.links : RewriteInboundLinks(f)
    <2>1. PICK f \in DOMAIN plan.links : RewriteInboundLinks(f)
      BY <1>5
    <2>2. /\ disk' = Put(disk, f, plan.links[f])
          /\ plan' = [plan EXCEPT !.links = Without(@, {f})]
      BY <2>1 DEF RewriteInboundLinks
    <2>3. /\ DOMAIN plan'.links \subseteq DOMAIN plan.links
          /\ \A g \in DOMAIN plan'.links : plan'.links[g] = plan.links[g]
          /\ plan'.pages = plan.pages
      BY <1>1, <2>2 DEF IInv, PlanTyped, Without
    <2>4. Spot(f, plan.links[f]) \in goal.after
      BY <1>3 DEF Between
    <2>5. QED
      BY <1>1, <1>2, <2>2, <2>3, <2>4, BetweenWritten
  <1>6. CASE \E f \in plan.deletes : RemoveOldFile(f)
    <2>1. PICK f \in plan.deletes : RemoveOldFile(f)
      BY <1>6
    <2>2. /\ disk' = Without(disk, {f}) /\ pc = "moving" /\ DOMAIN plan.pages = {}
          /\ plan' = [plan EXCEPT !.deletes = @ \ {f}]
      BY <2>1 DEF RemoveOldFile, Empty
    <2>3. AllNew /\ f \in OldNames \ NewNames
      BY <1>1, <2>2 DEF IInv, PlanSafe, AllNew
    <2>4. plan'.pages = plan.pages /\ plan'.links = plan.links
      BY <1>1, <2>2 DEF IInv, PlanTyped
    <2>5. QED
      BY <1>1, <1>2, <2>2, <2>3, <2>4, BetweenRemoved
  <1>7. ASSUME NEW R, \A r \in R : r[2] \in File,
               \E f \in Unhealed(R) : disk' = Put(disk, f, Relink(R, disk[f])),
               UNCHANGED plan
        PROVE  Between'
    <2>1. PICK f \in Unhealed(R) : disk' = Put(disk, f, Relink(R, disk[f]))
      BY <1>7
    <2>2. f \in DOMAIN disk /\ disk[f] \in Page
      BY <1>1 DEF Unhealed, IInv, TypeOK
    <2>3. /\ Relink(R, disk[f]).id = disk[f].id
          /\ Relink(R, disk[f]).parent = disk[f].parent
      BY <1>7, <2>2, RelinkFacts DEF Alike
    <2>4. Shape(disk') = Shape(disk) /\ DOMAIN disk' = DOMAIN disk
      BY <2>1, <2>2, <2>3, SpotKept
    <2>5. QED
      BY <1>1, <1>2, <1>7, <2>4, BetweenKept
  <1>8. CASE RollForward
    <2>1. AllNew /\ UNCHANGED plan
      BY <1>1, <1>8 DEF RollForward, IInv, JournalPhase
    <2>2. CASE \E f \in Leftover : disk' = Without(disk, {f})
      <3>1. PICK f \in Leftover : disk' = Without(disk, {f})
        BY <2>2
      <3>2. f \in OldNames \ NewNames
        BY DEF Leftover, OldNames
      <3>3. QED
        BY <1>1, <1>2, <2>1, <3>1, <3>2, BetweenRemoved
    <2>3. CASE \E f \in Unhealed(Renames) : disk' = Put(disk, f, Relink(Renames, disk[f]))
      BY <1>1, <1>7, <2>1, <2>3, RenamesAreFiles
    <2>4. QED
      BY <1>8, <2>2, <2>3 DEF RollForward
  <1>9. CASE RollBack
    <2>1. ~AllNew /\ UNCHANGED plan
      BY <1>1, <1>9 DEF RollBack, IInv, JournalPhase
    <2>2. CASE \E f \in Partial : disk' = Without(disk, {f})
      <3>1. PICK f \in Partial : disk' = Without(disk, {f})
        BY <2>2
      <3>2. f \in NewNames
        BY DEF Partial
      <3>3. QED
        BY <1>1, <1>2, <2>1, <3>1, <3>2, BetweenUndone
    <2>3. CASE \E f \in Unhealed(Reverse(Renames)) :
                  disk' = Put(disk, f, Relink(Reverse(Renames), disk[f]))
      BY <1>1, <1>7, <2>1, <2>3, RenamesAreFiles
    <2>4. QED
      BY <1>9, <2>2, <2>3 DEF RollBack
  <1>10. QED
    BY <1>4, <1>5, <1>6, <1>8, <1>9

-----------------------------------------------------------------------------
(* The theorems *)

\* Every step of the store, of its owner and every crash keeps the invariant.
LEMMA StepIInv == IInv /\ [Next]_vars => IInv'
  <1> SUFFICES ASSUME IInv, [Next]_vars PROVE IInv'
    OBVIOUS
  <1>1. CASE Operation
    BY <1>1, BeginMoveStep, WriteMovedPageStep, RewriteInboundLinksStep, RemoveOldFileStep,
       QuietStep, CreateStep, WriteBodyStep, DeleteStep
       DEF Operation
  <1>2. CASE Opening
    BY <1>2, QuietStep, RollForwardStep, RollBackStep DEF Opening
  <1>3. CASE Crash
    BY <1>3, QuietStep
  <1>4. CASE \E f \in DOMAIN disk : EditOwnFile(f)
    BY <1>4, EditOwnFileStep
  <1>5. CASE UNCHANGED vars
    <2> USE <1>5 DEF vars
    <2>1. TypeOK' /\ PlanTyped' /\ FingerprintsTrue'
      BY DEF IInv, TypeOK, PlanTyped, FingerprintsTrue
    <2>2. PlanSafe' /\ CopiesAlike' /\ JournalPhase'
      BY DEF IInv, PlanSafe, CopiesAlike, JournalPhase, OldNames, NewNames, AllNew
    <2>3. TextSafe'
      BY DEF IInv, TextSafe, Carriers, Alive, NewNames, AllNew
    <2>4. QED
      BY <2>1, <2>2, <2>3 DEF IInv
  <1>6. QED
    BY <1>1, <1>2, <1>3, <1>4, <1>5 DEF Next

\* The strengthening holds in every reachable state.
THEOREM Inductive == Spec => []IInv
  BY InitIInv, StepIInv, PTL DEF Spec

\* Type correctness.
THEOREM TypeCorrect == Spec => []TypeOK
  <1>1. IInv => TypeOK
    BY DEF IInv
  <1>2. QED
    BY <1>1, Inductive, PTL

\* INV-4 and INV-5: no move, recovery or stale copy overwrites or removes the
\* last text of a page.
THEOREM TextKeptAlways == Spec => []TextKept
  <1>1. IInv => TextKept
    BY DEF IInv, TextSafe, TextKept
  <1>2. QED
    BY <1>1, Inductive, PTL

\* "Both files, never neither": every page not deleted is in the folder.
THEOREM NoPageLostAlways == Spec => []NoPageLost
  <1>1. IInv => NoPageLost
    BY DEF IInv, TextSafe, NoPageLost, Carriers, Ids
  <1>2. QED
    BY <1>1, Inductive, PTL

\* INV-4: an edit made outside the application is never written over.
THEOREM StaleNeverOverwritten == Spec => NoStaleOverwrite
  <1> DEFINE Kept == \A f \in DOMAIN disk :
                        \/ f \in DOMAIN disk' /\ disk'[f] = disk[f]
                        \/ f \in DOMAIN loaded /\ loaded[f] = disk[f]
  <1>1. ASSUME IInv, [Next]_vars, pc = "idle", pc' = "sidebar" PROVE Kept
    <2>1. CASE \E p \in PageId, q \in Parent, t \in TypedTitles : Create(p, q, t)
      BY <2>1 DEF Create, Put
    <2>2. CASE \E p \in PageId, t \in TypedTitles : WriteBody(p, t)
      <3>1. PICK p \in PageId, t \in TypedTitles : WriteBody(p, t)
        BY <2>2
      <3>2. /\ PathOf(loaded, p) \in DOMAIN loaded \ stale
            /\ \E x : disk' = Put(disk, PathOf(loaded, p), x)
        BY <3>1, UnambiguousPath DEF WriteBody
      <3>3. QED
        BY <1>1, <3>2 DEF Put, IInv, FingerprintsTrue
    <2>3. CASE \E p \in PageId : Delete(p)
      <3>1. PICK p \in PageId : Delete(p)
        BY <2>3
      <3>2. /\ PathOf(loaded, p) \in DOMAIN loaded \ stale
            /\ disk' = Without(disk, {PathOf(loaded, p)})
        BY <3>1, UnambiguousPath DEF Delete
      <3>3. QED
        BY <1>1, <3>2 DEF Without, IInv, FingerprintsTrue
    <2>4. QED
      BY <1>1, <2>1, <2>2, <2>3
         DEF Next, Operation, Opening, Crash, EditOwnFile, ExternalEdit, BeginMove,
             WriteMovedPage, RewriteInboundLinks, RemoveOldFile, FinishMove, WriteSidebar,
             Reload, OpenClean, BeginRecovery, RollForward, RollBack, FinishRecovery, vars
  <1>2. IInv /\ [Next]_vars => [pc = "idle" /\ pc' = "sidebar" => Kept]_vars
    BY <1>1
  <1>3. QED
    BY <1>2, Inductive, PTL DEF Spec, NoStaleOverwrite

\* No operation runs during a recovery.
LEMMA OperationPhases ==
    ASSUME Operation
    PROVE  {pc, pc'} \subseteq {"idle", "moving", "sidebar"}
  <1>1. CASE \E m \in PageId, q \in Parent : BeginMove(m, q)
    BY <1>1 DEF BeginMove
  <1>2. CASE \/ \E f \in DOMAIN plan.pages : WriteMovedPage(f)
             \/ \E f \in DOMAIN plan.links : RewriteInboundLinks(f)
             \/ \E f \in plan.deletes : RemoveOldFile(f)
             \/ FinishMove \/ WriteSidebar \/ Reload
    BY <1>2 DEF WriteMovedPage, RewriteInboundLinks, RemoveOldFile, FinishMove, WriteSidebar,
                Reload
  <1>3. CASE \/ \E p \in PageId, q \in Parent, t \in TypedTitles : Create(p, q, t)
             \/ \E p \in PageId, t \in TypedTitles : WriteBody(p, t)
             \/ \E p \in PageId : Delete(p)
    <2>1. \A p \in PageId, q \in Parent, t \in TypedTitles :
             Create(p, q, t) => pc = "idle" /\ pc' = "sidebar"
      BY DEF Create
    <2>2. \A p \in PageId, t \in TypedTitles : WriteBody(p, t) => pc = "idle" /\ pc' = "sidebar"
      BY DEF WriteBody
    <2>3. \A p \in PageId : Delete(p) => pc = "idle" /\ pc' = "sidebar"
      BY DEF Delete
    <2>4. QED
      BY <1>3, <2>1, <2>2, <2>3
  <1>4. QED
    BY <1>1, <1>2, <1>3 DEF Operation

\* The folder of an open journal lies between the two goals in every reachable
\* state.
LEMMA GoalInductive == Spec => []GInv
  <1>1. Init => GInv
    BY InitIInv DEF Init, GInv
  <1>2. GInv /\ [Next]_vars => GInv'
    <2> SUFFICES ASSUME GInv, [Next]_vars PROVE GInv'
      OBVIOUS
    <2>1. IInv /\ IInv'
      BY StepIInv DEF GInv
    <2>2. ASSUME pc' = "forward" PROVE journal' # {}
      <3>1. CASE RollForward
        <4>1. journal # {} /\ \E S : Touch(S)
          BY <3>1 DEF RollForward, GInv
        <4>2. QED
          BY <2>1, <4>1, TouchedNames
      <3>2. CASE BeginRecovery \/ UNCHANGED vars
        BY <2>2, <3>2 DEF BeginRecovery, GInv, vars
      <3>3. CASE Crash \/ (\E f \in DOMAIN disk : EditOwnFile(f))
        BY <2>2, <3>3 DEF Crash, EditOwnFile, ExternalEdit
      <3>4. CASE OpenClean \/ RollBack \/ FinishRecovery
        BY <2>2, <3>4 DEF OpenClean, RollBack, FinishRecovery
      <3>5. QED
        BY <2>2, <3>1, <3>2, <3>3, <3>4, OperationPhases DEF Next, Opening
    <2>3. ASSUME journal' # {}, ~goal'.inPlace PROVE Between'
      <3>1. CASE \E m \in PageId, q \in Parent : BeginMove(m, q)
        BY <2>1, <2>3, <3>1, BetweenBegun
      <3>2. CASE \/ \E f \in DOMAIN plan.pages : WriteMovedPage(f)
                 \/ \E f \in DOMAIN plan.links : RewriteInboundLinks(f)
                 \/ \E f \in plan.deletes : RemoveOldFile(f)
                 \/ RollForward
                 \/ RollBack
        BY <2>3, <3>2, MoveStepBetween
      <3>3. CASE \E f \in DOMAIN disk : EditOwnFile(f)
        <4>1. PICK f \in DOMAIN disk : EditOwnFile(f)
          BY <3>3
        <4>2. \E text : disk' = Put(disk, f, [disk[f] EXCEPT !.text = text])
          BY <4>1 DEF EditOwnFile, ExternalEdit
        <4>3. Shape(disk') = Shape(disk) /\ DOMAIN disk' = DOMAIN disk
          <5>1. disk[f] \in Page
            BY <2>1 DEF IInv, TypeOK
          <5>2. PICK text : disk' = Put(disk, f, [disk[f] EXCEPT !.text = text])
            BY <4>2
          <5>3. /\ [disk[f] EXCEPT !.text = text].id = disk[f].id
                /\ [disk[f] EXCEPT !.text = text].parent = disk[f].parent
            BY <5>1 DEF Page
          <5>4. QED
            BY <5>2, <5>3, SpotKept
        <4>4. UNCHANGED <<goal, plan>> /\ \E S : Touch(S)
          BY <4>1 DEF EditOwnFile, ExternalEdit
        <4>5. QED
          BY <2>1, <2>3, <4>3, <4>4, TouchedNames, BetweenKept
      <3>4. CASE \/ WriteSidebar \/ Reload \/ Crash \/ BeginRecovery \/ UNCHANGED vars
        <4>1. UNCHANGED <<disk, journal, goal>> /\ plan' \in {plan, NoPlan}
          BY <3>4 DEF WriteSidebar, Reload, Crash, BeginRecovery, vars
        <4>2. NewNames' = NewNames /\ OldNames' = OldNames
          BY <4>1 DEF NewNames, OldNames
        <4>3. QED
          BY <2>3, <4>1, <4>2, BetweenKept
      <3>5. CASE \/ \E p \in PageId, q \in Parent, t \in TypedTitles : Create(p, q, t)
                 \/ \E p \in PageId, t \in TypedTitles : WriteBody(p, t)
                 \/ \E p \in PageId : Delete(p)
                 \/ FinishMove \/ OpenClean \/ FinishRecovery
        <4>1. pc = "idle" => journal = {}
          BY <2>1 DEF IInv, JournalPhase
        <4>2. CASE FinishMove \/ OpenClean \/ FinishRecovery
          BY <2>3, <4>2 DEF FinishMove, OpenClean, FinishRecovery
        <4>3. CASE \E p \in PageId, q \in Parent, t \in TypedTitles : Create(p, q, t)
          BY <2>3, <4>1, <4>3 DEF Create
        <4>4. CASE \/ \E p \in PageId, t \in TypedTitles : WriteBody(p, t)
                   \/ \E p \in PageId : Delete(p)
          BY <2>3, <4>1, <4>4 DEF WriteBody, Delete
        <4>5. QED
          BY <3>5, <4>2, <4>3, <4>4
      <3>6. QED
        BY <3>1, <3>2, <3>3, <3>4, <3>5 DEF Next, Operation, Opening
    <2>4. QED
      BY <2>1, <2>2, <2>3 DEF GInv
  <1>3. QED
    BY <1>1, <1>2, PTL DEF Spec

\* INV-5: a recovery that ends leaves the files and parents of the folder as
\* they were before the move, or as the move would have left them.
THEOREM RecoveriesAreWhole == Spec => RecoveredAllOrNothing
  <1> DEFINE Whole == Shape(disk') \in {goal.before, goal.after}
             Ends == RecoveryCompletes /\ ~goal.inPlace /\ \A e \in journal : e.same
  <1>1. ASSUME GInv, [Next]_vars, Ends PROVE Whole
    <2>1. FinishRecovery
      <3>1. pc \in {"forward", "back"} /\ pc' = "idle"
        BY <1>1 DEF RecoveryCompletes
      <3>2. ~Operation /\ ~Crash /\ ~UNCHANGED vars /\ ~\E f \in DOMAIN disk : EditOwnFile(f)
        BY <3>1, OperationPhases DEF Crash, EditOwnFile, ExternalEdit, vars
      <3>3. ~OpenClean /\ ~BeginRecovery /\ ~RollForward /\ ~RollBack
        BY <3>1 DEF OpenClean, BeginRecovery, RollForward, RollBack
      <3>4. QED
        BY <1>1, <3>2, <3>3 DEF Next, Opening
    <2>2. journal # {}
      BY <1>1 DEF GInv, IInv, JournalPhase, RecoveryCompletes, AllNew, NewNames
    <2>3. Between /\ disk' = disk
      BY <1>1, <2>1, <2>2 DEF GInv, FinishRecovery
    <2>4. CASE pc = "forward"
      <3>1. AllNew /\ Leftover = {}
        BY <1>1, <2>1, <2>4 DEF GInv, IInv, JournalPhase, FinishRecovery
      <3>2. \A f \in DOMAIN disk : f \in OldNames => f \in NewNames
        BY <1>1, <3>1 DEF Leftover, OldNames
      <3>3. \A x \in Shape(disk) : x \in goal.after
        BY <2>3, <3>2, ShapeFacts DEF Between
      <3>4. \A x \in goal.after : x \in Shape(disk)
        BY <2>3, <3>1 DEF Between, AllNew
      <3>5. QED
        BY <2>3, <3>3, <3>4
    <2>5. CASE pc = "back"
      <3>1. ~AllNew /\ Partial = {}
        BY <1>1, <2>1, <2>5 DEF GInv, IInv, JournalPhase, FinishRecovery
      <3>2. \A f \in DOMAIN disk : f \in NewNames => f \in OldNames
        BY <3>1 DEF Partial
      <3>3. \A x \in Shape(disk) : x \in goal.before
        BY <2>3, <3>2, ShapeFacts DEF Between
      <3>4. \A x \in goal.before : x \in Shape(disk)
        BY <2>3, <3>1 DEF Between
      <3>5. QED
        BY <2>3, <3>3, <3>4
    <2>6. QED
      BY <2>1, <2>4, <2>5 DEF FinishRecovery
  <1>2. GInv /\ [Next]_vars => [Ends => Whole]_vars
    BY <1>1
  <1>3. QED
    BY <1>2, GoalInductive, PTL DEF Spec, RecoveredAllOrNothing

\* INV-3: in a process that has not crashed, the idle store's sidebar is the one
\* its files generate.
THEOREM SidebarKeepsUp == Spec => []SidebarFollowsTree
  <1>1. Init => SidebarDue
    BY DEF Init, SidebarDue
  <1>2. IInv /\ SidebarDue /\ [Next]_vars => SidebarDue'
    <2> SUFFICES ASSUME IInv, SidebarDue, [Next]_vars PROVE SidebarDue'
      OBVIOUS
    <2>1. CASE \E m \in PageId, q \in Parent : BeginMove(m, q)
      <3>1. pc' = "moving" /\ Spend("ops", MaxOps)
        BY <2>1 DEF BeginMove
      <3>2. spent'.crashes = spent.crashes /\ DOMAIN spent' = DOMAIN spent
        BY <3>1 DEF SidebarDue, Spend
      <3>3. QED
        BY <2>1, <3>1, <3>2 DEF BeginMove, SidebarDue
    <2>2. CASE \/ \E f \in DOMAIN plan.pages : WriteMovedPage(f)
               \/ \E f \in DOMAIN plan.links : RewriteInboundLinks(f)
               \/ \E f \in plan.deletes : RemoveOldFile(f)
      BY <2>2 DEF WriteMovedPage, RewriteInboundLinks, RemoveOldFile, SidebarDue
    <2>3. CASE FinishMove \/ WriteSidebar \/ Reload
      BY <2>3 DEF FinishMove, WriteSidebar, Reload, ReloadFrom, SidebarDue
    <2>4. CASE \/ \E p \in PageId, q \in Parent, t \in TypedTitles : Create(p, q, t)
               \/ \E p \in PageId, t \in TypedTitles : WriteBody(p, t)
               \/ \E p \in PageId : Delete(p)
      <3>1. pc' = "sidebar" /\ loaded' = disk' /\ Spend("ops", MaxOps)
        <4>1. \A p \in PageId, q \in Parent, t \in TypedTitles : Create(p, q, t) =>
                 pc' = "sidebar" /\ loaded' = disk' /\ Spend("ops", MaxOps)
          BY DEF Create, ReloadFrom
        <4>2. \A p \in PageId, t \in TypedTitles : WriteBody(p, t) =>
                 pc' = "sidebar" /\ loaded' = disk' /\ Spend("ops", MaxOps)
          BY DEF WriteBody, ReloadFrom
        <4>3. \A p \in PageId : Delete(p) =>
                 pc' = "sidebar" /\ loaded' = disk' /\ Spend("ops", MaxOps)
          BY DEF Delete, ReloadFrom
        <4>4. QED
          BY <2>4, <4>1, <4>2, <4>3
      <3>2. spent'.crashes = spent.crashes /\ DOMAIN spent' = DOMAIN spent
        BY <3>1 DEF SidebarDue, Spend
      <3>3. QED
        BY <3>1, <3>2 DEF SidebarDue
    <2>5. CASE Crash
      <3>1. spent' = [spent EXCEPT !["crashes"] = @ + 1]
        BY <2>5 DEF Crash, Spend
      <3>2. QED
        BY <3>1 DEF SidebarDue
    <2>6. CASE Opening
      BY <2>6 DEF Opening, OpenClean, BeginRecovery, RollForward, RollBack, FinishRecovery,
                  SidebarDue
    <2>7. CASE \E f \in DOMAIN disk : EditOwnFile(f)
      <3>1. PICK f \in DOMAIN disk : EditOwnFile(f)
        BY <2>7
      <3>2. PICK text, n : /\ disk' = Put(disk, f, [disk[f] EXCEPT !.text = text])
                           /\ spent' = [spent EXCEPT !["edits"] = n]
        BY <3>1 DEF EditOwnFile, ExternalEdit, Spend
      <3>3. disk[f] \in Page
        BY DEF IInv, TypeOK
      <3>4. /\ DOMAIN disk' = DOMAIN disk
            /\ \A g \in DOMAIN disk : /\ disk'[g].id = disk[g].id
                                      /\ disk'[g].parent = disk[g].parent
                                      /\ disk'[g].title = disk[g].title
        BY <3>2, <3>3 DEF Put, Page
      <3>5. TreeOf(disk') = TreeOf(disk)
        BY <3>4 DEF TreeOf
      <3>6. pc # "sidebar" /\ UNCHANGED <<pc, sidebar>>
        BY <3>1 DEF EditOwnFile, ExternalEdit
      <3>7. spent'.crashes = spent.crashes /\ DOMAIN spent' = DOMAIN spent
        BY <3>2 DEF SidebarDue
      <3>8. QED
        BY <3>5, <3>6, <3>7 DEF SidebarDue
    <2>8. CASE UNCHANGED vars
      BY <2>8 DEF vars, SidebarDue
    <2>9. QED
      BY <2>1, <2>2, <2>3, <2>4, <2>5, <2>6, <2>7, <2>8 DEF Next, Operation
  <1>3. SidebarDue => SidebarFollowsTree
    BY DEF SidebarDue, SidebarFollowsTree
  <1>4. QED
    BY <1>1, <1>2, <1>3, Inductive, PTL DEF Spec
-----------------------------------------------------------------------------
(* Links: names up to the renames under way *)

\* Renames that are one to one, with no name both old and new.
Paired(R) == \A r, s \in R : (r[1] = s[1] <=> r[2] = s[2]) /\ r[1] # s[2]

\* Renaming, and undoing it.
LEMMA RenamedFacts ==
    ASSUME NEW R, Paired(R)
    PROVE  /\ \A r \in R : Renamed(R, r[1]) = r[2]
           /\ \A f : (\A r \in R : r[1] # f) => Renamed(R, f) = f
           /\ \A r \in R : Renamed(Reverse(R), r[2]) = r[1]
           /\ \A f : (\A r \in R : r[2] # f) => Renamed(Reverse(R), f) = f
  <1>1. ASSUME NEW r \in R PROVE Renamed(R, r[1]) = r[2]
    <2> DEFINE s == CHOOSE s \in R : s[1] = r[1]
    <2>1. s \in R /\ s[1] = r[1]
      OBVIOUS
    <2>2. s[2] = r[2]
      BY <2>1 DEF Paired
    <2> QED
      BY <2>2 DEF Renamed
  <1>2. ASSUME NEW f, \A r \in R : r[1] # f PROVE Renamed(R, f) = f
    BY <1>2 DEF Renamed
  <1>3. /\ \A s \in Reverse(R) : \E r \in R : s = <<r[2], r[1]>>
        /\ \A r \in R : <<r[2], r[1]>> \in Reverse(R)
    BY DEF Reverse
  <1>4. ASSUME NEW r \in R PROVE Renamed(Reverse(R), r[2]) = r[1]
    <2> DEFINE s == CHOOSE s \in Reverse(R) : s[1] = r[2]
    <2>1. \E t \in Reverse(R) : t[1] = r[2]
      BY <1>3
    <2>2. s \in Reverse(R) /\ s[1] = r[2]
      BY <2>1
    <2>3. s[2] = r[1]
      BY <1>3, <2>2 DEF Paired
    <2> HIDE DEF s
    <2>4. Renamed(Reverse(R), r[2]) = s[2]
      BY <2>1 DEF Renamed, s
    <2> QED
      BY <2>3, <2>4
  <1>5. ASSUME NEW f, \A r \in R : r[2] # f PROVE Renamed(Reverse(R), f) = f
    BY <1>3, <1>5 DEF Renamed
  <1> QED
    BY <1>1, <1>2, <1>4, <1>5

\* The renames of a journal, as pairs.
LEMMA RenamesOfJournal ==
    /\ \A e \in journal : <<e.old, e.new>> \in Renames
    /\ \A r \in Renames : \E e \in journal : r = <<e.old, e.new>>
  BY DEF Renames

\* The renames of a journal are paired,
LEMMA JournalPaired ==
    ASSUME RenamesPaired
    PROVE  Paired(Renames)
  BY RenamesOfJournal DEF RenamesPaired, Paired, OldNames, NewNames

\* Origin leads from every name to the one before the move.
LEMMA OriginFacts ==
    ASSUME RenamesPaired
    PROVE  /\ \A e \in journal : Origin(e.old) = e.old /\ Origin(e.new) = e.old
           /\ \A f : f \notin NewNames => Origin(f) = f
           /\ \A f : f \in NewNames => Origin(f) \in OldNames
           /\ \A f : Origin(Renamed(Renames, f)) = Origin(f)
           /\ \A f : Origin(Renamed(Reverse(Renames), f)) = Origin(f)
           /\ \A f \in OldNames : Renamed(Renames, f) # f
           /\ \A f \in NewNames : Renamed(Reverse(Renames), f) # f
  <1>1. Paired(Renames)
    BY JournalPaired
  <1>2. ASSUME NEW e \in journal
        PROVE  /\ Renamed(Renames, e.old) = e.new
               /\ Origin(e.new) = e.old
    <2>1. PICK r \in Renames : r = <<e.old, e.new>>
      BY RenamesOfJournal
    <2> QED
      BY <1>1, <2>1, RenamedFacts DEF Origin
  <1>3. ASSUME NEW f, f \notin NewNames PROVE Origin(f) = f
    <2>1. \A r \in Renames : r[2] # f
      BY <1>3, RenamesOfJournal DEF NewNames
    <2> QED
      BY <1>1, <2>1, RenamedFacts DEF Origin
  <1>4. ASSUME NEW f, f \notin OldNames PROVE Renamed(Renames, f) = f
    <2>1. \A r \in Renames : r[1] # f
      BY <1>4, RenamesOfJournal DEF OldNames
    <2> QED
      BY <1>1, <2>1, RenamedFacts
  <1>5. \A e \in journal : e.old \notin NewNames /\ e.old # e.new
    BY DEF RenamesPaired, OldNames, NewNames
  <1>6. ASSUME NEW f PROVE Origin(Renamed(Renames, f)) = Origin(f)
    <2>1. CASE f \in OldNames
      BY <1>2, <1>3, <1>5, <2>1 DEF OldNames
    <2> QED
      BY <1>4, <2>1
  <1>7. ASSUME NEW f PROVE Origin(Renamed(Reverse(Renames), f)) = Origin(f)
    <2>1. Origin(f) \notin NewNames
      BY <1>2, <1>3, <1>5 DEF NewNames
    <2> QED
      BY <1>3, <2>1 DEF Origin
  <1>8. \A f \in NewNames : Origin(f) \in OldNames /\ Renamed(Reverse(Renames), f) # f
    BY <1>2, <1>5 DEF NewNames, OldNames, Origin
  <1>9. \A f \in OldNames : Renamed(Renames, f) # f
    BY <1>2, <1>5 DEF OldNames
  <1> QED
    BY <1>2, <1>3, <1>5, <1>6, <1>7, <1>8, <1>9

\* Touched journals rename what they renamed.
LEMMA TouchedRenames ==
    ASSUME NEW S, Touch(S)
    PROVE  /\ Renames' = Renames /\ OldNames' = OldNames /\ NewNames' = NewNames
           /\ \A f : Origin(f)' = Origin(f)
           /\ \A x \in journal' : \E e \in journal : x.old = e.old /\ x.new = e.new
  <1> DEFINE low(e) == [e EXCEPT !.same = @ /\ e.old \notin S]
  <1>1. journal' = {low(e) : e \in journal}
    BY DEF Touch
  <1>2. \A e \in journal : low(e).old = e.old /\ low(e).new = e.new
    OBVIOUS
  <1> HIDE DEF low
  <1>3. Renames' = Renames
    BY <1>1, <1>2 DEF Renames
  <1> QED
    BY <1>1, <1>2, <1>3 DEF Origin, OldNames, NewNames

\* The links of a rewritten page: the same targets, under their renamed stems.
LEMMA RelinkedLinks ==
    ASSUME NEW R, NEW x \in Page
    PROVE  /\ \A k \in Relink(R, x).links : \E l \in x.links :
                 k.to = l.to /\ k.stem = Renamed(R, l.stem)
           /\ \A l \in x.links : \E k \in Relink(R, x).links :
                 k.to = l.to /\ k.stem = Renamed(R, l.stem)
  <1> DEFINE new(l) == [l EXCEPT !.stem = Renamed(R, l.stem)]
  <1>1. Relink(R, x).links = {new(l) : l \in x.links}
    BY DEF Relink, Page
  <1>2. \A l \in x.links : new(l).to = l.to /\ new(l).stem = Renamed(R, l.stem)
    BY DEF Page, Link
  <1> HIDE DEF new
  <1> QED
    BY <1>1, <1>2

\* A page no link of which a rewrite would change.
LEMMA HealedLinks ==
    ASSUME NEW R, NEW x \in Page, Relink(R, x) = x, NEW l \in x.links, Paired(R)
    PROVE  \A r \in R : r[1] # l.stem
  <1>1. PICK k \in Relink(R, x).links : k.stem = Renamed(R, l.stem)
    BY RelinkedLinks
  <1>2. PICK j \in x.links : l.stem = Renamed(R, j.stem)
    BY RelinkedLinks
  <1>3. ASSUME NEW r \in R, r[1] = l.stem PROVE FALSE
    <2>1. CASE \E s \in R : s[1] = j.stem
      BY <1>2, <1>3, <2>1, RenamedFacts DEF Paired
    <2>2. CASE \A s \in R : s[1] # j.stem
      BY <1>2, <1>3, <2>2, RenamedFacts
    <2> QED
      BY <2>1, <2>2
  <1> QED
    BY <1>3

\* and so are they backwards.
LEMMA ReversePaired ==
    ASSUME NEW R, Paired(R)
    PROVE  Paired(Reverse(R))
  BY DEF Paired, Reverse

\* Every file has a copy after the step, under its old or its new name.
Followed == \A h \in DOMAIN disk :
    \E g \in DOMAIN disk' : Origin(g) = Origin(h) /\ disk'[g].id = disk[h].id

\* OnlyFile and Resolves in a folder d, by the renames under way.
OnlyIn(d, f, p) == \A g \in Carriers(d, p) : Origin(g) = Origin(f)
ResolvesIn(d, l) == Alive(l.to) => \E g \in Carriers(d, l.to) : Origin(g) = Origin(l.stem)

\* What resolved still does, and an only file was one before.
LEMMA FollowedLinks ==
    ASSUME Followed
    PROVE  /\ \A l : Resolves(l) => ResolvesIn(disk', l)
           /\ \A f, p : OnlyIn(disk', f, p) => OnlyFile(f, p)
  <1>1. \A p : \A h \in Carriers(disk, p) : \E g \in Carriers(disk', p) : Origin(g) = Origin(h)
    BY DEF Followed, Carriers
  <1> QED
    BY <1>1 DEF Resolves, ResolvesIn, OnlyFile, OnlyIn

\* A link that may stand in a page written now.
Sound(l) == Resolves(l) /\ (pc = "moving" => l.stem \notin OldNames)

\* One file written or removed, by a move or by its recovery.
LEMMA OneFileTracks ==
    ASSUME LinksTrack, FilesOfLivePages, Followed, NEW f,
           UNCHANGED <<pc, latest>>, pc \notin {"idle", "sidebar"},
           \A g : Origin(g)' = Origin(g), OldNames' = OldNames,
           \A h \in DOMAIN disk' \ {f} : h \in DOMAIN disk /\ disk'[h] = disk[h],
           f \in DOMAIN disk' =>
              /\ Alive(disk'[f].id)
              /\ \A l \in disk'[f].links : latest[l.to] # 0
              /\ OnlyFile(f, disk'[f].id) => \A l \in disk'[f].links : Sound(l),
           DOMAIN plan'.pages \subseteq DOMAIN plan.pages,
           \A g \in DOMAIN plan'.pages : plan'.pages[g] = plan.pages[g],
           DOMAIN plan'.links \subseteq DOMAIN plan.links,
           \A g \in DOMAIN plan'.links : plan'.links[g] = plan.links[g],
           (DOMAIN plan.pages \cup DOMAIN plan.links \cup plan.deletes) \ {f}
              \subseteq DOMAIN plan'.pages \cup DOMAIN plan'.links \cup plan'.deletes
    PROVE  LinksTrack' /\ FilesOfLivePages'
  <1>1. /\ \A l : Resolves(l) => ResolvesIn(disk', l)
        /\ \A h, p : OnlyIn(disk', h, p) => OnlyFile(h, p)
    BY FollowedLinks
  <1>2. ASSUME NEW h \in DOMAIN disk', OnlyIn(disk', h, disk'[h].id), NEW l \in disk'[h].links
        PROVE  /\ ResolvesIn(disk', l)
               /\ pc = "moving" /\ l.stem \in OldNames
                     => h \in DOMAIN plan'.pages \cup DOMAIN plan'.links \cup plan'.deletes
    <2>1. OnlyFile(h, disk'[h].id)
      BY <1>1, <1>2
    <2>2. CASE h = f
      BY <1>1, <1>2, <2>1, <2>2 DEF Sound
    <2>3. CASE h # f
      BY <1>1, <1>2, <2>1, <2>3 DEF LinksTrack
    <2> QED
      BY <2>2, <2>3
  <1>3. ASSUME NEW h \in DOMAIN plan'.pages, OnlyIn(disk', h, plan'.pages[h].id),
               NEW l \in plan'.pages[h].links
        PROVE  ResolvesIn(disk', l) /\ l.stem \notin OldNames
    <2>1. OnlyFile(h, plan'.pages[h].id)
      BY <1>1, <1>3
    <2> QED
      BY <1>1, <1>3, <2>1 DEF LinksTrack
  <1>4. ASSUME NEW h \in DOMAIN plan'.links, OnlyIn(disk', h, plan'.links[h].id),
               NEW l \in plan'.links[h].links
        PROVE  ResolvesIn(disk', l) /\ l.stem \notin OldNames
    <2>1. OnlyFile(h, plan'.links[h].id)
      BY <1>1, <1>4
    <2> QED
      BY <1>1, <1>4, <2>1 DEF LinksTrack
  <1>5. LinksTrack'
    BY <1>2, <1>3, <1>4 DEF LinksTrack, OnlyFile, Resolves, OnlyIn, ResolvesIn, Alive
  <1>6. FilesOfLivePages'
    BY DEF FilesOfLivePages, Alive
  <1> QED
    BY <1>5, <1>6

\* What a plan has left after a step that does its part for f.
PlanLess(f) ==
    /\ DOMAIN plan'.pages \subseteq DOMAIN plan.pages
    /\ \A g \in DOMAIN plan'.pages : plan'.pages[g] = plan.pages[g]
    /\ DOMAIN plan'.links \subseteq DOMAIN plan.links
    /\ \A g \in DOMAIN plan'.links : plan'.links[g] = plan.links[g]
    /\ (DOMAIN plan.pages \cup DOMAIN plan.links \cup plan.deletes) \ {f}
          \subseteq DOMAIN plan'.pages \cup DOMAIN plan'.links \cup plan'.deletes

\* A file written over the page it carries, or over no file next to its old copy.
LEMMA WrittenTracks ==
    ASSUME LInv, IInv', NEW f, NEW x,
           pc \notin {"idle", "sidebar"}, UNCHANGED <<pc, latest>>,
           disk' = Put(disk, f, x), Touch({f}), PlanLess(f), plan'.deletes = plan.deletes,
           f \in OldNames => f \in DOMAIN disk,
           f \in DOMAIN disk => x.id = disk[f].id,
           \A e \in journal : e.new = f /\ e.old \in DOMAIN disk => x.id = disk[e.old].id,
           Alive(x.id), \A l \in x.links : latest[l.to] # 0,
           OnlyFile(f, x.id) => \A l \in x.links : Sound(l)
    PROVE  LInv'
  <1>1. /\ DOMAIN disk' = DOMAIN disk \cup {f}
        /\ disk'[f] = x
        /\ \A h \in DOMAIN disk : h # f => disk'[h] = disk[h]
        /\ \A h \in DOMAIN disk : disk'[h].id = disk[h].id
    BY DEF Put
  <1>2. /\ OldNames' = OldNames /\ NewNames' = NewNames
        /\ \A g : Origin(g)' = Origin(g)
        /\ \A z \in journal' : \E e \in journal : z.old = e.old /\ z.new = e.new
    BY TouchedRenames
  <1>3. Followed
    BY <1>1 DEF Followed
  <1>4. LinksTrack' /\ FilesOfLivePages'
    BY <1>1, <1>2, <1>3, OneFileTracks DEF LInv, PlanLess
  <1>5. RenamesPaired'
    <2> USE DEF LInv, RenamesPaired
    <2>1. ASSUME NEW z \in journal', {z.old, z.new} \subseteq DOMAIN disk'
          PROVE  disk'[z.old].id = disk'[z.new].id
      <3>1. PICK e \in journal : z.old = e.old /\ z.new = e.new
        BY <1>2
      <3>2. e.old \in DOMAIN disk
        BY <1>1, <2>1, <3>1 DEF OldNames
      <3>3. CASE e.new = f
        BY <1>1, <3>1, <3>2, <3>3
      <3>4. CASE e.new # f
        BY <1>1, <2>1, <3>1, <3>2, <3>4
      <3> QED
        BY <3>3, <3>4
    <2>2. AllNew' \/ OldNames' \subseteq DOMAIN disk'
      BY <1>1, <1>2 DEF AllNew
    <2>3. pc' = "moving" => OldNames' \cap DOMAIN disk' \subseteq plan'.deletes
      BY <1>1, <1>2
    <2>4. \A y, z \in journal' : y.old = z.old <=> y.new = z.new
      BY <1>2
    <2> QED
      BY <1>2, <2>1, <2>2, <2>3, <2>4
  <1> QED
    BY <1>4, <1>5 DEF LInv

\* A file removed while its copy stays: an old one once all new ones are there,
\* or a new one while all old ones are.
LEMMA RemovedTracks ==
    ASSUME LInv, IInv', NEW f, NEW g \in DOMAIN disk, f # g, Origin(f) = Origin(g),
           f \in DOMAIN disk => disk[f].id = disk[g].id,
           pc \notin {"idle", "sidebar"}, UNCHANGED <<pc, latest>>,
           disk' = Without(disk, {f}), Touch({f}), PlanLess(f),
           plan.deletes \ {f} \subseteq plan'.deletes,
           \/ AllNew /\ f \notin NewNames
           \/ OldNames \subseteq DOMAIN disk /\ f \notin OldNames
    PROVE  LInv'
  <1>1. /\ DOMAIN disk' = DOMAIN disk \ {f}
        /\ \A h \in DOMAIN disk' : disk'[h] = disk[h]
    BY DEF Without
  <1>2. /\ OldNames' = OldNames /\ NewNames' = NewNames
        /\ \A h : Origin(h)' = Origin(h)
        /\ \A z \in journal' : \E e \in journal : z.old = e.old /\ z.new = e.new
    BY TouchedRenames
  <1>3. Followed
    BY <1>1 DEF Followed
  <1>4. LinksTrack' /\ FilesOfLivePages'
    BY <1>1, <1>2, <1>3, OneFileTracks DEF LInv, PlanLess
  <1>5. RenamesPaired'
    <2> USE DEF LInv, RenamesPaired
    <2>1. ASSUME NEW z \in journal', {z.old, z.new} \subseteq DOMAIN disk'
          PROVE  disk'[z.old].id = disk'[z.new].id
      <3>1. PICK e \in journal : z.old = e.old /\ z.new = e.new
        BY <1>2
      <3>2. disk[e.old].id = disk[e.new].id
        BY <1>1, <2>1, <3>1
      <3> QED
        BY <1>1, <2>1, <3>1, <3>2
    <2>2. AllNew' \/ OldNames' \subseteq DOMAIN disk'
      BY <1>1, <1>2 DEF AllNew
    <2>3. pc' = "moving" => OldNames' \cap DOMAIN disk' \subseteq plan'.deletes
      BY <1>1, <1>2
    <2>4. \A y, z \in journal' : y.old = z.old <=> y.new = z.new
      BY <1>2
    <2> QED
      BY <1>2, <2>1, <2>2, <2>3, <2>4
  <1> QED
    BY <1>4, <1>5 DEF LInv

\* The steps of apply_move.
LEMMA ApplyMoveTracks ==
    ASSUME LInv, IInv', NEW f,
           \/ f \in DOMAIN plan.pages /\ WriteMovedPage(f)
           \/ f \in DOMAIN plan.links /\ RewriteInboundLinks(f)
           \/ f \in plan.deletes /\ RemoveOldFile(f)
    PROVE  LInv'
  <1>1. /\ plan = [pages |-> plan.pages, links |-> plan.links, deletes |-> plan.deletes]
        /\ pc = "moving" /\ UNCHANGED <<pc, latest>> /\ Touch({f})
    BY DEF LInv, IInv, PlanTyped, WriteMovedPage, RewriteInboundLinks, RemoveOldFile
  <1>2. CASE f \in DOMAIN plan.pages /\ WriteMovedPage(f)
    <2> DEFINE x == plan.pages[f]
    <2>1. disk' = Put(disk, f, x) /\ plan' = [plan EXCEPT !.pages = Without(@, {f})]
      BY <1>2 DEF WriteMovedPage
    <2>2. PlanLess(f) /\ plan'.deletes = plan.deletes
      BY <1>1, <2>1 DEF PlanLess, Without
    <2>3. /\ f \in OldNames => f \in DOMAIN disk
          /\ f \in DOMAIN disk => x.id = disk[f].id
          /\ \A e \in journal : e.new = f /\ e.old \in DOMAIN disk => x.id = disk[e.old].id
      BY <1>2 DEF LInv, IInv, PlanSafe, Alike
    <2>4. Alive(x.id) /\ \A l \in x.links : latest[l.to] # 0
      BY <1>2 DEF LInv, FilesOfLivePages
    <2>5. OnlyFile(f, x.id) => \A l \in x.links : Sound(l)
      BY <1>2 DEF LInv, LinksTrack, Sound
    <2> HIDE DEF x
    <2> QED
      BY <1>1, <2>1, <2>2, <2>3, <2>4, <2>5, WrittenTracks
  <1>3. CASE f \in DOMAIN plan.links /\ RewriteInboundLinks(f)
    <2> DEFINE x == plan.links[f]
    <2>1. disk' = Put(disk, f, x) /\ plan' = [plan EXCEPT !.links = Without(@, {f})]
      BY <1>3 DEF RewriteInboundLinks
    <2>2. PlanLess(f) /\ plan'.deletes = plan.deletes
      BY <1>1, <2>1 DEF PlanLess, Without
    <2>3. f \in DOMAIN disk /\ x.id = disk[f].id
      BY <1>3 DEF LInv, IInv, PlanSafe, Alike
    <2>4. \A e \in journal : e.new = f /\ e.old \in DOMAIN disk => x.id = disk[e.old].id
      BY <2>3 DEF LInv, RenamesPaired
    <2>5. Alive(x.id) /\ \A l \in x.links : latest[l.to] # 0
      BY <1>3, <2>3 DEF LInv, FilesOfLivePages
    <2>6. OnlyFile(f, x.id) => \A l \in x.links : Sound(l)
      BY <1>3 DEF LInv, LinksTrack, Sound
    <2> HIDE DEF x
    <2> QED
      BY <1>1, <2>1, <2>2, <2>3, <2>4, <2>5, <2>6, WrittenTracks
  <1>4. CASE f \in plan.deletes /\ RemoveOldFile(f)
    <2>1. /\ disk' = Without(disk, {f})
          /\ plan' = [plan EXCEPT !.deletes = @ \ {f}]
          /\ DOMAIN plan.pages = {}
      BY <1>4 DEF RemoveOldFile, Empty
    <2>2. AllNew
      BY <1>1, <2>1 DEF LInv, IInv, PlanSafe, AllNew
    <2>3. PICK e \in journal : f = e.old /\ f \notin NewNames
      BY <1>1, <1>4 DEF LInv, IInv, PlanSafe, OldNames
    <2>4. /\ e.new \in DOMAIN disk /\ e.new # f /\ Origin(f) = Origin(e.new)
          /\ f \in DOMAIN disk => disk[f].id = disk[e.new].id
      BY <2>2, <2>3, OriginFacts DEF LInv, RenamesPaired, AllNew, NewNames
    <2>5. PlanLess(f) /\ plan.deletes \ {f} \subseteq plan'.deletes
      BY <1>1, <2>1 DEF PlanLess
    <2> QED
      BY <1>1, <2>1, <2>2, <2>3, <2>4, <2>5, RemovedTracks
  <1> QED
    BY <1>2, <1>3, <1>4

\* A file whose links recovery heals.
LEMMA HealedTracks ==
    ASSUME LInv, IInv', pc \in {"forward", "back"}, NEW R \in {Renames, Reverse(Renames)},
           NEW f \in DOMAIN disk,
           disk' = Put(disk, f, Relink(R, disk[f])), Touch({f}),
           UNCHANGED <<pc, plan, latest>>
    PROVE  LInv'
  <1> DEFINE x == Relink(R, disk[f])
  <1>1. disk[f] \in Page /\ \A r \in R : r[2] \in File
    BY RenamesAreFiles DEF LInv, IInv, TypeOK
  <1>2. x.id = disk[f].id
    BY <1>1, RelinkFacts DEF Alike
  <1>3. \A k \in x.links : \E l \in disk[f].links : k.to = l.to /\ Origin(k.stem) = Origin(l.stem)
    BY <1>1, RelinkedLinks, OriginFacts DEF LInv
  <1>4. Alive(x.id) /\ \A k \in x.links : latest[k.to] # 0
    BY <1>2, <1>3 DEF LInv, FilesOfLivePages
  <1>5. OnlyFile(f, x.id) => \A k \in x.links : Sound(k)
    BY <1>2, <1>3 DEF LInv, LinksTrack, Sound, Resolves
  <1>6. \A e \in journal : e.new = f /\ e.old \in DOMAIN disk => x.id = disk[e.old].id
    BY <1>2 DEF LInv, RenamesPaired
  <1>7. PlanLess(f) /\ plan'.deletes = plan.deletes
    BY DEF PlanLess
  <1> HIDE DEF x
  <1> QED
    BY <1>2, <1>4, <1>5, <1>6, <1>7, WrittenTracks DEF x

\* recover_interrupted_move, either way.
LEMMA RecoveryTracks ==
    ASSUME LInv, IInv', RollForward \/ RollBack
    PROVE  LInv'
  <1>1. CASE RollForward
    <2>1. AllNew /\ pc = "forward" /\ UNCHANGED <<pc, plan, latest>>
      BY <1>1 DEF RollForward, LInv, IInv, JournalPhase
    <2>2. ASSUME NEW f \in Leftover, disk' = Without(disk, {f}), Touch({f}) PROVE LInv'
      <3>1. PICK e \in journal : f = e.old /\ f \notin NewNames
        BY DEF Leftover
      <3>2. /\ e.new \in DOMAIN disk /\ e.new # f /\ Origin(f) = Origin(e.new)
            /\ f \in DOMAIN disk => disk[f].id = disk[e.new].id
        BY <2>1, <3>1, OriginFacts DEF LInv, RenamesPaired, AllNew, NewNames
      <3>3. PlanLess(f) /\ plan'.deletes = plan.deletes
        BY <2>1 DEF PlanLess
      <3> QED
        BY <2>1, <2>2, <3>1, <3>2, <3>3, RemovedTracks
    <2>3. ASSUME NEW f \in Unhealed(Renames),
                 disk' = Put(disk, f, Relink(Renames, disk[f])), Touch({f})
          PROVE  LInv'
      BY <2>1, <2>3, HealedTracks DEF Unhealed
    <2> QED
      BY <1>1, <2>2, <2>3 DEF RollForward
  <1>2. CASE RollBack
    <2>1. ~AllNew /\ pc = "back" /\ UNCHANGED <<pc, plan, latest>>
      BY <1>2 DEF RollBack, LInv, IInv, JournalPhase
    <2>2. ASSUME NEW f \in Partial, disk' = Without(disk, {f}), Touch({f}) PROVE LInv'
      <3>1. PICK e \in journal : f = e.new /\ f \notin OldNames /\ f \in DOMAIN disk
        BY DEF Partial, NewNames
      <3>2. OldNames \subseteq DOMAIN disk
        BY <2>1 DEF LInv, RenamesPaired
      <3>3. /\ e.old \in DOMAIN disk /\ e.old # f /\ Origin(f) = Origin(e.old)
            /\ disk[f].id = disk[e.old].id
        BY <3>1, <3>2, OriginFacts DEF LInv, RenamesPaired, OldNames
      <3>4. PlanLess(f) /\ plan'.deletes = plan.deletes
        BY <2>1 DEF PlanLess
      <3> QED
        BY <2>1, <2>2, <3>1, <3>2, <3>3, <3>4, RemovedTracks
    <2>3. ASSUME NEW f \in Unhealed(Reverse(Renames)),
                 disk' = Put(disk, f, Relink(Reverse(Renames), disk[f])), Touch({f})
          PROVE  LInv'
      BY <2>1, <2>3, HealedTracks DEF Unhealed
    <2> QED
      BY <1>2, <2>2, <2>3 DEF RollBack
  <1> QED
    BY <1>1, <1>2

\* With no journal and no plan, what links track is what LinksFollow says.
Settled ==
    /\ \A f \in DOMAIN disk : Carriers(disk, disk[f].id) = {f} =>
          \A l \in disk[f].links : Alive(l.to) => l.stem \in Carriers(disk, l.to)
    /\ \A f \in DOMAIN disk : Alive(disk[f].id) /\ \A l \in disk[f].links : latest[l.to] # 0

\* No move is open, and the store knows the folder but for texts.
AtRest ==
    /\ journal = {} /\ plan = NoPlan /\ pc # "moving"
    /\ DOMAIN loaded = DOMAIN disk
    /\ \A f \in DOMAIN disk : loaded[f].id = disk[f].id /\ loaded[f].links = disk[f].links
    /\ Settled

\* Without a journal every name is its own.
LEMMA NoRenames ==
    ASSUME journal = {}
    PROVE  /\ \A f : Origin(f) = f
           /\ OldNames = {} /\ NewNames = {}
  BY DEF Origin, Renamed, Reverse, Renames, OldNames, NewNames

\* A folder at rest says the same of its links as one in a move without renames,
LEMMA SettledTracks == IInv /\ AtRest => LInv
  <1> SUFFICES ASSUME IInv, AtRest PROVE LInv
    OBVIOUS
  <1> USE DEF AtRest
  <1>1. /\ \A f : Origin(f) = f
        /\ OldNames = {} /\ NewNames = {}
    BY NoRenames
  <1>2. DOMAIN plan.pages = {} /\ DOMAIN plan.links = {}
    BY DEF NoPlan, Empty
  <1>3. RenamesPaired
    BY <1>1 DEF RenamesPaired
  <1>4. FilesOfLivePages
    BY <1>2 DEF FilesOfLivePages, Settled
  <1>5. LinksTrack
    <2>1. ASSUME NEW f \in DOMAIN disk, OnlyFile(f, disk[f].id), NEW l \in disk[f].links
          PROVE  Resolves(l)
      <3>1. \A g \in Carriers(disk, disk[f].id) : g = f
        BY <1>1, <2>1 DEF OnlyFile
      <3>2. Carriers(disk, disk[f].id) = {f}
        BY <3>1 DEF Carriers
      <3> QED
        BY <3>2 DEF Settled, Resolves
    <2> QED
      BY <1>1, <1>2, <2>1 DEF LinksTrack
  <1> QED
    BY <1>3, <1>4, <1>5 DEF LInv

\* and the other way round.
LEMMA TrackedSettles ==
    ASSUME LInv, journal = {}
    PROVE  Settled
  <1>1. \A f : Origin(f) = f
    BY NoRenames
  <1>2. ASSUME NEW f \in DOMAIN disk, Carriers(disk, disk[f].id) = {f}, NEW l \in disk[f].links,
               Alive(l.to)
        PROVE  l.stem \in Carriers(disk, l.to)
    <2>1. OnlyFile(f, disk[f].id)
      BY <1>1, <1>2 DEF OnlyFile
    <2>2. PICK g \in Carriers(disk, l.to) : Origin(g) = Origin(l.stem)
      BY <1>2, <2>1 DEF LInv, LinksTrack, Resolves
    <2> QED
      BY <1>1, <2>2
  <1> QED
    BY <1>2 DEF Settled, LInv, FilesOfLivePages

\* When every rename is over, links that no longer use the names of one side settle.
LEMMA RenamesOver ==
    ASSUME LInv,
           \/ AllNew /\ \A f \in DOMAIN disk : OnlyFile(f, disk[f].id) =>
                            \A l \in disk[f].links : l.stem \notin OldNames
           \/ /\ NewNames \cap DOMAIN disk = {}
              /\ \A f \in DOMAIN disk : \A l \in disk[f].links : l.stem \notin NewNames
    PROVE  Settled
  <1>1. ASSUME NEW f \in DOMAIN disk, Carriers(disk, disk[f].id) = {f}, NEW l \in disk[f].links,
               Alive(l.to)
        PROVE  l.stem \in Carriers(disk, l.to)
    <2>1. OnlyFile(f, disk[f].id)
      BY <1>1 DEF OnlyFile
    <2>2. PICK g \in Carriers(disk, l.to) : Origin(g) = Origin(l.stem)
      BY <1>1, <2>1 DEF LInv, LinksTrack, Resolves
    <2>3. g \in DOMAIN disk /\ disk[g].id = l.to
      BY <2>2 DEF Carriers
    <2> USE OriginFacts DEF LInv
    <2>4. CASE AllNew /\ l.stem \notin OldNames
      <3>1. CASE l.stem \notin NewNames
        <4>1. Origin(g) = l.stem
          BY <2>2, <3>1
        <4>2. g \notin NewNames
          BY <2>4, <4>1
        <4> QED
          BY <2>2, <4>1, <4>2
      <3>2. CASE l.stem \in NewNames
        <4>1. PICK e \in journal : l.stem = e.new
          BY <3>2 DEF NewNames
        <4>2. Origin(g) = e.old
          BY <2>2, <4>1
        <4>3. e.new \in DOMAIN disk
          BY <2>4, <4>1 DEF AllNew, NewNames
        <4>4. CASE g \in NewNames
          <5>1. PICK d \in journal : g = d.new
            BY <4>4 DEF NewNames
          <5>2. d.old = e.old
            BY <4>2, <5>1
          <5> QED
            BY <2>2, <4>1, <5>1, <5>2 DEF RenamesPaired
        <4>5. CASE g \notin NewNames
          <5>1. g = e.old
            BY <4>2, <4>5
          <5> QED
            BY <2>3, <4>1, <4>3, <5>1 DEF RenamesPaired, Carriers
        <4> QED
          BY <4>4, <4>5
      <3> QED
        BY <3>1, <3>2
    <2>5. CASE NewNames \cap DOMAIN disk = {} /\ l.stem \notin NewNames
      BY <2>2, <2>3, <2>5
    <2> QED
      BY <1>1, <2>1, <2>4, <2>5
  <1> QED
    BY <1>1 DEF Settled, LInv, FilesOfLivePages

\* The same of the state after a step.
LEMMA RestTracks == IInv' /\ AtRest' => LInv'
  BY SettledTracks, PTL

\* The idle store, before any step of it.
LEMMA IdleAtRest ==
    ASSUME LInv, pc \in {"idle", "sidebar"}
    PROVE  AtRest
  <1>1. journal = {} /\ plan = NoPlan
    BY DEF LInv, IInv, JournalPhase, TypeOK
  <1> QED
    BY <1>1, TrackedSettles DEF AtRest, LInv, FilesOfLivePages

\* The folder is as it was, and so is the journal: a crash, and the start of a
\* recovery.
LEMMA DownTracks ==
    ASSUME LInv, IInv', pc' \notin {"idle", "sidebar", "moving"},
           UNCHANGED <<disk, journal, latest>>, plan' = NoPlan
    PROVE  LInv'
  <1>1. DOMAIN plan'.pages = {} /\ DOMAIN plan'.links = {}
    BY DEF NoPlan, Empty
  <1>2. /\ OldNames' = OldNames /\ NewNames' = NewNames
        /\ \A f : Origin(f)' = Origin(f)
    BY DEF OldNames, NewNames, Origin, Renames
  <1>3. RenamesPaired'
    BY <1>2 DEF LInv, RenamesPaired, AllNew
  <1>4. FilesOfLivePages'
    BY <1>1 DEF LInv, FilesOfLivePages, Alive
  <1>5. LinksTrack'
    BY <1>1, <1>2 DEF LInv, LinksTrack, OnlyFile, Resolves, Alive
  <1> QED
    BY <1>3, <1>4, <1>5 DEF LInv

\* A move that has done its part leaves no link to an old name.
LEMMA MoveEndSettles ==
    ASSUME LInv, FinishMove
    PROVE  Settled
  <1>1. /\ pc = "moving" /\ DOMAIN plan.pages = {} /\ DOMAIN plan.links = {}
        /\ plan.deletes = {}
    BY DEF FinishMove, NoPlan, Empty
  <1>2. AllNew
    BY <1>1 DEF LInv, IInv, PlanSafe, AllNew
  <1>3. \A f \in DOMAIN disk : OnlyFile(f, disk[f].id) =>
            \A l \in disk[f].links : l.stem \notin OldNames
    BY <1>1 DEF LInv, LinksTrack
  <1> QED
    BY <1>2, <1>3, RenamesOver

\* Nor does a recovery, in its direction.
LEMMA RecoverySettles ==
    ASSUME LInv, FinishRecovery
    PROVE  Settled
  <1>1. Paired(Renames) /\ Paired(Reverse(Renames))
    BY JournalPaired, ReversePaired DEF LInv
  <1>2. \A f \in DOMAIN disk : disk[f] \in Page
    BY DEF LInv, IInv, TypeOK
  <1>3. CASE pc = "forward" /\ Unhealed(Renames) = {}
    <2>1. AllNew
      BY <1>3 DEF LInv, IInv, JournalPhase
    <2>2. ASSUME NEW f \in DOMAIN disk, NEW l \in disk[f].links, l.stem \in OldNames PROVE FALSE
      <3>1. Relink(Renames, disk[f]) = disk[f]
        BY <1>3 DEF Unhealed
      <3>2. \A r \in Renames : r[1] # l.stem
        BY <1>1, <1>2, <3>1, HealedLinks
      <3> QED
        BY <2>2, <3>2, RenamesOfJournal DEF OldNames
    <2> QED
      BY <2>1, <2>2, RenamesOver
  <1>4. CASE pc = "back" /\ Partial = {} /\ Unhealed(Reverse(Renames)) = {}
    <2>1. NewNames \cap DOMAIN disk = {}
      BY <1>4 DEF Partial, LInv, RenamesPaired
    <2>2. ASSUME NEW f \in DOMAIN disk, NEW l \in disk[f].links, l.stem \in NewNames PROVE FALSE
      <3>1. Relink(Reverse(Renames), disk[f]) = disk[f]
        BY <1>4 DEF Unhealed
      <3>2. \A r \in Reverse(Renames) : r[1] # l.stem
        BY <1>1, <1>2, <3>1, HealedLinks
      <3>3. PICK e \in journal : l.stem = e.new
        BY <2>2 DEF NewNames
      <3>4. <<e.new, e.old>> \in Reverse(Renames)
        <4>1. PICK r \in Renames : r = <<e.old, e.new>>
          BY RenamesOfJournal
        <4>2. <<r[2], r[1]>> \in Reverse(Renames)
          BY DEF Reverse
        <4> QED
          BY <4>1, <4>2
      <3> QED
        BY <3>2, <3>3, <3>4
    <2> QED
      BY <2>1, <2>2, RenamesOver
  <1> QED
    BY <1>3, <1>4 DEF FinishRecovery

\* Loads and the sidebar.
LEMMA QuietTracks ==
    ASSUME LInv, IInv',
           \/ FinishMove \/ WriteSidebar \/ Reload \/ Crash
           \/ OpenClean \/ BeginRecovery \/ FinishRecovery
    PROVE  LInv'
  <1> USE DEF FinishMove, WriteSidebar, Reload, Crash, OpenClean, BeginRecovery,
              FinishRecovery, ReloadFrom
  <1>1. UNCHANGED <<disk, latest>>
    OBVIOUS
  <1>2. Settled => Settled'
    BY <1>1 DEF Settled, Alive
  <1>3. AtRest' => LInv'
    BY RestTracks
  <1>4. plan' = NoPlan
    BY DEF LInv, IInv, TypeOK
  <1>5. CASE Crash \/ BeginRecovery
    BY <1>4, <1>5, DownTracks
  <1>6. CASE FinishMove \/ FinishRecovery
    <2>1. Settled
      BY <1>6, MoveEndSettles, RecoverySettles
    <2> QED
      BY <1>1, <1>2, <1>3, <1>4, <1>6, <2>1 DEF AtRest
  <1>7. CASE OpenClean
    <2>1. Settled
      BY <1>7, TrackedSettles
    <2> QED
      BY <1>1, <1>2, <1>3, <1>4, <1>7, <2>1 DEF AtRest
  <1>8. CASE WriteSidebar \/ Reload
    <2>1. AtRest
      BY <1>8, IdleAtRest
    <2> QED
      BY <1>1, <1>2, <1>3, <1>4, <1>8, <2>1 DEF AtRest
  <1> QED
    BY <1>5, <1>6, <1>7, <1>8

\* Operations on one file.
LEMMA CreateTracks ==
    ASSUME LInv, IInv', NEW p \in PageId, NEW q \in Parent, NEW t \in TypedTitles,
           Create(p, q, t)
    PROVE  LInv'
  <1> DEFINE new == [id |-> p, parent |-> q, title |-> t, text |-> 1, links |-> {}]
  <1>1. AtRest /\ latest \in [PageId -> Nat \cup {Gone}]
    BY IdleAtRest DEF Create, LInv, IInv, TypeOK
  <1>2. PICK f \in File \ DOMAIN disk : disk' = Put(disk, f, new)
    BY DEF Create
  <1>3. /\ DOMAIN disk' = DOMAIN disk \cup {f}
        /\ disk'[f] = new
        /\ \A g \in DOMAIN disk : disk'[g] = disk[g]
    BY <1>2 DEF Put
  <1>4. /\ latest[p] = 0 /\ latest' = [latest EXCEPT ![p] = 1]
        /\ loaded' = disk' /\ pc' = "sidebar" /\ plan' = plan /\ journal' = journal
    BY DEF Create, ReloadFrom
  <1>5. \A g \in DOMAIN disk : disk[g].id # p
    BY <1>1, <1>4 DEF AtRest, Settled, Alive
  <1>6. \A g \in DOMAIN disk : disk[g].id \in PageId /\ \A l \in disk[g].links : l.to \in PageId
    BY DEF LInv, IInv, TypeOK, Page, Link
  <1>7. ASSUME NEW g \in DOMAIN disk', Carriers(disk', disk'[g].id) = {g}, NEW l \in disk'[g].links,
               latest'[l.to] > 0
        PROVE  l.stem \in Carriers(disk', l.to)
    <2>1. g \in DOMAIN disk /\ disk'[g] = disk[g]
      BY <1>3, <1>7
    <2>2. Carriers(disk, disk[g].id) = {g}
      BY <1>3, <1>7, <2>1 DEF Carriers
    <2>3. latest[l.to] # 0 /\ l.to \in PageId
      BY <1>1, <1>6, <1>7, <2>1 DEF AtRest, Settled
    <2>4. Alive(l.to)
      BY <1>1, <1>4, <1>7, <2>3 DEF Alive
    <2>5. l.stem \in Carriers(disk, l.to)
      BY <1>1, <1>7, <2>1, <2>2, <2>4 DEF AtRest, Settled
    <2> QED
      BY <1>3, <2>5 DEF Carriers
  <1>8. ASSUME NEW g \in DOMAIN disk'
        PROVE  latest'[disk'[g].id] > 0 /\ \A l \in disk'[g].links : latest'[l.to] # 0
    <2>1. CASE g = f
      BY <1>1, <1>3, <1>4, <2>1
    <2>2. CASE g # f
      BY <1>1, <1>3, <1>4, <1>6, <2>2 DEF AtRest, Settled, Alive
    <2> QED
      BY <2>1, <2>2
  <1>9. Settled'
    BY <1>7, <1>8 DEF Settled, Alive
  <1> QED
    BY <1>1, <1>4, <1>9, RestTracks DEF AtRest

\* An edit of a page keeps every link on its page.
LEMMA WriteBodyTracks ==
    ASSUME LInv, IInv', NEW p \in PageId, NEW t \in TypedTitles, WriteBody(p, t)
    PROVE  LInv'
  <1> DEFINE f == PathOf(loaded, p)
             new == [loaded[f] EXCEPT !.text = latest[p] + 1, !.title = t]
  <1>1. AtRest /\ latest \in [PageId -> Nat \cup {Gone}]
    BY IdleAtRest DEF WriteBody, LInv, IInv, TypeOK
  <1>2. /\ f \in DOMAIN disk /\ disk[f] = loaded[f] /\ disk[f].id = p
        /\ disk' = Put(disk, f, new)
    BY UnambiguousPath DEF WriteBody, LInv, IInv, FingerprintsTrue
  <1>3. /\ latest' = [latest EXCEPT ![p] = @ + 1]
        /\ loaded' = disk' /\ pc' = "sidebar" /\ plan' = plan /\ journal' = {}
    BY <1>1 DEF WriteBody, ReloadFrom, AtRest
  <1> HIDE DEF f
  <1>4. new.id = p /\ new.links = disk[f].links
    <2>1. loaded[f] \in Page
      BY <1>2 DEF LInv, IInv, TypeOK
    <2> QED
      BY <1>2, <2>1 DEF Page
  <1> HIDE DEF new
  <1>5. /\ DOMAIN disk' = DOMAIN disk
        /\ \A g \in DOMAIN disk : disk'[g].id = disk[g].id /\ disk'[g].links = disk[g].links
    BY <1>2, <1>4 DEF Put
  <1>6. Alive(p)
    BY <1>1, <1>2 DEF AtRest, Settled
  <1>7. \A g \in DOMAIN disk : disk[g].id \in PageId /\ \A l \in disk[g].links : l.to \in PageId
    BY DEF LInv, IInv, TypeOK, Page, Link
  <1>8. \A x \in PageId : (latest'[x] > 0 <=> Alive(x)) /\ (latest'[x] = 0 <=> latest[x] = 0)
    BY <1>1, <1>3, <1>6 DEF Alive, Gone
  <1>9. \A x : Carriers(disk', x) = Carriers(disk, x)
    BY <1>5 DEF Carriers
  <1>10. Settled'
    BY <1>1, <1>5, <1>7, <1>8, <1>9 DEF AtRest, Settled, Alive
  <1> QED
    BY <1>1, <1>3, <1>10, RestTracks DEF AtRest

\* A deletion keeps the links to the pages that are left.
LEMMA DeleteTracks ==
    ASSUME LInv, IInv', NEW p \in PageId, Delete(p)
    PROVE  LInv'
  <1> DEFINE f == PathOf(loaded, p)
  <1>1. AtRest /\ latest \in [PageId -> Nat \cup {Gone}]
    BY IdleAtRest DEF Delete, LInv, IInv, TypeOK
  <1>2. /\ f \in DOMAIN loaded /\ loaded[f].id = p
        /\ disk' = Without(disk, {f})
    BY UnambiguousPath DEF Delete
  <1>3. /\ latest' = [latest EXCEPT ![p] = Gone]
        /\ loaded' = disk' /\ pc' = "sidebar" /\ plan' = plan /\ journal' = {}
    BY <1>1 DEF Delete, ReloadFrom, AtRest
  <1> HIDE DEF f
  <1>4. \A g \in DOMAIN disk : disk[g].id = p => g = f
    <2>1. PICK h \in DOMAIN loaded : Carriers(loaded, p) = {h}
      BY DEF Delete, Unambiguous
    <2>2. h = f
      BY <1>2, <2>1 DEF Carriers
    <2> QED
      BY <1>1, <2>1, <2>2 DEF AtRest, Carriers
  <1>5. /\ DOMAIN disk' = DOMAIN disk \ {f}
        /\ \A g \in DOMAIN disk' : disk'[g] = disk[g] /\ disk[g].id # p
    BY <1>2, <1>4 DEF Without
  <1>6. \A g \in DOMAIN disk : disk[g].id \in PageId /\ \A l \in disk[g].links : l.to \in PageId
    BY DEF LInv, IInv, TypeOK, Page, Link
  <1>7. \A x : x # p => Carriers(disk', x) = Carriers(disk, x)
    BY <1>1, <1>2, <1>5 DEF Carriers, AtRest
  <1>8. \A x \in PageId : /\ latest'[x] > 0 => Alive(x) /\ x # p
                          /\ x # p => latest'[x] = latest[x]
                          /\ latest'[x] = 0 => latest[x] = 0
    BY <1>1, <1>3 DEF Alive, Gone
  <1>9. ASSUME NEW g \in DOMAIN disk'
        PROVE  /\ latest'[disk'[g].id] > 0
               /\ \A l \in disk'[g].links : latest'[l.to] # 0
               /\ Carriers(disk', disk'[g].id) = {g} =>
                     \A l \in disk'[g].links : latest'[l.to] > 0 => l.stem \in Carriers(disk', l.to)
    <2>1. g \in DOMAIN disk /\ disk'[g] = disk[g] /\ disk[g].id # p
      BY <1>5
    <2> QED
      BY <1>1, <1>6, <1>7, <1>8, <2>1 DEF AtRest, Settled, Alive
  <1>10. Settled'
    BY <1>9 DEF Settled, Alive
  <1> QED
    BY <1>1, <1>3, <1>10, RestTracks DEF AtRest

\* An edit changes a text; pages and links are where they were.
LEMMA EditTracks ==
    ASSUME LInv, IInv', NEW f \in DOMAIN disk, EditOwnFile(f)
    PROVE  LInv'
  <1> DEFINE p == disk[f].id
             new == [disk[f] EXCEPT !.text = latest[p] + 1]
  <1> USE DEF EditOwnFile, ExternalEdit
  <1>1. /\ disk[f] \in Page /\ latest \in [PageId -> Nat \cup {Gone}]
        /\ \A g \in DOMAIN disk : /\ disk[g].id \in PageId
                                  /\ \A l \in disk[g].links : l.to \in PageId
    BY DEF LInv, IInv, TypeOK, Page, Link
  <1>2. new.id = disk[f].id /\ new.links = disk[f].links
    BY <1>1 DEF Page
  <1>3. /\ disk' = Put(disk, f, new) /\ Touch({f})
        /\ latest' = [latest EXCEPT ![p] = @ + 1] /\ Alive(p)
        /\ UNCHANGED <<pc, plan, loaded>> /\ pc # "moving"
    OBVIOUS
  <1>4. DOMAIN plan.pages = {} /\ DOMAIN plan.links = {}
    BY <1>3 DEF LInv, IInv, TypeOK, NoPlan, Empty
  <1> HIDE DEF new, EditOwnFile, ExternalEdit
  <1>5. /\ DOMAIN disk' = DOMAIN disk
        /\ \A g \in DOMAIN disk : disk'[g].id = disk[g].id /\ disk'[g].links = disk[g].links
    BY <1>2, <1>3 DEF Put
  <1>6. /\ OldNames' = OldNames /\ NewNames' = NewNames
        /\ \A g : Origin(g)' = Origin(g)
        /\ \A z \in journal' : \E e \in journal : z.old = e.old /\ z.new = e.new
    BY <1>3, TouchedRenames
  <1>7. \A x \in PageId : (latest'[x] > 0 <=> Alive(x)) /\ (latest'[x] = 0 <=> latest[x] = 0)
    BY <1>1, <1>3 DEF Alive, Gone
  <1>8. \A x : Carriers(disk', x) = Carriers(disk, x)
    BY <1>5 DEF Carriers
  <1> HIDE DEF p
  <1>9. FilesOfLivePages'
    BY <1>1, <1>3, <1>4, <1>5, <1>7 DEF LInv, FilesOfLivePages, Alive
  <1>10. RenamesPaired'
    <2>1. \A y, z \in journal' : y.old = z.old <=> y.new = z.new
      BY <1>6 DEF LInv, RenamesPaired
    <2>2. ASSUME NEW z \in journal', {z.old, z.new} \subseteq DOMAIN disk'
          PROVE  disk'[z.old].id = disk'[z.new].id
      BY <1>5, <1>6, <2>2 DEF LInv, RenamesPaired
    <2> QED
      BY <1>3, <1>5, <1>6, <2>1, <2>2 DEF LInv, RenamesPaired, AllNew
  <1>11. LinksTrack'
    <2>1. ASSUME NEW g \in DOMAIN disk', OnlyIn(disk', g, disk'[g].id), NEW l \in disk'[g].links
          PROVE  latest'[l.to] > 0 => \E h \in Carriers(disk', l.to) : Origin(h) = Origin(l.stem)
      <3>1. /\ g \in DOMAIN disk /\ OnlyFile(g, disk[g].id) /\ l \in disk[g].links
            /\ l.to \in PageId
        BY <1>1, <1>5, <1>8, <2>1 DEF OnlyIn, OnlyFile
      <3>2. Resolves(l)
        BY <3>1 DEF LInv, LinksTrack
      <3> QED
        BY <1>7, <1>8, <3>1, <3>2 DEF Resolves
    <2> QED
      BY <1>3, <1>4, <1>6, <2>1 DEF LinksTrack, OnlyFile, OnlyIn, Resolves, Alive
  <1> QED
    BY <1>9, <1>10, <1>11 DEF LInv

\* The journal of a move begun: old names on disk, new ones free, one to one.
LEMMA BegunRenames ==
    ASSUME NEW m \in PageId, NEW S \in SUBSET PageId, NEW new, Begun(m, S, new)
    PROVE  /\ Paired(Renames')
           /\ \A e \in journal' : /\ e.old \in DOMAIN disk \cap DOMAIN loaded
                                  /\ e.new \notin DOMAIN disk
                                  /\ <<e.old, e.new>> \in Renames'
           /\ \A r \in Renames' : \E e \in journal' : r = <<e.old, e.new>>
           /\ \A d, e \in journal' : d.old = e.old <=> d.new = e.new
           /\ \A e \in journal' : e.old \in plan'.deletes
  <1> DEFINE old(p) == PathOf(loaded, p)
  <1>1. \A p \in S : /\ old(p) \in DOMAIN loaded \cap DOMAIN disk
                     /\ loaded[old(p)].id = p
                     /\ plan'.pages[new[p]].id = p
                     /\ new[p] \in DOMAIN disk => new[p] = old(p)
                     /\ \A r \in S : old(p) = new[r] => p = r
                     /\ old(p) \in {new[r] : r \in S} \cup plan'.deletes
    BY DEF Begun, Alike
  <1>2. \A e \in journal' : \E p \in S : e.old = old(p) /\ e.new = new[p] /\ old(p) # new[p]
    BY DEF Begun
  <1> HIDE DEF old
  <1>3. \A e \in journal' : e.old \in DOMAIN disk \cap DOMAIN loaded /\ e.new \notin DOMAIN disk
    BY <1>1, <1>2
  <1>4. \A d, e \in journal' : d.old = e.old <=> d.new = e.new
    BY <1>1, <1>2
  <1>5. /\ \A e \in journal' : <<e.old, e.new>> \in Renames'
        /\ \A r \in Renames' : \E e \in journal' : r = <<e.old, e.new>>
    BY DEF Renames
  <1>6. ASSUME NEW e \in journal' PROVE e.old \in plan'.deletes
    <2>1. PICK p \in S : e.old = old(p) /\ e.new = new[p] /\ old(p) # new[p]
      BY <1>2
    <2>2. \A r \in S : e.old # new[r]
      BY <1>1, <2>1
    <2> QED
      BY <1>1, <2>1, <2>2
  <1>7. Paired(Renames')
    BY <1>3, <1>4, <1>5 DEF Paired
  <1> QED
    BY <1>3, <1>4, <1>5, <1>6, <1>7

\* A page of the plan that is the only one of its id: its links, renamed, lead
\* to files of the pages they mean, and to no name that is about to go.
LEMMA BegunPage ==
    ASSUME LInv, AtRest, UNCHANGED <<disk, loaded, latest>>,
           NEW m \in PageId, NEW S \in SUBSET PageId, NEW new, Begun(m, S, new),
           NEW g \in DOMAIN disk, Carriers(disk, disk[g].id) = {g},
           NEW x, x.links = Relink(Renames', loaded[g]).links, NEW k \in x.links
    PROVE  /\ latest'[k.to] > 0 => \E h \in Carriers(disk', k.to) : Origin(h)' = Origin(k.stem)'
           /\ k.stem \notin OldNames'
  <1>1. loaded[g] \in Page /\ loaded[g].links = disk[g].links
    BY DEF AtRest, LInv, IInv, TypeOK
  <1>2. PICK l \in disk[g].links : k.to = l.to /\ k.stem = Renamed(Renames', l.stem)
    BY <1>1, RelinkedLinks
  <1>3. Alive(l.to) => l.stem \in Carriers(disk, l.to)
    BY DEF AtRest, Settled
  <1>4. /\ Paired(Renames')
        /\ \A e \in journal' : /\ e.old \in DOMAIN disk /\ e.new \notin DOMAIN disk
                               /\ <<e.old, e.new>> \in Renames'
        /\ \A r \in Renames' : \E e \in journal' : r = <<e.old, e.new>>
    BY BegunRenames
  <1>5. k.stem \notin OldNames'
    <2>1. CASE \E r \in Renames' : r[1] = l.stem
      <3>1. PICK r \in Renames' : r[1] = l.stem
        BY <2>1
      <3>2. k.stem = r[2]
        BY <1>2, <1>4, <3>1, RenamedFacts
      <3>3. PICK e \in journal' : r = <<e.old, e.new>>
        BY <1>4
      <3>4. k.stem \notin DOMAIN disk
        BY <1>4, <3>2, <3>3
      <3>5. \A f \in OldNames' : f \in DOMAIN disk
        BY <1>4 DEF OldNames
      <3> QED
        BY <3>4, <3>5
    <2>2. CASE \A r \in Renames' : r[1] # l.stem
      <3>1. k.stem = l.stem
        BY <1>2, <1>4, <2>2, RenamedFacts
      <3> QED
        BY <1>4, <2>2, <3>1 DEF OldNames
    <2> QED
      BY <2>1, <2>2
  <1>6. ASSUME Alive(l.to) PROVE Origin(l.stem)' = Origin(k.stem)'
    <2>1. l.stem \in DOMAIN disk
      BY <1>3, <1>6 DEF Carriers
    <2>2. Renamed(Reverse(Renames'), l.stem) = l.stem
      BY <1>4, <2>1, RenamedFacts
    <2>3. Renamed(Reverse(Renames'), Renamed(Renames', l.stem)) = l.stem
      <3>1. CASE \E r \in Renames' : r[1] = l.stem
        BY <1>4, <3>1, RenamedFacts
      <3>2. CASE \A r \in Renames' : r[1] # l.stem
        BY <1>4, <2>2, <3>2, RenamedFacts
      <3> QED
        BY <3>1, <3>2
    <2> QED
      BY <1>2, <2>2, <2>3 DEF Origin
  <1> QED
    BY <1>2, <1>3, <1>5, <1>6 DEF Alive, Carriers

\* move_page, up to the journal: every link to an old name is in a file the plan
\* rewrites or removes.
LEMMA BeginTracks ==
    ASSUME LInv, IInv', NEW m \in PageId, NEW q \in Parent, BeginMove(m, q)
    PROVE  LInv'
  <1> DEFINE old(p) == PathOf(loaded, p)
  <1>1. PICK S \in SUBSET PageId : \E new : Begun(m, S, new) /\ PlansLinks(S, new, plan', Renames')
    BY BegunMove DEF LInv
  <1>2. PICK new : Begun(m, S, new) /\ PlansLinks(S, new, plan', Renames')
    BY <1>1
  <1>3. pc' = "moving" /\ UNCHANGED <<disk, loaded, latest>> /\ AtRest
    BY IdleAtRest DEF BeginMove
  <1>4. /\ Paired(Renames')
        /\ \A e \in journal' : /\ e.old \in DOMAIN disk /\ e.new \notin DOMAIN disk
                               /\ <<e.old, e.new>> \in Renames'
        /\ \A r \in Renames' : \E e \in journal' : r = <<e.old, e.new>>
        /\ \A d, e \in journal' : d.old = e.old <=> d.new = e.new
        /\ \A e \in journal' : e.old \in plan'.deletes
    BY <1>2, BegunRenames
  <1>5. RenamesPaired'
    <2>1. /\ \A f \in OldNames' : f \in DOMAIN disk' /\ f \in plan'.deletes
          /\ \A f \in NewNames' : f \notin DOMAIN disk'
      BY <1>3, <1>4 DEF OldNames, NewNames
    <2> QED
      BY <1>3, <1>4, <2>1 DEF RenamesPaired, NewNames
  <1>6. \A g \in DOMAIN disk : Origin(g)' = g
    BY <1>4, RenamedFacts DEF Origin
  <1>7. \A p \in S : /\ old(p) \in DOMAIN loaded \cap DOMAIN disk
                     /\ disk[old(p)] = loaded[old(p)]
                     /\ loaded[old(p)].id = p
                     /\ Origin(new[p])' = old(p)
                     /\ plan'.pages[new[p]].id = p
                     /\ plan'.pages[new[p]].links = Relink(Renames', loaded[old(p)]).links
                     /\ old(p) \in DOMAIN plan'.pages \cup plan'.deletes
    <2>1. DOMAIN plan'.pages = {new[p] : p \in S}
      BY <1>2 DEF Begun
    <2> TAKE p \in S
    <2>2. /\ old(p) \in DOMAIN loaded \cap DOMAIN disk
          /\ disk[old(p)] = loaded[old(p)]
          /\ loaded[old(p)].id = p
          /\ plan'.pages[new[p]].id = p
          /\ old(p) # new[p] => \E e \in journal' : e.old = old(p) /\ e.new = new[p]
          /\ old(p) \in {new[r] : r \in S} \cup plan'.deletes
      BY <1>2 DEF Begun, Alike
    <2>3. plan'.pages[new[p]].links = Relink(Renames', loaded[old(p)]).links
      BY <1>2 DEF PlansLinks
    <2> HIDE DEF old
    <2>4. CASE old(p) = new[p]
      BY <1>6, <2>1, <2>2, <2>3, <2>4
    <2>5. CASE old(p) # new[p]
      <3>1. PICK r \in Renames' : r = <<old(p), new[p]>>
        BY <1>4, <2>2, <2>5
      <3>2. Renamed(Reverse(Renames'), new[p]) = old(p)
        BY <1>4, <3>1, RenamedFacts
      <3> QED
        BY <2>1, <2>2, <2>3, <3>2 DEF Origin
    <2> QED
      BY <2>4, <2>5
  <1> HIDE DEF old
  <1> DEFINE Only(f, p) == \A g \in Carriers(disk, p) : Origin(g)' = Origin(f)'
  <1>8. \A f \in DOMAIN plan'.links :
          /\ f \in DOMAIN loaded /\ plan'.links[f].id = loaded[f].id
          /\ plan'.links[f] = Relink(Renames', loaded[f])
    BY <1>2 DEF Begun, PlansLinks, Alike
  <1>9. \A f \in DOMAIN plan'.pages : \E p \in S : f = new[p]
    BY <1>2 DEF Begun
  <1>10. \A f \in DOMAIN disk : /\ f \in DOMAIN loaded /\ loaded[f] \in Page
                                /\ loaded[f].id = disk[f].id /\ loaded[f].links = disk[f].links
                                /\ Alive(disk[f].id) /\ \A l \in disk[f].links : latest[l.to] # 0
    BY <1>3 DEF AtRest, Settled, LInv, IInv, TypeOK
  <1>11. ASSUME NEW f, NEW g \in DOMAIN disk, Origin(f)' = g, Only(f, disk[g].id)
         PROVE  Carriers(disk, disk[g].id) = {g}
    BY <1>6, <1>11 DEF Carriers
  <1>12. FilesOfLivePages'
    <2>1. ASSUME NEW x, NEW g \in DOMAIN disk, x.links = Relink(Renames', loaded[g]).links,
                 NEW k \in x.links
          PROVE  latest[k.to] # 0
      BY <1>10, <2>1, RelinkedLinks
    <2>2. \A f \in DOMAIN plan'.pages : /\ Alive(plan'.pages[f].id)
                                        /\ \A k \in plan'.pages[f].links : latest[k.to] # 0
      BY <1>7, <1>9, <1>10, <2>1
    <2>3. \A f \in DOMAIN plan'.links : \A k \in plan'.links[f].links : latest[k.to] # 0
      BY <1>3, <1>8, <2>1 DEF AtRest
    <2> QED
      BY <1>3, <1>10, <2>2, <2>3 DEF FilesOfLivePages, Alive
  <1>13. ASSUME NEW f \in DOMAIN disk, Only(f, disk[f].id), NEW l \in disk[f].links
         PROVE  /\ Resolves(l)'
                /\ l.stem \in OldNames' =>
                      f \in DOMAIN plan'.pages \cup DOMAIN plan'.links \cup plan'.deletes
    <2>1. Carriers(disk, disk[f].id) = {f}
      BY <1>6, <1>11, <1>13
    <2>2. Resolves(l)'
      BY <1>3, <2>1 DEF AtRest, Settled, Resolves, Alive
    <2>3. CASE disk[f].id \in S
      <3>1. old(disk[f].id) = f
        BY <1>7, <2>1, <2>3 DEF Carriers
      <3> QED
        BY <1>7, <2>2, <2>3, <3>1
    <2>4. CASE disk[f].id \notin S /\ f \notin DOMAIN plan'.links
      <3>1. Relink(Renames', loaded[f]) = loaded[f]
        BY <1>2, <1>10, <2>4 DEF PlansLinks
      <3>2. \A r \in Renames' : r[1] # l.stem
        BY <1>4, <1>10, <3>1, HealedLinks
      <3> QED
        BY <1>4, <2>2, <3>2 DEF OldNames
    <2> QED
      BY <2>2, <2>3, <2>4
  <1>14. ASSUME NEW f \in DOMAIN plan'.pages, Only(f, plan'.pages[f].id),
                NEW k \in plan'.pages[f].links
         PROVE  Resolves(k)' /\ k.stem \notin OldNames'
    <2>1. PICK p \in S : f = new[p]
      BY <1>9
    <2>2. Carriers(disk, disk[old(p)].id) = {old(p)}
      BY <1>7, <1>11, <1>14, <2>1
    <2> QED
      BY <1>2, <1>3, <1>7, <2>1, <2>2, BegunPage, ZenonT(20) DEF Resolves, Alive
  <1>15. ASSUME NEW f \in DOMAIN plan'.links, Only(f, plan'.links[f].id),
                NEW k \in plan'.links[f].links
         PROVE  Resolves(k)' /\ k.stem \notin OldNames'
    <2>1. f \in DOMAIN disk /\ plan'.links[f].id = disk[f].id
      BY <1>3, <1>8, <1>10 DEF AtRest
    <2>2. Carriers(disk, disk[f].id) = {f}
      BY <1>6, <1>11, <1>15, <2>1
    <2>3. plan'.links[f].links = Relink(Renames', loaded[f]).links
      BY <1>8
    <2> QED
      BY <1>2, <1>3, <2>1, <2>2, <2>3, BegunPage DEF Resolves, Alive
  <1>16. LinksTrack'
    BY <1>3, <1>13, <1>14, <1>15 DEF LinksTrack, OnlyFile
  <1> QED
    BY <1>5, <1>12, <1>16 DEF LInv

\* The strengthening is kept.
LEMMA StepLInv == LInv /\ [Next]_vars => LInv'
  <1> SUFFICES ASSUME LInv, [Next]_vars PROVE LInv'
    OBVIOUS
  <1>2. IInv'
    BY StepIInv DEF LInv
  <1>3. CASE Operation
    BY <1>2, <1>3, BeginTracks, ApplyMoveTracks, QuietTracks, CreateTracks, WriteBodyTracks,
       DeleteTracks
       DEF Operation
  <1>4. CASE Opening
    BY <1>2, <1>4, QuietTracks, RecoveryTracks DEF Opening
  <1>5. CASE Crash
    BY <1>2, <1>5, QuietTracks
  <1>6. CASE \E f \in DOMAIN disk : EditOwnFile(f)
    BY <1>2, <1>6, EditTracks
  <1>7. CASE UNCHANGED vars
    <2> USE <1>7 DEF vars
    <2>1. /\ OldNames' = OldNames /\ NewNames' = NewNames
          /\ \A f : Origin(f)' = Origin(f)
      BY DEF OldNames, NewNames, Origin, Renames
    <2>2. RenamesPaired'
      BY <2>1 DEF LInv, RenamesPaired, AllNew
    <2>3. FilesOfLivePages'
      BY DEF LInv, FilesOfLivePages, Alive
    <2>4. LinksTrack'
      BY <2>1 DEF LInv, LinksTrack, OnlyFile, Resolves, Alive
    <2> QED
      BY <1>2, <2>2, <2>3, <2>4 DEF LInv
  <1> QED
    BY <1>3, <1>4, <1>5, <1>6, <1>7 DEF Next

\* A folder whose links resolve is a folder at rest.
LEMMA InitLInv ==
    ASSUME \A d \in InitialDisks : LinksResolve(d)
    PROVE  Init => LInv
  <1> SUFFICES ASSUME Init PROVE LInv
    OBVIOUS
  <1>1. IInv
    BY InitIInv
  <1>2. /\ disk \in InitialDisks /\ loaded = disk /\ journal = {} /\ plan = NoPlan
        /\ pc = "idle"
        /\ latest = [p \in PageId |-> IF p \in Ids(disk) THEN 1 ELSE 0]
    BY DEF Init
  <1>3. \A f \in DOMAIN disk : /\ disk[f].id \in PageId
                               /\ \A l \in disk[f].links : l.to \in PageId
    BY <1>1 DEF IInv, TypeOK, Page, Link
  <1>4. \A f \in DOMAIN disk : disk[f].id \in Ids(disk)
    BY DEF Ids
  <1>5. Settled
    BY <1>2, <1>3, <1>4 DEF LinksResolve, Settled, Alive
  <1> QED
    BY <1>1, <1>2, <1>5, SettledTracks DEF AtRest

\* INV-5: from folders whose links name files of the pages they mean, links go
\* on doing so, through every operation, move, crash and recovery.
THEOREM LinksFollowAlways ==
    ASSUME \A d \in InitialDisks : LinksResolve(d)
    PROVE  Spec => []LinksFollow
  <1>1. Init => LInv
    BY InitLInv
  <1>2. LInv => LinksFollow
    <2> SUFFICES ASSUME LInv, pc = "idle" PROVE LinksFollow
      BY DEF LinksFollow
    <2>1. journal = {}
      BY DEF LInv, IInv, JournalPhase
    <2> QED
      BY <2>1, TrackedSettles DEF Settled, LinksFollow
  <1> QED
    BY <1>1, <1>2, StepLInv, PTL DEF Spec
=============================================================================
