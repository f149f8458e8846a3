---------------------------- MODULE LocalStore -----------------------------
(***************************************************************************)
(* LocalFolderStore (berrywiki-store, local.rs) and the move journal       *)
(* (berrywiki-appstate, journal.rs): a folder of page files, the graph one *)
(* process keeps in memory, and the operations that change both.           *)
(*                                                                         *)
(* Every file write is atomic (temp file, fsync, rename), so a step of the *)
(* model is one file written or removed, and the process may die between   *)
(* any two steps.  The folder is plain Markdown: its owner edits files in  *)
(* any editor, while the process is up or down.                            *)
(***************************************************************************)
EXTENDS StoreNaming

CONSTANTS
    InitialDisks, \* folders the wiki may start from
    TypedTitles,  \* titles the user gives to new and edited pages
    MaxOps,       \* bound: operations begun
    MaxEdits,     \* bound: edits made outside the application
    MaxCrashes    \* bound: deaths of the process

\* A link carries the page its author meant and the filename stem it names.
Link == [to : PageId, stem : File]

Page == [id : PageId, parent : Parent, title : Title, text : Nat,
         links : SUBSET Link]

\* The wiki starts as any folder of well-formed pages.
ASSUME StoreAssumption ==
    /\ \A d \in InitialDisks : \A f \in DOMAIN d :
          f \in File /\ d[f] \in Page /\ d[f].text = 1
    /\ TypedTitles \subseteq Title

VARIABLES
    disk,     \* the page files: a function from the names that exist
    sidebar,  \* the tree _Sidebar.md was generated from
    journal,  \* the operation journal: a set of renames, {} when there is none
    loaded,   \* the pages of the in-memory graph, by file
    stale,    \* loaded files whose fingerprint on disk is not the recorded one
    pc,       \* what the process is doing
    plan,     \* what is left of the MovePlan being applied
    latest,   \* ghost: per page, its last text; 0 never created, Gone deleted
    goal,     \* ghost: the folder before and after the last move begun
    spent     \* counters of the bounded steps

vars == <<disk, sidebar, journal, loaded, stale, pc, plan, latest, goal, spent>>

Gone == -1

\* `same`: the old file still has the fingerprint the journal recorded.
Rename == [old : File, new : File, same : BOOLEAN]

\* The process is idle, between reload and sidebar rewrite, applying a move,
\* not running, or recovering (rolling forward or back) while opening.
Phase == {"idle", "sidebar", "moving", "down", "forward", "back"}

-----------------------------------------------------------------------------
(* Folders *)

Empty == <<>>

Put(d, f, page) == [g \in DOMAIN d \cup {f} |-> IF g = f THEN page ELSE d[g]]

Without(d, S) == [g \in DOMAIN d \ S |-> d[g]]

Carriers(d, p) == {f \in DOMAIN d : d[f].id = p}

Ids(d) == {d[f].id : f \in DOMAIN d}

\* PageGraph::get: of two files with one id only the first is addressable.
Addressed(d, p) ==
    {f \in Carriers(d, p) : \A g \in Carriers(d, p) \ {f} : Before(f, g)}
PathOf(d, p) == CHOOSE f \in Addressed(d, p) : TRUE

LastFile(S) == CHOOSE f \in S : \A g \in S \ {f} : Before(g, f)

\* Parent pointers as `get` sees them, and as the maps built by inserting
\* every page in turn see them (the last file of an id wins).
ParentByGet == [p \in PageId |->
    IF p \in Ids(loaded) THEN loaded[PathOf(loaded, p)].parent ELSE NoPage]
ParentByInsert(d) == [p \in PageId |->
    IF p \in Ids(d) THEN d[LastFile(Carriers(d, p))].parent ELSE NoPage]

\* parent_of of the graph builder: only parents that exist, and of several
\* files with one id the last that has such a parent.
KnownParent(d) == [p \in PageId |->
    LET placed == {f \in Carriers(d, p) : d[f].parent \in Ids(d)}
    IN  IF placed = {} THEN NoPage ELSE d[LastFile(placed)].parent]

\* PageGraph::children_of
Children(d, p) ==
    {f \in DOMAIN d : /\ d[f].parent = p
                      /\ p \in Ids(d)
                      /\ ~AncestryLoops(KnownParent(d), d[f].id)}

\* subtree_ids
Subtree(d, p) ==
    LET below[n \in 0 .. MaxHops] ==
          IF n = 0 THEN {p}
          ELSE below[n - 1] \cup
               {d[f].id : f \in UNION {Children(d, q) : q \in below[n - 1]}}
    IN  below[MaxHops]

\* subtree_ids lists a page once per file that puts it below the moved page.
ListedOnce(m, S) ==
    LET listed == UNION {Children(loaded, q) : q \in S}
    IN  \A f \in listed : /\ loaded[f].id # m
                          /\ \A g \in listed \ {f} : loaded[g].id # loaded[f].id

\* ensure_unambiguous, and the page exists.
Unambiguous(p) == \E f \in DOMAIN loaded : Carriers(loaded, p) = {f}

\* check_parent
ParentOK(p) == p = NoPage \/ p \in Ids(loaded)

\* is_ancestor: c is p or above it; a runaway ancestry counts as one.
IsAncestor(p, c) ==
    LET up == Ancestry(ParentByGet, p)
    IN  (\E n \in 0 .. MaxHops : up[n] = c) \/ up[MaxHops] # NoPage

\* What generate_sidebar lists.
TreeOf(d) == {<<f, d[f].id, d[f].parent, d[f].title>> : f \in DOMAIN d}

\* rewrite_links under the map of renames R (pairs of old and new stem).
Renamed(R, g) == IF \E r \in R : r[1] = g
                 THEN (CHOOSE r \in R : r[1] = g)[2] ELSE g
Relink(R, page) ==
    [page EXCEPT !.links = {[l EXCEPT !.stem = Renamed(R, l.stem)] : l \in @}]

-----------------------------------------------------------------------------
(* Steps on the folder *)

NoPlan == [pages |-> Empty, links |-> Empty, deletes |-> {}]
NoGoal == [before |-> {}, after |-> {}, mover |-> NoPage, inPlace |-> FALSE]

Shape(d) == {<<f, d[f].id, d[f].parent>> : f \in DOMAIN d}

\* Files in S are about to change: no recorded fingerprint of them holds.
Touch(S) ==
    /\ stale' = stale \cup (S \cap DOMAIN loaded)
    /\ journal' = {[e EXCEPT !.same = @ /\ e.old \notin S] : e \in journal}

\* Mutant: a reload that keeps the fingerprints of the previous load.
ReloadFromKeepingStale(d) == loaded' = d /\ stale' = stale

\* reload
ReloadFrom(d) == loaded' = d /\ stale' = {}

Spend(what, bound) ==
    /\ spent[what] < bound
    /\ spent' = [spent EXCEPT ![what] = @ + 1]

Alive(p) == latest[p] > 0

Init ==
    /\ disk \in InitialDisks
    /\ sidebar = TreeOf(disk)
    /\ journal = {}
    /\ loaded = disk
    /\ stale = {}
    /\ pc = "idle"
    /\ plan = NoPlan
    /\ latest = [p \in PageId |-> IF p \in Ids(disk) THEN 1 ELSE 0]
    /\ goal = NoGoal
    /\ spent = [ops |-> 0, edits |-> 0, crashes |-> 0]

-----------------------------------------------------------------------------
(* Planning a move *)

\* The intended parents: the current ones, with the moved page re-parented.
IntendedParent(m, q) == [ParentByInsert(loaded) EXCEPT ![m] = q]
TitleOf == [p \in Ids(loaded) |-> loaded[LastFile(Carriers(loaded, p))].title]

\* Names p may not take: those on disk but its own, and those already
\* assigned to pages earlier in id order.
Claimed(new, p) ==
    (DOMAIN disk \ {PathOf(loaded, p)}) \cup {new[q] : q \in {q \in DOMAIN new : q < p}}

\* new is the assignment plan_move computes for the pages of S.
IsAssignment(new, S, par) ==
    \A p \in S :
        LET base == PageFilename(par, TitleOf, p) IN
        /\ new[p] = IF base \in Claimed(new, p) THEN WithIdSuffix(base, p) ELSE base
        /\ new[p] \notin Claimed(new, p)
        /\ new[p] \in File

\* The MovePlan: pages of the moved subtree to write under their new names,
\* other pages whose links are rewritten in place, old names to delete.
MovePlan(m, q, S, new) ==
    LET old     == [p \in S |-> PathOf(loaded, p)]
        R       == {<<old[p], new[p]>> : p \in {p \in S : old[p] # new[p]}}
        page(p) == [Relink(R, loaded[old[p]]) EXCEPT
                       !.parent = IF p = m THEN q ELSE @]
        owner(f) == CHOOSE p \in S : new[p] = f
    IN  [pages   |-> [f \in {new[p] : p \in S} |-> page(owner(f))],
         links   |-> [f \in {g \in DOMAIN loaded :
                                /\ loaded[g].id \notin S
                                /\ Relink(R, loaded[g]) # loaded[g]}
                        |-> Relink(R, loaded[f])],
         deletes |-> {r[1] : r \in R} \ {new[p] : p \in S}]

\* The folder once every step of plan a is done.
Applied(a) ==
    LET kept == DOMAIN disk \ a.deletes
        done == DOMAIN a.pages \cup DOMAIN a.links
    IN  [f \in kept \cup done |->
            IF f \in DOMAIN a.pages THEN a.pages[f]
            ELSE IF f \in DOMAIN a.links THEN a.links[f] ELSE disk[f]]

\* move_page up to and including the write of the journal: plan_move refuses
\* or returns a plan, apply_move journals the renames (if there are any).
BeginMove(m, q) ==
    /\ pc = "idle"
    /\ Spend("ops", MaxOps)
    /\ Unambiguous(m)
    /\ ParentOK(q)
    /\ q # NoPage => ~IsAncestor(q, m)
    /\ LET S == Subtree(loaded, m)
       IN  \* plan_move unwraps get(id) of every page of the subtree
           /\ \A p \in S : Addressed(loaded, p) # {}
           \* bound: subtree_ids lists no page twice
           /\ ListedOnce(m, S)
           /\ \E suffixed \in SUBSET S :
                LET par == IntendedParent(m, q)
                    new == [p \in S |->
                              LET base == PageFilename(par, TitleOf, p)
                              IN  IF p \in suffixed THEN WithIdSuffix(base, p) ELSE base]
                    a   == MovePlan(m, q, S, new)
                    R   == {[old |-> PathOf(loaded, p), new |-> new[p], same |-> TRUE] :
                              p \in {p \in S : PathOf(loaded, p) # new[p]}}
                IN  /\ IsAssignment(new, S, par)
                    \* check_not_stale on every write and every delete
                    /\ (DOMAIN a.pages \cup DOMAIN a.links \cup a.deletes) \cap stale = {}
                    /\ journal' = IF R = {} THEN journal ELSE R
                    /\ plan' = a
                    /\ goal' = [before  |-> Shape(disk), after |-> Shape(Applied(a)),
                                mover   |-> m,
                                inPlace |-> new[m] = PathOf(loaded, m)]
    /\ pc' = "moving"
    /\ UNCHANGED <<disk, sidebar, loaded, stale, latest>>

\* apply_move writes the pages of the subtree first ...
WriteMovedPage(f) ==
    /\ pc = "moving"
    /\ f \in DOMAIN plan.pages
    /\ disk' = Put(disk, f, plan.pages[f])
    /\ Touch({f})
    /\ plan' = [plan EXCEPT !.pages = Without(@, {f})]
    /\ UNCHANGED <<sidebar, loaded, pc, latest, goal, spent>>

\* ... then the inbound links of the other pages ...
RewriteInboundLinks(f) ==
    /\ pc = "moving"
    /\ plan.pages = Empty
    /\ f \in DOMAIN plan.links
    /\ disk' = Put(disk, f, plan.links[f])
    /\ Touch({f})
    /\ plan' = [plan EXCEPT !.links = Without(@, {f})]
    /\ UNCHANGED <<sidebar, loaded, pc, latest, goal, spent>>

\* ... and only then removes the old files.
RemoveOldFile(f) ==
    /\ pc = "moving"
    /\ plan.pages = Empty /\ plan.links = Empty
    /\ f \in plan.deletes
    /\ disk' = Without(disk, {f})
    /\ Touch({f})
    /\ plan' = [plan EXCEPT !.deletes = @ \ {f}]
    /\ UNCHANGED <<sidebar, loaded, pc, latest, goal, spent>>

\* Mutant: a move that leaves the sidebar as it was.
FinishMoveWithoutSidebar ==
    /\ pc = "moving"
    /\ plan = NoPlan
    /\ journal' = {}
    /\ ReloadFrom(disk)
    /\ pc' = "idle"
    /\ UNCHANGED <<disk, sidebar, plan, latest, goal, spent>>

\* Retire the journal and reload; the sidebar follows in WriteSidebar.
FinishMove ==
    /\ pc = "moving"
    /\ plan = NoPlan
    /\ journal' = {}
    /\ ReloadFrom(disk)
    /\ pc' = "sidebar"
    /\ UNCHANGED <<disk, sidebar, plan, latest, goal, spent>>

-----------------------------------------------------------------------------
(* The other operations: one file written or removed, then reload *)

\* create_page; the id is new, as the callers generate it.
Create(p, q, title) ==
    /\ pc = "idle"
    /\ Spend("ops", MaxOps)
    /\ latest[p] = 0
    /\ p \notin Ids(loaded)
    /\ ParentOK(q)
    /\ LET par  == [ParentByGet EXCEPT ![p] = q]
           name == PageFilename(par, [x \in Ids(loaded) \cup {p} |->
                      IF x = p THEN title ELSE loaded[PathOf(loaded, x)].title], p)
           free == IF name \in DOMAIN disk THEN WithIdSuffix(name, p) ELSE name
           new  == [id |-> p, parent |-> q, title |-> title, text |-> 1, links |-> {}]
       IN  /\ ~AncestryLoops(par, p)
           \* ancestor_titles refuses when an ancestor is missing
           /\ \A n \in 1 .. MaxHops : Ancestry(par, p)[n] \in Ids(loaded) \cup {NoPage}
           /\ free \in File \ DOMAIN disk
           /\ disk' = Put(disk, free, new)
           /\ journal' = journal
           /\ ReloadFrom(disk')
    /\ latest' = [latest EXCEPT ![p] = 1]
    /\ pc' = "sidebar"
    /\ UNCHANGED <<sidebar, plan, goal>>

\* Mutant: a write that trusts the copy in memory.
WriteBodyUnchecked(p, title) ==
    /\ pc = "idle"
    /\ Spend("ops", MaxOps)
    /\ Unambiguous(p)
    /\ LET f == PathOf(loaded, p)
       IN  /\ disk' = Put(disk, f, [loaded[f] EXCEPT !.text = latest[p] + 1, !.title = title])
           /\ journal' = {[e EXCEPT !.same = @ /\ e.old # f] : e \in journal}
           /\ ReloadFrom(disk')
    /\ latest' = [latest EXCEPT ![p] = @ + 1]
    /\ pc' = "sidebar"
    /\ UNCHANGED <<sidebar, plan, goal>>

\* write_body: a new text, perhaps with a new title; the filename stays.
WriteBody(p, title) ==
    /\ pc = "idle"
    /\ Spend("ops", MaxOps)
    /\ Unambiguous(p)
    /\ LET f == PathOf(loaded, p)
       IN  /\ f \notin stale
           /\ disk' = Put(disk, f, [loaded[f] EXCEPT !.text = latest[p] + 1, !.title = title])
           /\ journal' = {[e EXCEPT !.same = @ /\ e.old # f] : e \in journal}
           /\ ReloadFrom(disk')
    /\ latest' = [latest EXCEPT ![p] = @ + 1]
    /\ pc' = "sidebar"
    /\ UNCHANGED <<sidebar, plan, goal>>

\* delete_page: leaves only.
Delete(p) ==
    /\ pc = "idle"
    /\ Spend("ops", MaxOps)
    /\ Unambiguous(p)
    /\ Children(loaded, p) = {}
    /\ LET f == PathOf(loaded, p)
       IN  /\ f \notin stale
           /\ disk' = Without(disk, {f})
           /\ journal' = {[e EXCEPT !.same = @ /\ e.old # f] : e \in journal}
           /\ ReloadFrom(disk')
    /\ latest' = [latest EXCEPT ![p] = Gone]
    /\ pc' = "sidebar"
    /\ UNCHANGED <<sidebar, plan, goal>>

\* write_sidebar_if_changed, the last step of every operation.
WriteSidebar ==
    /\ pc = "sidebar"
    /\ sidebar' = TreeOf(loaded)
    /\ pc' = "idle"
    /\ UNCHANGED <<disk, journal, loaded, stale, plan, latest, goal, spent>>

\* reload on request (the "Reload from disk" button).
Reload ==
    /\ pc = "idle"
    /\ stale # {} \/ loaded # disk
    /\ ReloadFrom(disk)
    /\ UNCHANGED <<disk, sidebar, journal, pc, plan, latest, goal, spent>>

-----------------------------------------------------------------------------
(* Death of the process, and opening the folder again *)

Crash ==
    /\ pc # "down"
    /\ Spend("crashes", MaxCrashes)
    /\ pc' = "down"
    /\ loaded' = Empty
    /\ stale' = {}
    /\ plan' = NoPlan
    /\ UNCHANGED <<disk, sidebar, journal, latest, goal>>

NewNames == {e.new : e \in journal}
OldNames == {e.old : e \in journal}
Renames == {<<e.old, e.new>> : e \in journal}

\* open without a journal: just the first load.
OpenClean ==
    /\ pc = "down"
    /\ journal = {}
    /\ ReloadFrom(disk)
    /\ pc' = "idle"
    /\ UNCHANGED <<disk, sidebar, journal, plan, latest, goal, spent>>

\* recover_interrupted_move chooses its direction once: forward when all new
\* files are present, back otherwise.
BeginRecovery ==
    /\ pc = "down"
    /\ journal # {}
    /\ pc' = IF NewNames \subseteq DOMAIN disk THEN "forward" ELSE "back"
    /\ UNCHANGED <<disk, sidebar, journal, loaded, stale, plan, latest, goal, spent>>

\* Mutants: edited old files removed too; new files kept when rolling back;
\* links left as they are.
LeftoverAll == {e.old : e \in {e \in journal : e.old \notin NewNames}} \cap DOMAIN disk
PartialNone == {}
UnhealedNone(R) == {}

\* Old files recovery still has to remove: rolling forward, the unchanged
\* ones only.
Leftover ==
    {e.old : e \in {e \in journal : e.same /\ e.old \notin NewNames}} \cap DOMAIN disk
Partial == (NewNames \ OldNames) \cap DOMAIN disk

\* Files whose links rewrite_folder_links still has to heal.
Unhealed(R) == {f \in DOMAIN disk : Relink(R, disk[f]) # disk[f]}
Reverse(R) == {<<r[2], r[1]>> : r \in R}

RollForward ==
    /\ pc = "forward"
    /\ \/ /\ Leftover # {}
          /\ \E f \in Leftover : disk' = Without(disk, {f}) /\ Touch({f})
       \/ /\ Leftover = {}
          /\ \E f \in Unhealed(Renames) :
                disk' = Put(disk, f, Relink(Renames, disk[f])) /\ Touch({f})
    /\ UNCHANGED <<sidebar, loaded, pc, plan, latest, goal, spent>>

RollBack ==
    /\ pc = "back"
    /\ \/ /\ Partial # {}
          /\ \E f \in Partial : disk' = Without(disk, {f}) /\ Touch({f})
       \/ /\ Partial = {}
          /\ \E f \in Unhealed(Reverse(Renames)) :
                disk' = Put(disk, f, Relink(Reverse(Renames), disk[f])) /\ Touch({f})
    /\ UNCHANGED <<sidebar, loaded, pc, plan, latest, goal, spent>>

\* Mutant: recovery waits until every old file is gone.
FinishRecoveryWhenClear ==
    /\ \/ pc = "forward" /\ OldNames \cap DOMAIN disk = {} /\ Unhealed(Renames) = {}
       \/ pc = "back" /\ Partial = {} /\ Unhealed(Reverse(Renames)) = {}
    /\ journal' = {}
    /\ ReloadFrom(disk)
    /\ pc' = "idle"
    /\ UNCHANGED <<disk, sidebar, plan, latest, goal, spent>>

\* Clear the journal and load; nothing regenerates the sidebar.
FinishRecovery ==
    /\ \/ pc = "forward" /\ Leftover = {} /\ Unhealed(Renames) = {}
       \/ pc = "back" /\ Partial = {} /\ Unhealed(Reverse(Renames)) = {}
    /\ journal' = {}
    /\ ReloadFrom(disk)
    /\ pc' = "idle"
    /\ UNCHANGED <<disk, sidebar, plan, latest, goal, spent>>

-----------------------------------------------------------------------------
(* The owner's own edits ("wiki without the app") *)

ExternalEdit(f) ==
    /\ pc \in {"idle", "down"}
    /\ Spend("edits", MaxEdits)
    /\ f \in DOMAIN disk
    /\ Alive(disk[f].id)
    /\ LET p == disk[f].id
       IN  /\ latest' = [latest EXCEPT ![p] = @ + 1]
           /\ disk' = Put(disk, f, [disk[f] EXCEPT !.text = latest[p] + 1])
    /\ Touch({f})
    /\ UNCHANGED <<sidebar, loaded, pc, plan, goal>>

\* Between a crash and the next start, a file the move has already written
\* is left alone.
EditOwnFile(f) == f \notin NewNames /\ ExternalEdit(f)

Operation ==
    \/ \E m \in PageId, q \in Parent : BeginMove(m, q)
    \/ \E f \in DOMAIN plan.pages : WriteMovedPage(f)
    \/ \E f \in DOMAIN plan.links : RewriteInboundLinks(f)
    \/ \E f \in plan.deletes : RemoveOldFile(f)
    \/ FinishMove
    \/ \E p \in PageId, q \in Parent, t \in TypedTitles : Create(p, q, t)
    \/ \E p \in PageId, t \in TypedTitles : WriteBody(p, t)
    \/ \E p \in PageId : Delete(p)
    \/ WriteSidebar
    \/ Reload

Opening ==
    \/ OpenClean
    \/ BeginRecovery
    \/ RollForward
    \/ RollBack
    \/ FinishRecovery

\* The application, crashes, and edits of files no recovery will remove.
Next ==
    \/ Operation
    \/ Opening
    \/ Crash
    \/ \E f \in DOMAIN disk : EditOwnFile(f)

Spec == Init /\ [][Next]_vars

\* A running process takes its next step; nobody promises a restart.
Step ==
    \/ \E f \in DOMAIN plan.pages : WriteMovedPage(f)
    \/ \E f \in DOMAIN plan.links : RewriteInboundLinks(f)
    \/ \E f \in plan.deletes : RemoveOldFile(f)
    \/ FinishMove \/ WriteSidebar
    \/ RollForward \/ RollBack \/ FinishRecovery
FairSpec == Spec /\ WF_vars(Step)

-----------------------------------------------------------------------------
(* Properties *)

\* The store's state has the shape its declarations give it, and the fields
\* of a move in progress are set only while it runs.
TypeOK ==
    /\ DOMAIN disk \subseteq File
    /\ \A f \in DOMAIN disk : disk[f] \in Page
    /\ DOMAIN loaded \subseteq File
    /\ \A f \in DOMAIN loaded : loaded[f] \in Page
    /\ stale \subseteq DOMAIN loaded
    /\ journal \subseteq Rename
    /\ pc \in Phase
    /\ pc # "moving" => plan = NoPlan
    /\ latest \in [PageId -> Nat \cup {Gone}]

\* "Both files, never neither" (move_page, local.rs): whatever the order of
\* operations, crashes, restarts and edits, every page the user has not
\* deleted is in some file of the folder.
NoPageLost == \A p \in PageId : Alive(p) => p \in Ids(disk)

\* INV-4 and INV-5: the last text given to a page, in the application or in
\* an editor, is in a file of that page until the next edit of it: no move,
\* recovery or stale in-memory copy overwrites or removes it.
TextKept ==
    \A p \in PageId : Alive(p) => \E f \in Carriers(disk, p) : disk[f].text = latest[p]

\* INV-4: an operation changes or removes only files whose content is the
\* one the store loaded: an edit made outside is never written over.
NoStaleOverwrite ==
    [][pc = "idle" /\ pc' = "sidebar" =>
         \A f \in DOMAIN disk :
            \/ f \in DOMAIN disk' /\ disk'[f] = disk[f]
            \/ f \in DOMAIN loaded /\ loaded[f] = disk[f]]_vars

\* A folder whose links name a file of the page they mean.
LinksResolve(d) ==
    \A f \in DOMAIN d : \A l \in d[f].links :
        /\ l.to \in Ids(d)
        /\ Carriers(d, d[f].id) = {f} => l.stem \in Carriers(d, l.to)

\* INV-5: inbound links still resolve to the page their author meant, after
\* every completed or recovered move (the second file of a duplicated id is
\* skipped when plan_move rewrites links, so it is excepted).
LinksFollow ==
    pc = "idle" =>
        \A f \in DOMAIN disk : Carriers(disk, disk[f].id) = {f} =>
            \A l \in disk[f].links : Alive(l.to) => l.stem \in Carriers(disk, l.to)

\* INV-5: a recovered move is all or nothing.  Opening the folder leaves its
\* files and parents as they were before the move or as the move would have
\* left them, unless a journalled file was edited meanwhile (its old copy is
\* then kept) or the moved page kept its filename (README).
RecoveryCompletes ==
    /\ pc \in {"forward", "back"}
    /\ pc' = "idle"

RecoveredAllOrNothing ==
    [][RecoveryCompletes /\ ~goal.inPlace /\ (\A e \in journal : e.same)
         => Shape(disk') \in {goal.before, goal.after}]_vars

\* INV-3: every tree mutation regenerates the sidebar; without a crash the
\* idle store's sidebar is the one its files generate.
SidebarFollowsTree ==
    pc = "idle" /\ spent.crashes = 0 => sidebar = TreeOf(disk)

\* Neither a move nor a recovery hangs: it ends, or the process dies.
EveryRunEnds == pc \in {"moving", "sidebar", "forward", "back"} ~> pc \in {"idle", "down"}
-----------------------------------------------------------------------------
(* Why the promises hold: inductive strengthenings *)

AllNew == NewNames \subseteq DOMAIN disk

\* Same page, same text: what a rename and a link rewrite leave alone.
Alike(x, y) == x.id = y.id /\ x.text = y.text

\* The fields of a plan are page files and names.
PlanTyped ==
    /\ plan = [pages |-> plan.pages, links |-> plan.links, deletes |-> plan.deletes]
    /\ \A f \in DOMAIN plan.pages : f \in File /\ plan.pages[f] \in Page
    /\ \A f \in DOMAIN plan.links : f \in File /\ plan.links[f] \in Page

\* The store never mistakes a changed file for the one it loaded.
FingerprintsTrue ==
    \A f \in DOMAIN loaded \ stale : f \in DOMAIN disk /\ disk[f] = loaded[f]

\* What is still to be written only adds copies and rewrites links ...
PlanSafe ==
    /\ \A f \in DOMAIN plan.pages \cap DOMAIN disk : Alike(plan.pages[f], disk[f])
    /\ \A f \in DOMAIN plan.links : f \in DOMAIN disk /\ Alike(plan.links[f], disk[f])
    /\ \A e \in journal : e.new \in DOMAIN plan.pages =>
          e.old \in DOMAIN disk /\ Alike(plan.pages[e.new], disk[e.old])
    /\ DOMAIN plan.pages \cap OldNames \subseteq DOMAIN disk
    /\ pc = "moving" => /\ NewNames \ DOMAIN disk \subseteq DOMAIN plan.pages
                        /\ plan.deletes \subseteq OldNames \ NewNames

\* ... and an unchanged old file next to its new one is a copy of it.
CopiesAlike ==
    \A e \in journal :
        (e.same \/ pc = "moving") /\ {e.old, e.new} \subseteq DOMAIN disk
        => Alike(disk[e.old], disk[e.new])

\* A journal is there only during a move and until its recovery is over;
\* recovery rolls forward exactly when all new files are there.
JournalPhase ==
    /\ pc \in {"idle", "sidebar"} => journal = {}
    /\ pc = "forward" => AllNew
    /\ pc = "back" => ~AllNew

\* While a new file is missing, the last text of every page is in a file
\* rolling back would keep.
TextSafe ==
    \A p \in PageId : Alive(p) =>
        \E f \in Carriers(disk, p) : /\ disk[f].text = latest[p]
                                     /\ f \in NewNames => AllNew

IInv ==
    /\ TypeOK
    /\ PlanTyped
    /\ FingerprintsTrue
    /\ PlanSafe
    /\ CopiesAlike
    /\ JournalPhase
    /\ TextSafe

\* Where a file puts a page.
Spot(f, page) == <<f, page.id, page.parent>>

\* The folder of an open journal lies between the move's two goals: new names
\* are missing of the one, old names of the other, and nothing else differs.
\* The old folder is complete until all new files are there.
Between ==
    /\ Shape(disk) \subseteq goal.before \cup goal.after
    /\ \A x \in goal.before : x[1] \notin NewNames /\ (x[1] \in OldNames \/ x \in goal.after)
    /\ \A x \in goal.after : x[1] \notin OldNames /\ (x[1] \in NewNames \/ x \in goal.before)
    /\ \A x, y \in goal.after : x[1] = y[1] => x = y
    /\ AllNew \/ goal.before \subseteq Shape(disk)
    /\ \A x \in goal.after : x \in Shape(disk) \/ x[1] \in NewNames \ DOMAIN disk
    /\ \A f \in DOMAIN plan.pages : Spot(f, plan.pages[f]) \in goal.after
    /\ \A f \in DOMAIN plan.links : Spot(f, plan.links[f]) \in goal.after

\* IInv keeps the texts; with Between it keeps recoveries all or nothing.
GInv ==
    /\ IInv
    /\ pc = "forward" => journal # {}
    /\ journal # {} /\ ~goal.inPlace => Between

\* The name a file had before the move in the journal, whether it has been
\* renamed yet or not.
Origin(f) == Renamed(Reverse(Renames), f)

\* The renames of a journal are one to one, and no name is both old and new;
\* old files stay until all new ones are there, and are the same pages.
RenamesPaired ==
    /\ OldNames \cap NewNames = {}
    /\ \A d, e \in journal : d.old = e.old <=> d.new = e.new
    /\ AllNew \/ OldNames \subseteq DOMAIN disk
    /\ \A e \in journal : {e.old, e.new} \subseteq DOMAIN disk
                         => disk[e.old].id = disk[e.new].id
    /\ pc = "moving" => OldNames \cap DOMAIN disk \subseteq plan.deletes

\* No file is left of a page that was deleted, and no link is ahead of its
\* page; the store knows every file, but for texts.
FilesOfLivePages ==
    /\ \A f \in DOMAIN disk : Alive(disk[f].id)
    /\ \A f \in DOMAIN plan.pages : Alive(plan.pages[f].id)
    /\ \A f \in DOMAIN disk : \A l \in disk[f].links : latest[l.to] # 0
    /\ \A f \in DOMAIN plan.pages : \A l \in plan.pages[f].links : latest[l.to] # 0
    /\ \A f \in DOMAIN plan.links : \A l \in plan.links[f].links : latest[l.to] # 0
    /\ pc \in {"idle", "sidebar"} =>
          /\ DOMAIN loaded = DOMAIN disk
          /\ \A f \in DOMAIN disk : /\ loaded[f].id = disk[f].id
                                    /\ loaded[f].links = disk[f].links

\* A page's only file, but for the rename under way; a link that names a file
\* of its page under its old or its new name.
OnlyFile(f, p) == \A g \in Carriers(disk, p) : Origin(g) = Origin(f)
Resolves(l) == Alive(l.to) => \E g \in Carriers(disk, l.to) : Origin(g) = Origin(l.stem)

\* Links resolve up to the renames under way, now and in what is still to be
\* written; while the move runs, old names are linked only from files it has
\* yet to rewrite or remove.
LinksTrack ==
    /\ \A f \in DOMAIN disk : OnlyFile(f, disk[f].id) =>
          \A l \in disk[f].links :
             /\ Resolves(l)
             /\ pc = "moving" /\ l.stem \in OldNames
                   => f \in DOMAIN plan.pages \cup DOMAIN plan.links \cup plan.deletes
    /\ \A f \in DOMAIN plan.pages : OnlyFile(f, plan.pages[f].id) =>
          \A l \in plan.pages[f].links : Resolves(l) /\ l.stem \notin OldNames
    /\ \A f \in DOMAIN plan.links : OnlyFile(f, plan.links[f].id) =>
          \A l \in plan.links[f].links : Resolves(l) /\ l.stem \notin OldNames

LInv ==
    /\ IInv
    /\ RenamesPaired
    /\ FilesOfLivePages
    /\ LinksTrack

\* Until a crash the sidebar is the folder's, or about to be made from it.
SidebarDue ==
    /\ "crashes" \in DOMAIN spent /\ spent.crashes \in Nat
    /\ spent.crashes = 0 =>
          /\ pc \in {"idle", "moving", "sidebar"}
          /\ pc = "idle" => sidebar = TreeOf(disk)
          /\ pc = "sidebar" => loaded = disk
=============================================================================
