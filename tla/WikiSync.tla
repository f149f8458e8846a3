------------------------------ MODULE WikiSync -------------------------------
(***************************************************************************)
(* Commit-on-save and synchronisation: crates/berrywiki-sync over          *)
(* berrywiki-git.  One clone of the wiki, its working tree and its branch; *)
(* the remote, to which other clones push at any time; the BerryWiki       *)
(* process, which runs one operation at a time as a sequence of file       *)
(* writes and git commands and may die between two of them; and a person   *)
(* with an editor and git in the same folder.                              *)
(*                                                                         *)
(* A page's text is the set of edits it contains: every save, outside edit *)
(* or push brings a new one, so two texts are equal only when they are the *)
(* same version.  A commit is its tree and its past (all it descends from, *)
(* itself included); commits are numbered as they are made.                *)
(***************************************************************************)
EXTENDS Naturals, Sequences, FiniteSets

CONSTANTS
    Page,          \* page files
    Sidebar,       \* _Sidebar.md
    FirstPages,    \* the pages of the first commit
    MaxAttempts,   \* sync passes of one request (editor.rs: 3)
    MaxEdits,      \* bound: edits made anywhere
    MaxOps,        \* bound: operations begun
    MaxCrashes,    \* bound: deaths of the process
    MaxTerminal    \* bound: git commands a person starts

ASSUME FilesAssumption == Sidebar \notin Page /\ FirstPages \subseteq Page
ASSUME BoundsAssumption ==
    /\ MaxAttempts \in Nat \ {0}
    /\ {MaxEdits, MaxOps, MaxCrashes, MaxTerminal} \subseteq Nat

VARIABLES
    objects,    \* every commit ever made, in the order made
    head,       \* the commit checked out
    branch,     \* the commit the branch names
    attached,   \* HEAD is on the branch
    tracking,   \* the branch has an upstream
    upstream,   \* what the last fetch or push saw of the remote
    remote,     \* the remote's branch
    work,       \* the working tree
    unmerged,   \* files the index holds in several stages
    merging,    \* MERGE_HEAD, or 0
    loaded,     \* the tree as the store last loaded it
    pc,         \* where the process is
    op,         \* the operation it runs
    attempt,    \* which pass of sync_retrying
    outcome,    \* how the last operation ended
    edits,      \* edits made so far
    spent       \* the bounds used up

git == <<objects, head, branch, attached, merging, unmerged>>
far == <<tracking, upstream, remote>>
proc == <<pc, op, attempt, outcome>>
vars == <<git, far, work, loaded, proc, edits, spent>>

File == Page \cup {Sidebar}

\* What a file holds; marked: an unsettled conflict, its markers in the text.
Text == [edits : SUBSET (1 .. MaxEdits), there : BOOLEAN, marked : BOOLEAN]
List == [lists : SUBSET Page, marked : BOOLEAN]
Tree == {t \in [File -> Text \cup List] :
            /\ t[Sidebar] \in List
            /\ \A p \in Page : t[p] \in Text}

Pages(tree) == {p \in Page : tree[p].there}
Listing(tree) == [lists |-> Pages(tree), marked |-> FALSE]
WithSidebar(tree) == [tree EXCEPT ![Sidebar] = Listing(tree)]

FirstText(p) == [edits |-> {}, there |-> p \in FirstPages, marked |-> FALSE]
FirstTree ==
    [f \in File |-> IF f = Sidebar
                    THEN [lists |-> FirstPages, marked |-> FALSE]
                    ELSE FirstText(f)]

\* late is the model's own: the pages another program has written since
\* ensure_committable looked.
NoOp == [kind |-> "none", page |-> Sidebar, base |-> FirstTree[Sidebar], late |-> {}]
Nothing == [f \in File |-> [lists |-> {}, marked |-> FALSE]]

Past(c) == objects[c].past
TreeAt(c) == objects[c].tree

Ahead == Past(head) \ Past(upstream)
Behind == Past(upstream) \ Past(head)
Dirty == work # TreeAt(head) \/ unmerged # {}

Changed(a, b) == {f \in File : a[f] # b[f]}

\* The newest commit both sides descend from.
Base ==
    LET common == Past(head) \cap Past(upstream)
    IN  CHOOSE c \in common : \A d \in common : d <= c

Spend(what, max) ==
    /\ spent[what] < max
    /\ spent' = [spent EXCEPT ![what] = @ + 1]

Mutations == {"create", "update", "delete"}

\* The edit a request has brought and not yet written counts against the bound.
Pending == IF pc \in {"check", "write"} /\ op.kind \in Mutations THEN 1 ELSE 0

NewEdit ==
    /\ edits + Pending < MaxEdits
    /\ edits' = edits + 1

\* The page with the next edit in it; a page that was gone is there again.
Edited(text) == [text EXCEPT !.edits = @ \cup {edits + 1}, !.there = TRUE]

\* The page with an edit put into it that clashes with what it holds.
Clashing(text) == [text EXCEPT !.edits = @ \cup {edits + 1}, !.marked = TRUE]

TypeOK ==
    /\ objects \in Seq([by : {"start", "save", "checkpoint", "merge",
                              "person", "other"},
                        page : File, other : Nat, past : SUBSET Nat, tree : Tree])
    /\ {head, branch, upstream, remote} \subseteq DOMAIN objects
    /\ attached \in BOOLEAN /\ tracking \in BOOLEAN
    /\ attached => head = branch
    /\ work \in Tree
    /\ unmerged \subseteq File
    /\ merging \in {0} \cup DOMAIN objects
    /\ loaded \in Tree \cup {Nothing}
    /\ pc \in {"idle", "down", "check", "write", "sidebar", "commit", "fetch",
               "advance", "conclude", "concluding"}
    /\ op \in [kind : {"none", "create", "update", "delete", "sync", "finish"},
               page : File, base : Text \cup List, late : SUBSET Page]
    /\ attempt \in 0 .. MaxAttempts
    /\ outcome \in {"none", "done", "refused", "diverged"}
    /\ edits \in 0 .. MaxEdits

Init ==
    /\ objects = <<[by |-> "start", page |-> Sidebar, other |-> 0, past |-> {1},
                    tree |-> FirstTree]>>
    /\ head = 1 /\ branch = 1 /\ upstream = 1 /\ remote = 1
    /\ attached = TRUE
    /\ tracking \in BOOLEAN
    /\ work = FirstTree /\ loaded = FirstTree
    /\ unmerged = {} /\ merging = 0
    /\ pc = "idle" /\ op = NoOp /\ attempt = 0 /\ outcome = "none"
    /\ edits = 0
    /\ spent = [ops |-> 0, crashes |-> 0, terminal |-> 0]

-----------------------------------------------------------------------------
(* git commands *)

\* The branch follows HEAD when HEAD is on it.
MoveHead(c) ==
    /\ head' = c
    /\ branch' = IF attached THEN c ELSE branch

\* A commit of this tree, joining another side unless that is 0.
CommitOn(by, page, tree, other) ==
    LET new == Len(objects) + 1
        past == Past(head) \cup {new} \cup (IF other = 0 THEN {} ELSE Past(other))
    IN  /\ objects' = Append(objects, [by |-> by, page |-> page, other |-> other,
                                       past |-> past, tree |-> tree])
        /\ MoveHead(new)
        /\ merging' = 0
        /\ unmerged' = {}
        /\ UNCHANGED attached

\* git add -A, git commit: everything in the working tree, and both parents
\* when a merge was under way.
CommitTree(by, page, tree) == CommitOn(by, page, tree, merging)

\* commit_all: nothing staged, nothing committed.
CommitAll(by, page) ==
    IF work = TreeAt(head)
    THEN unmerged' = {} /\ UNCHANGED <<objects, head, branch, attached, merging>>
    ELSE CommitTree(by, page, work)

-----------------------------------------------------------------------------
(* Every mutation and every sync pass begins with ensure_committable *)

End(result) ==
    /\ pc' = "idle"
    /\ op' = NoOp
    /\ attempt' = 0
    /\ outcome' = result

\* A request reaches the single-threaded server.  The page edited is the one
\* its editor was opened on.
Begin(kind, p) ==
    /\ pc = "idle"
    /\ Spend("ops", MaxOps)
    /\ kind \in Mutations => edits < MaxEdits
    /\ CASE kind \in {"update", "delete"} -> p \in Pages(loaded)
         [] OTHER -> p = Sidebar
    /\ op' = [kind |-> kind, page |-> p, base |-> loaded[p], late |-> {}]
    /\ pc' = IF kind = "finish" THEN "conclude" ELSE "check"
    /\ outcome' = "none"
    /\ UNCHANGED <<git, far, work, loaded, attempt, edits>>

DetachedHead == ~attached
MergeInProgress == merging # 0
UnmergedPaths == unmerged # {}

\* Mutants of Refused: one test dropped.
RefusedUnlessDetached == MergeInProgress \/ UnmergedPaths
RefusedUnlessMerging == DetachedHead \/ UnmergedPaths
RefusedUnlessUnmerged == DetachedHead \/ MergeInProgress

Refused == DetachedHead \/ MergeInProgress \/ UnmergedPaths

AfterCheck ==
    /\ pc' = IF op.kind = "sync" THEN "fetch" ELSE "write"
    /\ op' = [op EXCEPT !.late = {}]

\* Mutants: pending work left for the save's own commit; the store reloaded.
CheckWithoutCheckpoint ==
    /\ pc = "check" /\ ~Refused
    /\ AfterCheck
    /\ UNCHANGED <<git, far, work, loaded, attempt, outcome, edits, spent>>

CheckAndReload ==
    /\ pc = "check" /\ ~Refused
    /\ CommitAll("checkpoint", Sidebar)
    /\ AfterCheck
    /\ loaded' = work
    /\ UNCHANGED <<far, work, attempt, outcome, edits, spent>>

\* Pending work becomes a commit of its own; the store is not reloaded.
Check ==
    /\ pc = "check" /\ ~Refused
    /\ CommitAll("checkpoint", Sidebar)
    /\ AfterCheck
    /\ UNCHANGED <<far, work, loaded, attempt, outcome, edits, spent>>

Refuse ==
    /\ pc = "check" /\ Refused
    /\ End("refused")
    /\ UNCHANGED <<git, far, work, loaded, edits, spent>>

-----------------------------------------------------------------------------
(* Create, update, delete: one page file, the sidebar, one commit *)

\* The store writes the page and reloads (create_page, write_body,
\* delete_page: LocalStore models what the store itself does).
WritePage(p, text) ==
    /\ edits' = edits + 1
    /\ work' = [work EXCEPT ![p] = text]
    /\ loaded' = work'
    /\ pc' = "sidebar"
    /\ op' = [op EXCEPT !.page = p]
    /\ UNCHANGED <<git, far, attempt, outcome, spent>>

\* The filename is one no file in the folder has.
CreatePage ==
    /\ pc = "write" /\ op.kind = "create"
    /\ \E p \in Page :
          /\ ~loaded[p].there /\ ~work[p].there
          /\ WritePage(p, [edits |-> {edits + 1}, there |-> TRUE, marked |-> FALSE])

\* The file is the one loaded, or the operation is refused.
UpdatePage ==
    /\ pc = "write" /\ op.kind = "update"
    /\ work[op.page] = loaded[op.page]
    /\ WritePage(op.page, [op.base EXCEPT !.edits = @ \cup {edits + 1}])

DeletePage ==
    /\ pc = "write" /\ op.kind = "delete"
    /\ work[op.page] = loaded[op.page]
    /\ WritePage(op.page, [op.base EXCEPT !.edits = @ \cup {edits + 1}, !.there = FALSE])

\* StaleWrite, or no name free.
RefuseWrite ==
    /\ pc = "write"
    /\ CASE op.kind = "create" -> \A p \in Page : loaded[p].there \/ work[p].there
         [] OTHER -> work[op.page] # loaded[op.page]
    /\ End("refused")
    /\ UNCHANGED <<git, far, work, loaded, edits, spent>>

\* write_sidebar_if_changed, still inside the store's call.
WriteSidebar ==
    /\ pc = "sidebar"
    /\ work' = [work EXCEPT ![Sidebar] = Listing(loaded)]
    /\ loaded' = [loaded EXCEPT ![Sidebar] = Listing(loaded)]
    /\ pc' = "commit"
    /\ UNCHANGED <<git, far, op, attempt, outcome, edits, spent>>

CommitSave ==
    /\ pc = "commit"
    /\ CommitAll("save", op.page)
    /\ End("done")
    /\ UNCHANGED <<far, work, loaded, edits, spent>>

-----------------------------------------------------------------------------
(* sync_retrying: refresh (check, fetch), then advance *)

Fetch ==
    /\ pc = "fetch" /\ tracking
    /\ upstream' = remote
    /\ pc' = "advance"
    /\ UNCHANGED <<git, tracking, remote, work, loaded, op, attempt, outcome, edits, spent>>

\* No upstream, or the network failed.
NoFetch ==
    /\ pc = "fetch"
    /\ End("done")
    /\ UNCHANGED <<git, far, work, loaded, edits, spent>>

UpToDate ==
    /\ pc = "advance" /\ Ahead = {} /\ Behind = {}
    /\ End("done")
    /\ UNCHANGED <<git, far, work, loaded, edits, spent>>

CanFastForward == Ahead = {} /\ Behind # {}

\* git merge --ff-only refuses to overwrite a changed file.
InTheWay ==
    \/ unmerged # {} \/ merging # 0
    \/ \E f \in Changed(TreeAt(head), TreeAt(upstream)) : work[f] # TreeAt(head)[f]

\* Mutant: git reset --hard to the upstream.
FastForwardAnyway ==
    /\ pc = "advance" /\ Behind # {} /\ ~InTheWay
    /\ MoveHead(upstream)
    /\ work' = TreeAt(upstream)
    /\ loaded' = work'
    /\ End("done")
    /\ UNCHANGED <<objects, attached, merging, unmerged, far, edits, spent>>

FastForward ==
    /\ pc = "advance" /\ CanFastForward /\ ~InTheWay
    /\ MoveHead(upstream)
    /\ work' = [f \in File |-> IF f \in Changed(TreeAt(head), TreeAt(upstream))
                               THEN TreeAt(upstream)[f] ELSE work[f]]
    /\ loaded' = work'
    /\ End("done")
    /\ UNCHANGED <<objects, attached, merging, unmerged, far, edits, spent>>

\* Every failure of the fast-forward is reported as a divergence.
FastForwardFails ==
    /\ pc = "advance" /\ CanFastForward /\ InTheWay
    /\ End("diverged")
    /\ UNCHANGED <<git, far, work, loaded, edits, spent>>

\* Mutant: behind is enough.
HandOffWhenBehind ==
    /\ pc = "advance" /\ Behind # {}
    /\ End("diverged")
    /\ UNCHANGED <<git, far, work, loaded, edits, spent>>

HandOff ==
    /\ pc = "advance" /\ Ahead # {} /\ Behind # {}
    /\ End("diverged")
    /\ UNCHANGED <<git, far, work, loaded, edits, spent>>

CanPublish == Ahead # {} /\ Behind = {}

\* git push: the remote takes only what extends it.
Push ==
    /\ pc = "advance" /\ CanPublish
    /\ Past(remote) \subseteq Past(head)
    /\ remote' = head /\ upstream' = head
    /\ End("done")
    /\ UNCHANGED <<git, tracking, work, loaded, edits, spent>>

\* The server declines, or the network failed.
PushFails ==
    /\ pc = "advance" /\ CanPublish
    /\ End("done")
    /\ UNCHANGED <<git, far, work, loaded, edits, spent>>

PushRacedForever ==
    /\ pc = "advance" /\ CanPublish
    /\ ~ Past(remote) \subseteq Past(head)
    /\ pc' = "advance" /\ attempt' = (attempt + 1) % MaxAttempts
    /\ UNCHANGED <<git, far, work, loaded, op, outcome, edits, spent>>

\* Rejected as a non-fast-forward: another whole pass, up to MaxAttempts.
PushRaced ==
    /\ pc = "advance" /\ CanPublish
    /\ ~ Past(remote) \subseteq Past(head)
    /\ IF attempt + 1 < MaxAttempts
       THEN pc' = "check" /\ attempt' = attempt + 1 /\ UNCHANGED <<op, outcome>>
       ELSE End("done")
    /\ UNCHANGED <<git, far, work, loaded, edits, spent>>

-----------------------------------------------------------------------------
(* finish_merge: conclude a merge a person started *)

\* NoMergeInProgress, or pages unsettled; a detached HEAD is not asked about.
CannotConclude == merging = 0 \/ unmerged \cap Page # {}

RefuseConclude ==
    /\ pc = "conclude" /\ CannotConclude
    /\ End("refused")
    /\ UNCHANGED <<git, far, work, loaded, edits, spent>>

\* Mutant: the sidebar of the pages before the merge.
ConcludeWithoutReload ==
    /\ pc = "conclude" /\ ~CannotConclude
    /\ loaded' = loaded
    /\ work' = [work EXCEPT ![Sidebar] = Listing(loaded)]
    /\ pc' = "concluding"
    /\ UNCHANGED <<git, far, op, attempt, outcome, edits, spent>>

\* Reload, then regenerate the sidebar from the merged pages.
Conclude ==
    /\ pc = "conclude" /\ ~CannotConclude
    /\ work' = WithSidebar(work)
    /\ loaded' = work'
    /\ pc' = "concluding"
    /\ UNCHANGED <<git, far, op, attempt, outcome, edits, spent>>

\* commit_merge commits even when nothing differs.
CommitMerge ==
    /\ pc = "concluding"
    /\ CommitTree("merge", Sidebar, work)
    /\ End("done")
    /\ UNCHANGED <<far, work, loaded, edits, spent>>

-----------------------------------------------------------------------------
(* The process dies, starts again, reloads on request *)

Crash ==
    /\ pc # "down"
    /\ Spend("crashes", MaxCrashes)
    /\ pc' = "down" /\ op' = NoOp /\ attempt' = 0 /\ outcome' = "none"
    /\ loaded' = Nothing
    /\ UNCHANGED <<git, far, work, edits>>

Open ==
    /\ pc = "down"
    /\ loaded' = work
    /\ pc' = "idle"
    /\ UNCHANGED <<git, far, work, op, attempt, outcome, edits, spent>>

Reload ==
    /\ pc = "idle" /\ loaded # work
    /\ loaded' = work
    /\ UNCHANGED <<git, far, work, proc, edits, spent>>

-----------------------------------------------------------------------------
(* The person in the same folder, and the other clones *)

AtRest == pc \in {"idle", "down"}

\* Another editor creates or changes a page, at any time.
EditFile(p) ==
    /\ NewEdit
    /\ merging = 0 /\ p \notin unmerged
    /\ work' = [work EXCEPT ![p] = Edited(@)]
    /\ op' = IF op = NoOp THEN op ELSE [op EXCEPT !.late = @ \cup {p}]
    /\ UNCHANGED <<git, far, loaded, pc, attempt, outcome, spent>>

\* Three-way merge of one file: a side that did not change yields.
Clean(b, o, t) == o = t \/ t = b \/ o = b
Merged(b, o, t) ==
    CASE o = t \/ t = b -> o
      [] o = b /\ o # t -> t
      [] OTHER -> IF o \in List
                  THEN [o EXCEPT !.marked = TRUE]
                  ELSE [edits |-> o.edits \cup t.edits, there |-> TRUE, marked |-> TRUE]

\* git merge of the fetched upstream into a clean tree.
StartMerge ==
    /\ attached /\ merging = 0 /\ ~Dirty
    /\ Ahead # {} /\ Behind # {}
    /\ Spend("terminal", MaxTerminal)
    /\ LET b == TreeAt(Base)
           o == TreeAt(head)
           t == TreeAt(upstream)
           m == [f \in File |-> Merged(b[f], o[f], t[f])]
           clash == {f \in File : ~Clean(b[f], o[f], t[f])}
       IN  /\ work' = m
           /\ IF clash = {}
              THEN CommitOn("person", Sidebar, m, upstream)
              ELSE /\ merging' = upstream
                   /\ unmerged' = clash
                   /\ UNCHANGED <<objects, head, branch, attached>>
    /\ UNCHANGED <<far, loaded, proc, edits>>

\* A stashed edit is put back over a file that has changed.
PopStash(p) ==
    /\ NewEdit
    /\ merging = 0 /\ ~Dirty /\ work[p].there
    /\ Spend("terminal", MaxTerminal)
    /\ work' = [work EXCEPT ![p] = Clashing(@)]
    /\ unmerged' = {p}
    /\ UNCHANGED <<objects, head, branch, attached, merging, far, loaded, proc>>

\* The person decides, and git add.
Settle(f) ==
    /\ f \in unmerged
    /\ work' = [work EXCEPT ![f] = [@ EXCEPT !.marked = FALSE]]
    /\ unmerged' = unmerged \ {f}
    /\ UNCHANGED <<objects, head, branch, attached, merging, far, loaded, proc, edits, spent>>

AbortMerge ==
    /\ merging # 0
    /\ merging' = 0 /\ unmerged' = {}
    /\ work' = TreeAt(head)
    /\ UNCHANGED <<objects, head, branch, attached, far, loaded, proc, edits, spent>>

PersonCommits ==
    /\ attached /\ unmerged = {}
    /\ work # TreeAt(head) \/ merging # 0
    /\ Spend("terminal", MaxTerminal)
    /\ CommitTree("person", Sidebar, work)
    /\ UNCHANGED <<far, work, loaded, proc, edits>>

\* Looking at an old state, and coming back.
Detach ==
    /\ attached
    /\ Spend("terminal", MaxTerminal)
    /\ attached' = FALSE
    /\ UNCHANGED <<objects, head, branch, merging, unmerged, far, work, loaded, proc, edits>>

Attach ==
    /\ ~attached /\ ~Dirty /\ merging = 0
    /\ attached' = TRUE
    /\ head' = branch
    /\ work' = TreeAt(branch)
    /\ UNCHANGED <<objects, branch, merging, unmerged, far, loaded, proc, edits, spent>>

\* Another clone, itself kept by BerryWiki, publishes an edit of a page
\* (of interest only once this clone has an upstream to see it on).
OtherPush(p) ==
    /\ tracking
    /\ NewEdit
    /\ LET new == Len(objects) + 1
           tree == [TreeAt(remote) EXCEPT ![p] = Edited(@)]
       IN  /\ objects' = Append(objects,
                  [by |-> "other", page |-> p, other |-> 0,
                   past |-> Past(remote) \cup {new}, tree |-> WithSidebar(tree)])
           /\ remote' = new
    /\ UNCHANGED <<head, branch, attached, merging, unmerged, tracking, upstream,
                   work, loaded, proc, spent>>

-----------------------------------------------------------------------------

Process ==
    \/ Check \/ Refuse
    \/ CreatePage \/ UpdatePage \/ DeletePage \/ RefuseWrite \/ WriteSidebar \/ CommitSave
    \/ Fetch \/ NoFetch \/ UpToDate \/ FastForward \/ FastForwardFails \/ HandOff
    \/ Push \/ PushFails \/ PushRaced
    \/ RefuseConclude \/ Conclude \/ CommitMerge

Request == \E kind \in Mutations \cup {"sync", "finish"}, p \in File :
              Begin(kind, p)

Terminal ==
    \/ \E p \in Page : PopStash(p)
    \/ \E f \in File : Settle(f)
    \/ StartMerge \/ AbortMerge \/ PersonCommits
    \/ (merging = 0 /\ Detach)
    \/ Attach

Next ==
    \/ Request \/ Process \/ Crash \/ Open \/ Reload
    \/ (AtRest /\ Terminal)
    \/ \E p \in Page : EditFile(p) \/ OtherPush(p)

Spec == Init /\ [][Next]_vars

\* The process runs on when it is scheduled; nobody has to act otherwise.
FairSpec == Spec /\ WF_vars(Process)

-----------------------------------------------------------------------------
(* Properties *)

Made(by) == {c \in DOMAIN objects : objects[c].by \in by}
ByBerryWiki == {"save", "checkpoint", "merge"}
EditsIn(tree) == UNION {tree[p].edits : p \in Page}

\* INV-4: whatever the order of saves, outside edits, pulls, merges, pushes
\* and crashes, every edit ever made is in the working tree or in a commit
\* the branch or the remote still reaches.
NoWorkLost ==
    1 .. edits \subseteq EditsIn(work) \cup
        UNION {EditsIn(TreeAt(c)) : c \in Past(branch) \cup Past(remote)}

\* An unsettled conflict is never committed by BerryWiki (finish_merge,
\* SyncError::UnmergedPaths).
NoMarkersCommitted ==
    \A c \in Made(ByBerryWiki) : \A f \in File : ~TreeAt(c)[f].marked

\* A merge someone else started ends in a merge commit or in that person's
\* own, never in a save or a checkpoint (ensure_committable).
MergeNotAbsorbed == \A c \in DOMAIN objects :
    objects[c].other # 0 => objects[c].by \in {"merge", "person"}

\* A commit of one of these kinds is made.
Makes(by) == Len(objects') > Len(objects) /\ objects'[Len(objects')].by \in by

\* A save's commit changes the page saved and the sidebar, nothing that was
\* pending before it or came with a pull (one logical commit); what another
\* program writes while the save runs goes into it (git add -A).
OneCommitPerSave ==
    [][Makes({"save"}) =>
          Changed(TreeAt(head), objects'[head'].tree)
             \subseteq {op.page, Sidebar} \cup op.late]_vars

\* INV-3: the commit of a save, and the commit that concludes a merge, hold
\* the sidebar of exactly the pages they hold, but for those another program
\* has written while the operation ran.
SidebarInSameCommit ==
    [][Makes({"save", "merge"}) =>
          LET tree == objects'[head'].tree
          IN  /\ ~tree[Sidebar].marked
              /\ tree[Sidebar].lists \ op.late = Pages(tree) \ op.late]_vars

\* A process's own writes never drop an edit from a page file; in particular
\* a checkpoint does not make a save trust the text it checkpointed.
NoClobber ==
    [][pc = "write" =>
          \A p \in Pages(work) : work[p].edits \subseteq work'[p].edits]_vars

\* "Diverged" is reported only when both sides have moved, or a file written
\* during the sync is in the way of the fast-forward; nothing is changed
\* (SyncOutcome::Diverged).
DivergedIsTrue ==
    [][outcome # "diverged" /\ outcome' = "diverged" =>
          /\ Behind # {} /\ (Ahead # {} \/ op.late # {})
          /\ op.late = {} => work = TreeAt(head)
          /\ UNCHANGED <<git, work, far>>]_vars

\* Histories only grow, and the remote only by what extends it: the three
\* histories follow WikiHistory.
History == INSTANCE WikiHistory WITH
              local <- Past(branch), seen <- Past(upstream), remote <- Past(remote)
KeepsHistory == History!Spec

\* Every operation ends, a sync that keeps losing the race included.
OperationsEnd == pc \notin {"idle", "down"} ~> pc \in {"idle", "down"}

-----------------------------------------------------------------------------
(* The inductive invariant *)

\* An operation keeps what it was begun with until it has written it.
Operation ==
    /\ pc \in {"idle", "down"} => op = NoOp
    /\ pc = "check" => op.kind \in Mutations \cup {"sync"}
    /\ pc \in {"write", "sidebar", "commit"} => op.kind \in Mutations
    /\ pc \in {"fetch", "advance"} => op.kind = "sync"
    /\ pc \in {"conclude", "concluding"} => op.kind = "finish"
    /\ pc \in {"check", "write"} /\ op.kind \in Mutations => edits < MaxEdits
    /\ pc \in {"check", "write"} /\ op.kind \in {"update", "delete"} =>
          op.page \in Pages(loaded) /\ op.base = loaded[op.page]
    /\ pc \in {"sidebar", "commit"} => op.page \in Page
    /\ pc # "down" => loaded \in Tree

\* What ensure_committable found holds until the operation ends.
Undisturbed ==
    pc \in {"write", "sidebar", "commit", "fetch", "advance"} => ~Refused

\* A commit's past holds the commit itself; what was seen of the remote was there.
Pasts ==
    /\ \A c \in DOMAIN objects : c \in Past(c) /\ Past(c) \subseteq DOMAIN objects
    /\ head = branch
    /\ Past(upstream) \subseteq Past(remote)

\* A merge is of what was fetched, and nothing but the two sides is in the folder.
OpenMerge ==
    /\ merging # 0 =>
          /\ attached
          /\ merging = upstream
          /\ pc \in {"idle", "down", "check", "conclude", "concluding"}
          /\ EditsIn(work) \subseteq EditsIn(TreeAt(head)) \cup EditsIn(TreeAt(upstream))
    /\ pc = "concluding" =>
          /\ merging # 0
          /\ unmerged \cap Page = {}
          /\ work[Sidebar] = Listing(work)

\* Unsettled conflicts are where the index says, and in no commit.
Marks ==
    /\ \A f \in File : work[f].marked => f \in unmerged
    /\ \A c \in DOMAIN objects : \A f \in File : ~TreeAt(c)[f].marked

\* What differs from the last commit is the operation's own, or late.
Differences ==
    /\ pc \in {"write", "fetch", "advance"} =>
          Changed(TreeAt(head), work) \subseteq op.late
    /\ pc \in {"sidebar", "commit"} =>
          Changed(TreeAt(head), work) \subseteq {op.page, Sidebar} \cup op.late
    /\ pc = "write" => \A p \in op.late : work[p].there
    /\ pc \in {"sidebar", "commit"} =>
          \A p \in Page \ op.late : loaded[p].there = work[p].there
    /\ pc = "commit" => work[Sidebar] = Listing(loaded)

IInv == /\ TypeOK /\ Operation /\ Undisturbed /\ Pasts /\ OpenMerge
        /\ Marks /\ Differences /\ MergeNotAbsorbed /\ NoWorkLost
=============================================================================
