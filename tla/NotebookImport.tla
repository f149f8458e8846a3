--------------------------- MODULE NotebookImport ---------------------------
(***************************************************************************)
(* berrywiki import (berrywiki-cli, import.rs) over a page folder: what a  *)
(* notebook's nodes become, the plan, the refusals before the first write, *)
(* the pages and attachments one by one, and the one commit at the end.    *)
(* A run may be killed between any two steps and started again; meanwhile  *)
(* people edit, delete and commit pages, with and without BerryWiki.       *)
(* A node's identity is its marker: the file's hash and the node's own id. *)
(***************************************************************************)
EXTENDS StoreNaming

CONSTANTS
    Process,   \* imports that may be running
    Book,      \* contents the notebook file may have; one hash each
    Nodes,     \* Nodes[b]: the nodes read from b, in pre-order
    SourceId,  \* node ids of the notebook program
    IdOf,      \* page_id: the page of a marker <<book, source id>>
    Asset,     \* file names of attachments
    NoHeading, \* the text of a node opens with no H1
    MaxRuns,   \* bound: imports started
    MaxPeople  \* bound: things people do

Node == [sid : SourceId, parent : Nat, title : Title, heading : Title \cup {NoHeading},
         assets : SUBSET Asset]
Marker == Book \X SourceId
NoMarker == <<>>

ASSUME ImportAssumption ==
    /\ Nodes \in [Book -> Seq(Node)]
    /\ \A b \in Book : \A i \in DOMAIN Nodes[b] : Nodes[b][i].parent < i
    /\ NoHeading \notin Title
    /\ IdOf \in [Marker -> PageId]
    /\ \A m, n \in Marker : IdOf[m] = IdOf[n] => m = n
    /\ MaxRuns \in Nat /\ MaxPeople \in Nat

VARIABLES
    disk,     \* the page files: name -> page
    attached, \* the attachments: page and file name
    head,     \* what the last commit holds of both
    file,     \* the notebook file's contents now
    proc,     \* what each import is doing
    held,     \* the writer lock is held
    runs, people
vars == <<disk, attached, head, file, proc, held, runs, people>>

Page == [id : PageId, parent : Parent, title : Title, source : Marker \cup {NoMarker},
         text : {"imported", "edited"}]
Attachment == [page : PageId, name : Asset]
Idle == [pc |-> "idle", apply |-> FALSE, book |-> CHOOSE b \in Book : TRUE,
         graph |-> <<>>, todo |-> {}, left |-> {}, fresh |-> FALSE]

IsFolder(d) == DOMAIN d \subseteq File /\ \A f \in DOMAIN d : d[f] \in Page

Init ==
    /\ disk = <<>> /\ attached = {} /\ head = [disk |-> <<>>, attached |-> {}]
    /\ file \in Book /\ held = FALSE
    /\ proc = [p \in Process |-> Idle]
    /\ runs = 0 /\ people = 0

-----------------------------------------------------------------------------
(* The wiki *)

Ids(d) == {d[f].id : f \in DOMAIN d}
With(d, f, page) == [g \in DOMAIN d \cup {f} |-> IF g = f THEN page ELSE d[g]]

\* read_page: the page a graph answers with for an id (the first file's).
PageOf(d, id) ==
    d[CHOOSE f \in DOMAIN d :
        d[f].id = id /\ \A g \in DOMAIN d \ {f} : d[g].id = id => Before(f, g)]

ParentIn(g, page) ==
    [id \in PageId |-> IF id = page.id THEN page.parent
                       ELSE IF id \in Ids(g) THEN PageOf(g, id).parent ELSE NoPage]

\* A page is filed under a title of its own, below the titles its ancestors
\* have in the graph.
PlainName(g, page, title) ==
    PageFilename(ParentIn(g, page),
                 [id \in PageId |-> IF id = page.id THEN title
                                    ELSE IF id \in Ids(g) THEN PageOf(g, id).title ELSE 0],
                 page.id)

AncestorsKnown(g, page) ==
    \A n \in 1 .. MaxHops : Ancestry(ParentIn(g, page), page.id)[n] \in Ids(g) \cup {NoPage}

\* Mutant: the plain name is looked for in the graph only.
AnyName(d, g, page, title) ==
    LET plain == PlainName(g, page, title)
        name  == IF plain \in DOMAIN g THEN WithIdSuffix(plain, page.id) ELSE plain
    IN  {name}

\* unique_filename: the plain name, or the one with the id's tail when that is
\* taken on disk; none when both are, when it is no name for a file, or when an
\* ancestor is not there.
FreeName(d, g, page, title) ==
    LET plain == PlainName(g, page, title)
        name  == IF plain \in DOMAIN d THEN WithIdSuffix(plain, page.id) ELSE plain
    IN  {f \in {name} \cap File : f \notin DOMAIN d /\ AncestorsKnown(g, page)}

-----------------------------------------------------------------------------
(* The model of a notebook, and the plan *)

NodesOf(p) == Nodes[proc[p].book]
IdAt(b, i) == IdOf[<<b, Nodes[b][i].sid>>]

\* title_collisions: exact titles, among siblings.
TitlesCollide(b) ==
    \E i, j \in DOMAIN Nodes[b] :
        i < j /\ Nodes[b][i].parent = Nodes[b][j].parent /\ Nodes[b][i].title = Nodes[b][j].title

ToCreate(b, g) == {i \in DOMAIN Nodes[b] : IdAt(b, i) \notin Ids(g)}

\* Mutant: a page that is there counts as imported.
OccupiedNever(b, g) == {}

\* The pages that are there and do not carry the node's own marker.
Occupied(b, g) ==
    {i \in DOMAIN Nodes[b] :
        IdAt(b, i) \in Ids(g) /\ PageOf(g, IdAt(b, i)).source # <<b, Nodes[b][i].sid>>}

\* create_page puts the title above a text that opens with no H1; the title of
\* a page is its first H1 (derive_title).
PageFor(b, i) ==
    LET node == Nodes[b][i]
    IN  [id     |-> IdAt(b, i),
         parent |-> IF node.parent = 0 THEN NoPage ELSE IdAt(b, node.parent),
         title  |-> IF node.heading = NoHeading THEN node.title ELSE node.heading,
         source |-> <<b, node.sid>>, text |-> "imported"]

-----------------------------------------------------------------------------
(* cmd_import *)

At(p, pc) == proc[p].pc = pc
Now(p, rec) == proc' = [proc EXCEPT ![p] = rec]

Ends(p) == Now(p, Idle) /\ held' = (held /\ proc[p].pc \in {"idle", "open", "lock"})

ReadNotebook(p, apply) ==
    /\ At(p, "idle") /\ runs < MaxRuns /\ runs' = runs + 1
    /\ Now(p, [Idle EXCEPT !.pc = "open", !.apply = apply, !.book = file])
    /\ UNCHANGED <<disk, attached, head, file, held, people>>

\* LocalFolderStore::open loads the graph; the lock comes after it.
OpenStore(p) ==
    /\ At(p, "open")
    /\ Now(p, [proc[p] EXCEPT !.pc = "lock", !.graph = disk])
    /\ UNCHANGED <<disk, attached, head, file, held, runs, people>>

TakeLock(p) ==
    /\ At(p, "lock") /\ ~held /\ held' = TRUE
    /\ Now(p, [proc[p] EXCEPT !.pc = "plan", !.fresh = (proc[p].graph = disk),
                              !.todo = ToCreate(proc[p].book, proc[p].graph)])
    /\ UNCHANGED <<disk, attached, head, file, runs, people>>

\* A dry run reports here; colliding titles and occupied pages refuse here.
\* Any step may also fail or be killed: what is written stays, the lock goes.
Stop(p) ==
    /\ ~At(p, "idle") /\ Ends(p)
    /\ UNCHANGED <<disk, attached, head, file, runs, people>>

Accept(p) ==
    /\ At(p, "plan") /\ proc[p].apply
    /\ ~TitlesCollide(proc[p].book)
    /\ Occupied(proc[p].book, proc[p].graph) = {}
    /\ Now(p, [proc[p] EXCEPT !.pc = "write"])
    /\ UNCHANGED <<disk, attached, head, file, held, runs, people>>

Current(p) == CHOOSE i \in proc[p].todo : \A j \in proc[p].todo : i <= j

\* Mutant: the graph is not asked for the id.
CreateAnyway(p) ==
    /\ At(p, "write") /\ proc[p].todo # {}
    /\ LET i    == Current(p)
           page == PageFor(proc[p].book, i)
       IN  /\ page.parent \in Ids(proc[p].graph) \cup {NoPage}
           /\ \E f \in FreeName(disk, proc[p].graph, page, NodesOf(p)[i].title) :
                 /\ disk' = With(disk, f, page)
                 /\ Now(p, [proc[p] EXCEPT !.pc = "attach", !.graph = disk',
                                           !.left = NodesOf(p)[i].assets])
    /\ UNCHANGED <<attached, head, file, held, runs, people>>

\* create_page refuses an id or a missing parent by the graph in memory, files
\* the page under the node's title, whatever its text opens with, by a name that
\* the folder has free, writes it and reloads.  A refusal ends the run.
CreatePage(p) ==
    /\ At(p, "write") /\ proc[p].todo # {}
    /\ LET i    == Current(p)
           page == PageFor(proc[p].book, i)
       IN  /\ page.id \notin Ids(proc[p].graph)
           /\ page.parent \in Ids(proc[p].graph) \cup {NoPage}
           /\ \E f \in FreeName(disk, proc[p].graph, page, NodesOf(p)[i].title) :
                 /\ disk' = With(disk, f, page)
                 /\ Now(p, [proc[p] EXCEPT !.pc = "attach", !.graph = disk',
                                           !.left = NodesOf(p)[i].assets])
    /\ UNCHANGED <<attached, head, file, held, runs, people>>

\* add_attachment; a failure is a warning.
AddAttachment(p, a) ==
    /\ At(p, "attach") /\ a \in proc[p].left
    /\ Now(p, [proc[p] EXCEPT !.left = @ \ {a}])
    /\ LET one == [page |-> IdAt(proc[p].book, Current(p)), name |-> a]
       IN  attached' \in {attached, attached \cup {one}}
    /\ UNCHANGED <<disk, head, file, held, runs, people>>

NextNode(p) ==
    /\ At(p, "attach") /\ proc[p].left = {}
    /\ Now(p, [proc[p] EXCEPT !.pc = "write", !.todo = @ \ {Current(p)}])
    /\ UNCHANGED <<disk, attached, head, file, held, runs, people>>

\* git add -A and commit: the whole folder, whoever wrote it.
Commit(p) ==
    /\ At(p, "write") /\ proc[p].todo = {}
    /\ Now(p, [proc[p] EXCEPT !.pc = "report"])
    /\ head' = [disk |-> disk, attached |-> attached]
    /\ UNCHANGED <<disk, attached, file, held, runs, people>>

Report(p) ==
    /\ At(p, "report") /\ Ends(p)
    /\ UNCHANGED <<disk, attached, head, file, runs, people>>

-----------------------------------------------------------------------------
(* People *)

Act == people < MaxPeople /\ people' = people + 1

\* The text changes, and with its first H1 the title; the file keeps its name.
EditPage(f, title) ==
    /\ Act
    /\ disk' = [disk EXCEPT ![f].text = "edited", ![f].title = title]
    /\ UNCHANGED <<attached, head, file, proc, held, runs>>

\* The page goes below another and is filed under the title it has now; the
\* pages below it, if any, are more such moves.
MovePage(f, parent) ==
    /\ Act /\ ~held
    /\ parent \in Ids(disk) \cup {NoPage}
    /\ LET page == [disk[f] EXCEPT !.text = "edited", !.parent = parent]
           rest == [g \in DOMAIN disk \ {f} |-> disk[g]]
       IN  \E g \in FreeName(rest, disk, page, page.title) : disk' = With(rest, g, page)
    /\ UNCHANGED <<attached, head, file, proc, held, runs>>

DropMarker(f) ==
    /\ Act /\ ~held
    /\ disk' = [disk EXCEPT ![f].source = NoMarker]
    /\ UNCHANGED <<attached, head, file, proc, held, runs>>

DeletePage(f) ==
    /\ Act /\ ~held
    /\ disk' = [g \in DOMAIN disk \ {f} |-> disk[g]]
    /\ UNCHANGED <<attached, head, file, proc, held, runs>>

CommitByHand ==
    /\ Act /\ head' = [disk |-> disk, attached |-> attached]
    /\ UNCHANGED <<disk, attached, file, proc, held, runs>>

\* The advice printed after a failure, `git checkout -- .`: tracked files only.
CheckOut ==
    /\ Act /\ \A p \in Process : At(p, "idle")
    /\ disk' = [f \in DOMAIN disk \cup DOMAIN head.disk |->
                  IF f \in DOMAIN head.disk THEN head.disk[f] ELSE disk[f]]
    /\ attached' = attached \cup head.attached
    /\ UNCHANGED <<head, file, proc, held, runs>>

SaveNotebook(b) ==
    /\ Act /\ b # file /\ file' = b
    /\ UNCHANGED <<disk, attached, head, proc, held, runs>>

-----------------------------------------------------------------------------

Import(p) ==
    \/ OpenStore(p) \/ TakeLock(p) \/ Accept(p) \/ CreatePage(p) \/ NextNode(p)
    \/ Commit(p) \/ Report(p) \/ Stop(p)
    \/ \E apply \in BOOLEAN : ReadNotebook(p, apply)
    \/ \E a \in Asset : AddAttachment(p, a)

People ==
    \/ CommitByHand \/ CheckOut
    \/ \E b \in Book : SaveNotebook(b)
    \/ \E f \in DOMAIN disk : DropMarker(f) \/ DeletePage(f)
    \/ \E f \in DOMAIN disk, title \in Title : EditPage(f, title)
    \/ \E f \in DOMAIN disk, parent \in Parent : MovePage(f, parent)

Next == People \/ \E p \in Process : Import(p)

Spec == Init /\ [][Next]_vars

-----------------------------------------------------------------------------
(* Properties *)

\* The page of a node: as it was imported, unless people touched it.
IsPageOf(page, b, i) ==
    /\ page.id = IdAt(b, i) /\ page.source = <<b, Nodes[b][i].sid>>
    /\ page = PageFor(b, i) \/ page.text = "edited"

\* No step of an import removes or rewrites a page that is in the folder,
\* whoever put it there and whenever (the module's "no --overwrite").
NothingOverwritten ==
    [][people' = people =>
          \A f \in DOMAIN disk : f \in DOMAIN disk' /\ disk'[f] = disk[f]]_vars

\* Importing twice is importing once: a run that saw the folder it locked never
\* writes a page under an id the folder has, after whatever kills and reruns.
NoSecondPage ==
    [][\A p \in Process :
          proc[p].fresh /\ proc'[p] # proc[p] =>
             \A f \in DOMAIN disk' \ DOMAIN disk : disk'[f].id \notin Ids(disk)]_vars

\* A run that reports success has committed every node as a page with its id and
\* its marker, written by this run or by an earlier one; the page is the node's,
\* title and parent, or what people have made of it since.  Nodes that share
\* their id with another are not promised (README).
ReportMeansImported ==
    \A p \in Process : At(p, "report") /\ proc[p].fresh =>
        LET b == proc[p].book
        IN  \A i \in DOMAIN Nodes[b] :
               (\A j \in DOMAIN Nodes[b] \ {i} : Nodes[b][j].sid # Nodes[b][i].sid) =>
                  \E f \in DOMAIN head.disk : IsPageOf(head.disk[f], b, i)

\* The plan is one for the wiki as it is under the lock ("the wiki cannot
\* change under us between deciding what to do and doing it").  It does not
\* hold: the pages were read before the lock was taken.
PlanIsOfThisWiki ==
    \A p \in Process : At(p, "plan") => proc[p].todo = ToCreate(proc[p].book, disk)

-----------------------------------------------------------------------------
(* The inductive invariant *)

IsRecord(r) ==
    /\ r.pc \in {"idle", "open", "lock", "plan", "write", "attach", "report"}
    /\ r = [pc |-> r.pc, apply |-> r.apply, book |-> r.book, graph |-> r.graph,
            todo |-> r.todo, left |-> r.left, fresh |-> r.fresh]

Records ==
    /\ held \in BOOLEAN /\ people \in Nat /\ DOMAIN proc = Process
    /\ \A p \in Process : IsRecord(proc[p])

\* One import at a time is past the lock.
Holding(p) == proc[p].pc \in {"plan", "write", "attach", "report"}
OneImport == \A p, q \in Process : Holding(p) => held /\ (Holding(q) => p = q)

\* An import that saw the folder it locked knows of every page in it.
GraphCovers ==
    \A p \in Process : proc[p].fresh => Holding(p) /\ Ids(disk) \subseteq Ids(proc[p].graph)

IInv == Records /\ OneImport /\ GraphCovers

\* A page with a marker is the page of a node of that marker ...
Original(page) ==
    page.source # NoMarker => \E b \in Book : \E i \in DOMAIN Nodes[b] : IsPageOf(page, b, i)

Folder(d) ==
    /\ IsFiniteSet(DOMAIN d) /\ IsFolder(d)
    /\ \A f \in DOMAIN d : Original(d[f])

\* ... so a node is done when its marker is in the folder.
Done(d, b, i) == \E f \in DOMAIN d : d[f].source = <<b, Nodes[b][i].sid>>

\* What an import that saw the folder it locked has done so far.
Progress(p) ==
    LET b == proc[p].book
    IN  /\ At(p, "plan") =>
              /\ proc[p].todo = ToCreate(b, proc[p].graph)
              /\ Folder(proc[p].graph)
              /\ \A f \in DOMAIN proc[p].graph :
                    f \in DOMAIN disk /\ disk[f].source = proc[p].graph[f].source
        /\ \A i \in DOMAIN Nodes[b] :
              /\ ~At(p, "plan") /\ i \notin proc[p].todo => Done(disk, b, i)
              /\ At(p, "attach") /\ i = Current(p) => Done(disk, b, i)
              /\ At(p, "report") => i \notin proc[p].todo /\ Done(head.disk, b, i)

Folders ==
    /\ file \in Book /\ Folder(disk) /\ Folder(head.disk)
    /\ \A p \in Process :
          proc[p].book \in Book /\ proc[p].todo \subseteq DOMAIN Nodes[proc[p].book]

ReportInv == IInv /\ Folders /\ \A p \in Process : proc[p].fresh => Progress(p)

=============================================================================
