# BerryWiki in TLA+

BerryWiki edits a GitHub-style wiki - a folder of Markdown files under git -
as a tree of pages.  It promises that the folder stays usable without it, that
a move of a subtree is all or nothing, that no edit made in another editor is
written over, that a save is one commit, that two tabs do not silently
overwrite one another, that an import or a restore never writes over what is
there (`docs/proofs/invariants.adoc`, `docs/decisions/`).  These modules state
those promises over the code in `crates/`, check them with TLC on small
instances, and prove the central ones with TLAPS for every size.

Contents: [inventory](#inventory), [modules](#the-modules),
[runs](#the-runs), [fairness](#fairness), [proofs](#the-proofs),
[disagreements](#where-the-code-disagrees-with-its-documents),
[left out](#what-is-not-modelled-and-why), [plan](#plan).

To repeat a check: `tlc -config LocalStore.cfg MCLocalStore.tla`, and so on for
the pairs in the table of runs; `tlapm LocalStoreProofs.tla`, and so on.

## Inventory

| Component (crate) | State | Operations | Talks to |
|---|---|---|---|
| Page source, metadata block (`berrywiki-core`) | none; pure | parse and serialise a page's file | store |
| Page graph, sidebar (`berrywiki-core`) | parsed pages, roots and children by id, diagnostics | build, walk, generate_sidebar; pure | store |
| Page folder store (`berrywiki-store`) | the graph of the last reload, a fingerprint (mtime, length) per file; the files | open (with recovery), create, save, plan and apply a move, delete, attach, reload, regenerate the sidebar | folder, journal |
| App state (`berrywiki-appstate`) | the move journal, the lock file and its record, outside the clone | journal write/read/clear; acquire and drop the lock | store, command line |
| Git engine (`berrywiki-git`) | the clone: HEAD, branch, index, working tree, upstream | status, divergence, commit_all, commit_merge, fetch, fast-forward, push | sync |
| Commit-on-save and sync (`berrywiki-sync`) | none of its own but the store and the clone | each mutation = check, store call, commit; sync_retrying; conflict report; finish_merge | store, git |
| Draft store (`berrywiki-draft`) | one file per page, outside the clone | save, load, discard | editor |
| Editor and HTTP server (`berrywiki-serve`) | the App; every browser tab holds a form with its text and base | one thread: accept, read the head and the body under a deadline, screen, dispatch, answer | sync or store, drafts |
| Command line (`berrywiki-cli`) | none | check, sidebar, serve, backup, restore, mirror, import | everything |
| Notebook reader (`berrywiki-import`) | none; one pass over the XML events, then one over each node | detect the format, read, build the pages with their losses reported | import command |
| Import command (`cli/import.rs`) | none but what it writes | read, plan, refuse, write pages and attachments, commit, report | store, sync |
| Mirror (`berrywiki-github`) | a read-only clone with an ownership marker | clone or update | git |
| Rendering, accessibility, git-compat | none; pure or test-only | | |

What is hard in each:

- **Store.** A move touches many files and cannot be atomic; the journal makes
  it recoverable.  The process may die between any two file steps, again
  inside recovery, and the owner may edit files while it is down.  Correct:
  no page and no text is ever lost, recovery is all or nothing, links
  and sidebar follow, no stale copy is written over a newer file.
- **Lock and several processes.** Recovery runs in `open`, *before* the lock;
  `check` never locks.  Correct: one writer, whole moves, whoever recovers.
- **Sync.** Files, index and HEAD are changed by a person at a terminal, other
  clones push between fetch and push, the process dies between a store write
  and its commit.  Correct: no edit leaves the working tree and both
  histories; a merge somebody else started is never absorbed; no conflict
  marker is committed; the histories only grow; a lost push race ends.
- **Editor.** The store's fingerprint is renewed by the first of two saves, so
  only the form's own base can refuse the second; a refused text must survive.
  "Draft saved" is a redirect: other tabs come between it and the next form.
- **Server.** One thread serves everybody, so a client that trickles bytes
  stops all others; forms are confirmed long after they were rendered, on a
  tree that other tabs and the owner have changed.  Correct: every connection
  ends; a move starts where its user saw the page; a tree stays a tree.
- **Page source.** A block written by hand is read and rewritten for ever.
  Correct: what is saved is what is read back; no unknown field is dropped.
- **Page graph.** Parent references may be cyclic or dangling; the recursion
  must end and drop no page.
- **Backup, restore, mirror.** Several copies that must agree, made in steps,
  each of which may fail; commands that fill a folder must not take what is
  in it.  Correct: a manifest means a whole backup, a reported restore is one.
- **Import.** Many pages, then attachments, then one commit; killed and rerun,
  beside people who edit, move and delete what it wrote.  Correct: nothing written
  over, nothing twice, no report of more than is there.
- **Reader.** Text and widgets are joined by character offsets; the file may
  break off anywhere.  Correct: the tree is the file's, and nothing of a node
  disappears without a diagnostic (code nodes and empty tables excepted: the code
  drops those without a word).

The files and lines behind each hazard are in `PROJECT.json`.

## The modules

| Module | Models | Uses |
|---|---|---|
| `StoreNaming` | filenames (titles of the path), the id suffix, ancestry walks (`paths.rs`, `graph.rs`) | |
| `LocalStore` | the page folder store, one process, its journal and its crashes | `StoreNaming` |
| `WikiHistory` | abstract: three histories that only grow | |
| `WikiSync` | SyncedStore over GitRepo, a person in the same clone, other clones | `WikiHistory` by `INSTANCE` |
| `Editor` | the handlers of one page in several tabs, and its draft | |
| `WriterLock` | several processes on one folder | |
| `Server` | connections, deadline, request guard, and the forms that create, move, delete, attach, reload | |
| `PageSource` | the metadata block and the body below it, read and written | |
| `PageTree` | graph building, walk, sidebar, over every small wiki | |
| `WikiFolders` | backup, restore, the mirror, and the app state beside a folder | |
| `NotebookImport` | the import command over a page folder | `StoreNaming` |
| `CtdReader` | the notebook reader, event by event | |
| `MC...` | the instance of each for TLC (`WikiSync` needs none) | |
| `LocalStoreProofs`, `EditorProofs`, `WriterLockProofs`, `WikiSyncProofs`, `WikiFoldersProofs`, `ServerProofs`, `ImportProofs` (of `NotebookImport` and `CtdReader`), `PageProofs` (of `PageTree` and `PageSource`) | theorems | the module, TLAPS |

The modules cut the system where the code does.  `WikiSync` calls a store
operation in two steps (page, sidebar) whose inside is `LocalStore`'s subject;
`Editor` takes save and delete as one step, because the server answers one
request before it reads the next, and `Server` shows that thread itself and
leaves page texts to `Editor`; `WriterLock` keeps of a move the files that
exist, and of the processes the order in which they open, lock and write;
`NotebookImport` takes `create_page` as one step and shares with `LocalStore`
the rule that names a file; `CtdReader` ends where `NotebookImport` begins.

In every module a definition headed `Mutant:` is a wrong variant of the one
below it.  No specification uses it; it is there to show that the
properties notice (put it in place of the definition and TLC finds them
violated).

### LocalStore

| Code | Model |
|---|---|
| a page file: name, id, parent, title, body, links | `disk[f]`, a record; the body is a version number (`text`), a link the page its author meant and the name it spells |
| `LocalFolderStore::graph` | `loaded` |
| a fingerprint that no longer matches | `f \in stale`; in a journal entry, `~e.same` |
| `MovePlan`, journal | `plan`, `journal` |
| `_Sidebar.md` | `sidebar`, the tree it was generated from |

`BeginMove` is `plan_move` and the first half of `apply_move`: every refusal,
the assignment of names in id order, the freshness of every file the plan
touches, the write of the journal.  After it each written or removed file is a
step (`WriteMovedPage`, `RewriteInboundLinks`, `RemoveOldFile`), in the order
of the code; inside one group the order is left open.  `FinishMove` retires the journal and
reloads.  `Crash` may come anywhere.  Opening is `OpenClean`, or
`BeginRecovery`, which reads the direction off the new files once, then
`RollForward`/`RollBack` file by file (a crash between any two), then
`FinishRecovery`.  `ExternalEdit` is the owner's editor, while the process is
idle or down.  Ghost variables: `latest` (each page's last text) and `goal`
(the folder before and after the move).

Abstracted: sibling positions (they are in `Server`); the 200-byte limit of a
name is `MaxSegs`, the 64 hops of an ancestry walk `MaxHops`; symlinks and
unreadable files; a reload happens in one step; a write succeeds, and so does
a removal by recovery; a page listed twice below a moved page (`ListedOnce`) is
not moved; every page of the instances has its own id tail.  The owner does
not edit files that a roll-back would remove.

### WikiSync

A text is the set of edits in it, a commit its tree and its past.  Each step of
the process is one file write or one git command: `Check`/`Refuse` are
`ensure_committable`, with its checkpoint; `CreatePage`, `UpdatePage`,
`DeletePage`, `WriteSidebar` the store's call; `CommitSave` the commit;
`Fetch`, `FastForward`, `Push`, `PushRaced` ... `sync_retrying`;
`Conclude`, `CommitMerge` `finish_merge`.  `Crash` may come between any two.
A move is here a mutation like a save.  A person merges, settles, aborts,
commits, stashes, detaches; other clones push at any moment, also between a
fetch and a push.  What git itself does (three-way merge, stash) is modelled
from its use and from the scenarios of `berrywiki-git-compat`, and marked
external in `PROJECT.json`.

Another editor writes pages at any time, also between two steps of an
operation; `op.late` remembers which pages, for the properties that have to
except them.  The person types git commands only while no operation runs, and
does not detach HEAD in the middle of a merge; what happens otherwise is under
*disagreements*.  Left out: attachments, `ensure_ignore`, `--no-commit`, the
refusal to overwrite a hand-written sidebar, the conflict report's texts.

### Editor

One page, several tabs.  A text is the set of edits it contains; users add, so
an edit that disappears was overwritten.  One action per button of the form
and per outcome (`Save`, `RefuseSave`, `PostNotFound` ...).  A refusal
may come at any time, as the state of the clone decides it too.  The draft
buttons are answered with a redirect: the tab is `SentOn`, and `Follow` is the GET that
comes later, after any requests of other tabs.  An error answer (`editor_error`)
re-renders the form: `Preview` where nothing was written, `SavedInPart` where the
page was and a later step failed.  A draft file may fail to be removed, and, with
`ReadsFail`, to be read, in which case the code goes on as if there were none.
`told` remembers that a form said the page had changed, or that its text is a draft;
`owed` is what BerryWiki said it kept; `replaced` what a request took from the draft
whose form did not show it.  Left out: tags, and a reload of the folder that fails
after a write.

### WriterLock

`Start` is `LocalFolderStore::open`: recovery of a journal that is there, with
no lock held; `Load`; then `check` ends, while `sidebar --write` and `serve` try
the lock (`Acquire`, `BeRefused`) and write the record.  `Kill` drops the system's lock and leaves
the record: it is also how `serve` ends, as Ctrl-C runs no
destructor.  `crossed` records that a command was started during a move, or a
move during a recovery.  Left out: an unavailable app state (no lock and no
journal at all), and what the pages contain.

### Server

| Code | Model |
|---|---|
| the accept loop, one connection at a time | `queue`, `serving`; `Accept` |
| the request line and Host (piece 1), the other headers (2), the body (3) | `sent`: pieces that have arrived; `got`: pieces read |
| `DeadlineReader`, the read timeout | `left`, `waited`; `Tick` is a second, `Drip` a byte that completes nothing |
| a form in a browser, with its hidden fields | `screen[c]`: page, where it was, what was offered |
| the store's fingerprints | `touched` |

`Refuse` is the guard (method, host, origin, lengths), `Dispatched(kind)` what
reaches a handler, `PostNew`, `PostMove`, `PostDelete`, `PostAttach`,
`PostReload`, `Get` the handlers, each with every refusal in the order of the
code and its effect on the tree.  A client may break off at any piece, and an answer
may never reach its screen.  `EditByHand` is the owner's editor.  To bound the
orders, only the clients and kinds in `Slow` send in pieces, the rest arrive
whole, and a connection waits only behind a slow one (`Ask`).

### PageSource

A file is a sequence of lines; a line has the shape the parser looks for, and
its value is a sequence of pieces (ordinary text, a control character, the
closing marker ...), as those are what normalising changes.  `ParseSource` and
`SerializeSource` are functions over line numbers (`Places` numbers a set of lines in
their order), `MovePage` and `WriteBody` change the page as it was loaded and write it;
`EditByHand` adds or removes any line.  `byHand` and `text` are the
model's own: the lines and the body a person wrote last.

`Piece` and `Key` are the pieces of text and the keys there are.  `SourceAssumption`
says that files, lines and bodies are made of them, and that the tags and parents the
program is given are read back as they are written (`Clean`: trimmed, nothing to
sanitise).  Of tags the store sees to that (`validate_tag`, on create and on edit); a parent is
the id of a page, and ids are normalised as they are read.  It also says that no parent is `null`,
which the store does not see to (see the list below).

### PageTree

`pages` is any assignment of ids, parents, positions and archived flags to the
files, ids distinct.  The two recursions (`walk_from`, `render`) run as one machine with
an explicit stack, so that "never below itself" is visible in a state and
termination follows from it.  Titles are left out of the sort key (they tie).
A sorted list is given by rank: the k-th page is the one with k - 1 before it.

### WikiFolders

Two places, each with a clone (history, working tree, remote, marker) and with
the app state that outlives it; one backup directory; the remote.  A command is
a program counter (`lock`, `status`, `bundle`, `drafts`, `journal`, `manifest`;
`origin` ...) and may stop at each.  `owed` remembers what the last backup set
out to save.  People edit, commit, type drafts, publish, and lose folders
between the steps.  Whether a command can resolve the app state is decided as it
starts (`proc.resolved`): without it a backup takes no lock and sees no drafts (`Seen`), and a
restore warns, skips drafts and journal (`SkipState`) and reports success all the same.
`RestoreBringsAll` therefore promises drafts only of a restore that could resolve it.

### NotebookImport

An import is open, lock, plan, then one step per page and per attachment, then
commit and report; `Stop` may come at any.  `IdOf` (a hash of the notebook
and the node's id) is injective.  A page is filed under its node's title, below the titles its
ancestors have in the graph; its own title is the first H1 of its text, which is the
node's title unless the text opens with a heading (`PageFor`).  People edit pages
and retitle them at any time; they move and delete pages, remove an
import's marker, commit, `git checkout`, and save the notebook with other
contents, which gives it another hash.  Moving, deleting and unmarking wait while the lock is held: `serve`
cannot run then, and another program that did it between an import's writes would
make its report untrue.  `fresh` says that the wiki did not
change between loading and locking; the properties that need it say so.  An import
that cannot resolve its app state takes no lock in the code; here every import does.

### CtdReader

The input is the sequence of events the XML reader reports; a fault or the end
of the file may come at any.  `Walk` is the first pass, one action per tag;
`SpliceWidget`, `SpliceRest` one turn of `splice`'s loop; `RenderText`,
`RenderWidget`, `RenderCode` one of `render_node`'s.  A character has a width in
bytes, so that counting the wrong unit shows.

`ReaderAssumption` is what is relied on in a file: texts are sequences of characters, and
each rich text, box, image, table, row and cell is closed, with nothing in it but text, or the rows
and cells of a table (`WellFormed`).  That is how CherryTree writes them, and
what the one capture buffer of `walk` can hold; nodes and unknown elements may start and end
anywhere.  A file that breaks off inside an element is still there, since
the walk may stop at any event.  What the file says (`Holder`, `RunsAt`,
`WidgetsAt`) is read off the events without a stack or a buffer, and that is what
`TreeAsWritten` compares the walk with.

## The runs

| Run | What it asks | Bounds | Distinct states |
|---|---|---|---|
| `store` | no text lost, links and sidebar follow, nothing stale overwritten, recovery whole and finite | 3 or 4 pages, two operations, one outside edit, two crashes | 186,894 |
| `sync` | no work lost, what each commit holds, histories refine `WikiHistory`, operations end | 2 pages, 3 operations, 3 edits, 1 crash, 1 git command of a person, 3 attempts | 1,039,408 |
| `editor` | no silent overwrite, refused text kept, no answer takes typed text off the screen | 2 tabs, 3 edits, 1 deletion | 1,840,138 |
| `lock` | one writer, whole moves, the right holder named | 3 processes, 4 starts, 2 pages | 494,534 |
| `server` | every connection ends, a move starts where its form said, a tree stays a tree | 2 clients, 2 requests beside forms opened earlier, 1 edit by hand, 2 pages and a new one, deadline 2 and read timeout 1 | 481,087 |
| `pages` | saved = read back, no unknown field dropped | blocks of up to 2 lines of 16 kinds, 2 moves or saves, 1 line by hand (of 7 kinds) | 275,186 |
| `tree` | each page once, in order; sidebar = visible part | all wikis of 3 files (48,000) | 417,024 |
| `folders` | a manifest is a whole backup, a reported restore is one, commands take nothing | 2 places, 1 draft page, 2 edits, 4 commands, 2 losses | 5,526,343 |
| `import` | nothing overwritten, nothing twice, reports are true | 2 importers, 3 runs, 4 notebooks, 2 acts of people | 2,597,324 |
| `reader` | the tree is the file's, content in place or reported, but for the silent losses | 1,822 notebooks, each broken off at any event | 512,237 |
| `lock_overlap`, `import_plan` | expected to fail: see disagreements | | |

Why the bounds are enough to be interesting:

- `store`: a move of a section with a page below it renames two files and
  rewrites a link; two operations let a creation take a name that a later move
  needs (so the id suffix is used), and a move follow another; two crashes put
  the second inside the recovery from the first; the edit may come before,
  between or after.
- `sync`: one page exists and one can be created or pushed by another clone,
  enough for modify/modify and modify/delete conflicts and sidebar conflicts;
  three edits are needed for a local edit, a remote one and a third that
  races; three attempts are the code's own number.
- `editor`: two tabs are the smallest race, also between a redirect and its form; three
  edits let each tab type and a third party intervene.
- `lock`: three processes so that one can recover while a second recovers and a
  third waits; a fourth start so that one comes back after a kill.
- `server`: a form that is open at the start needs no request of its own, so two
  requests are two confirmed moves, or a move after a deletion or a reload;
  with one page to move below another and one edit by hand every order that
  makes a cycle is there.  Deadline and read timeout differ, so a client that
  drips is caught by the first and not the second; one connection waits behind it.
- `pages`: every pair of lines where one can belong to the other, well formed
  or not, then a third added between or around them, then two saves: what is
  lost only at the second is lost here.
- `tree`: cycles of one, two and three pages, a page hanging below a cycle,
  missing parents, equal positions, archived pages, and depths either
  side of `MaximumDepth` all occur among three files.
- `folders`: a backup, a loss, a restore that fails half way, a backup of what it left, a
  second loss and a restore of that are four commands and two losses: a failure
  that is carried on through a backup is among the behaviours.
- `import`: two runs may overlap and a third follow a killed one; the four
  contents are a tree with an attachment, its edit, in which a text opens with a heading
  of its own and a page is filed below that heading, a repeated id, and two roots of one title.
  The first two, imported into one wiki, want the same filenames.  Two acts of
  people are an edit and a commit, or two moves, or a moved page checked out again.
- `reader`: every tree of up to four nodes, and up to five starts and ends of nodes in any order
  (an end too many, a start too many); texts of two runs with narrow and
  wide characters and a line break; one or two widgets of every kind at every
  offset, in and beyond the text; a widget and a lost link in a code node; links forwards, backwards and to nowhere;
  every pair of extension and first bytes.

Symmetry is used in `lock`, `editor`, `folders` and `import` only, which
check invariants and action properties.  `CHECK_DEADLOCK FALSE` is said where the bounds
(edits, operations, starts) can be used up and the system then rests - an idle
server has nothing to do - or where the input is read to its end (`reader`,
`pages`).  `PageTree` is a terminating machine whose last state
loops on itself, so there deadlock is checked.

The properties, by the promise they state (the text of each is in its module):

- *No page and no text is lost*: `TextKept` (store), `NoWorkLost` (sync),
  `NoPageLostApart` (several processes), `CommandsKeepWork` (whole folders),
  `NothingOverwritten` (import), `UnknownLinesStay` (metadata).
- *All or nothing*: `RecoveredAllOrNothing`, `AllOrNothing`, `BackupWhole`.
  The first excepts a moved page that keeps its filename (see below).
- *Nothing stale is written*: `NoStaleOverwrite`, `NoClobber`,
  `NoSilentClobber`, `MoveFromWhatWasSeen`.  They are different layers: the
  store's fingerprint, the fingerprint across a checkpoint commit, the form's
  base, the move form's hidden fields.
- *Links, tree and sidebar agree*: `LinksFollow`, `SidebarFollowsTree` (without a
  crash), `SidebarInSameCommit`, `WalkIsPreOrder`, `SidebarIsVisiblePart`,
  `FormsKeepTheForest`.
- *Commits mean what they say*: `OneCommitPerSave`, `MergeNotAbsorbed`,
  `NoMarkersCommitted`, `DivergedIsTrue`, `KeepsHistory`.
- *Reports are true*: `RestoreBringsAll`, `ReportMeansImported`, `NoSecondPage`,
  `TreeAsWritten`, `ContentInPlace`, `ReadAsSaved`, `HolderNamed`.
- *Typed text survives*: `RefusedTextStays`, `ErrorKeepsText`.
- *It ends*: `EveryRunEnds`, `OperationsEnd`, `EveryConnectionEnds`; *one
  writer*: `OneWriter`.

`KeepsHistory` is a refinement: under the mapping local = past of the branch,
seen = past of the upstream reference, remote = past of the remote's branch,
every step of `WikiSync` is one of `WikiHistory` or leaves the three alone.  It
says that no save, sync, merge, crash or terminal command (of those modelled)
ever drops a commit, and that a push never takes away what others published.

## Fairness

`LocalStore!FairSpec` and `WikiSync!FairSpec` assume weak fairness of the steps
of an operation that has begun: the server is one thread that runs each
request to its end, and no step waits for another process.  Nothing is assumed
of users, owners, other clones, crashes or restarts; accordingly `EveryRunEnds`
and `OperationsEnd` say that an operation ends *or the process dies*.  A
process that died is not promised to be started again.  `OperationsEnd` would fail
for a sync that retried without a limit while others keep pushing;
`EveryRunEnds` would fail for a recovery that waited for files it must not
remove.

`Server!Spec` assumes weak fairness of the thread (`Serve`) and of the clock
(`Tick`), and nothing of clients: a client may stop, or drip bytes for ever.
Without the deadline a dripping client would hold the thread as long as
the limits on lines, heads and bodies allow.  What the code bounds is reading:
each single write has a timeout, but an answer taken slowly in small parts is bounded
by nothing else, and the model answers in one step.

## The proofs

Every theorem holds for all values of the constants that satisfy the named
assumptions: any set of pages or processes or tabs, any bound.

**`LocalStoreProofs`** proves `Inductive` (`Spec => []IInv`) and from it
`TypeCorrect`, `TextKeptAlways`, `NoPageLostAlways`, `StaleNeverOverwritten`
and, with `Between`, `RecoveriesAreWhole` (`RecoveredAllOrNothing`);
`SidebarKeepsUp` (`SidebarFollowsTree`) from `SidebarDue`: until a crash the
sidebar is the folder's, or the operation that ends has loaded the folder it is
about to be made from.
`TextKept` alone is not inductive: it does not say which copy of a page the rest of
a move or of a recovery may destroy.  `IInv` adds

- `FingerprintsTrue`: a loaded file not marked stale is the file on disk;
- `PlanSafe`: what a plan still has to write agrees in id and text with what
  it replaces, every missing new file is still in the plan, and only
  journalled old names are deleted;
- `CopiesAlike`: an unchanged old file beside its new one is a copy of it;
- `JournalPhase`: a journal exists only in a move and until its recovery ends,
  and the direction chosen is the right one throughout the recovery;
- `TextSafe`: while a new file is missing, each page's last text is in a file
  that rolling back keeps.

The argument: until all new files are there, the old ones are intact, and rolling back removes
only new names that are no old names; once they are, a removed old file is a copy
of its new one.  There is one lemma per action; the largest, `BeginMoveStep`,
uses facts about the name assignment (`AssignedNames`, `OldFilesFresh`): no new
name is another page's current one (`Begun` collects what a move has decided
once its journal is written).

`RecoveredAllOrNothing` compares the folder with two ghosts, so `GInv` adds to `IInv`
what lies between them: `Between` says that the folder of an open journal differs
from the one before the move only at new names and from the one after it only at
old names, that the two sets do not meet, and that the old folder is complete while
a new file is missing.  A recovery that ends has emptied one of the two sets.  The
ghosts hold names, ids and parents, so healing a link changes nothing there.
Assumptions: `NamingAssumption` and `StoreAssumption` (the wiki starts as a folder of well-formed pages).

`LinksFollowAlways` (`LinksFollow`) says something of folders without a journal only;
`LInv` says what a link is while one is open.  `RenamesPaired`: the journal's renames are
one to one and no name is old in one and new in another, so that an old name and its
new one can be taken for one name (`Origin`).  `FilesOfLivePages`: the page a file is for
has not been deleted.  `LinksTrack`: every link names, up to renames under way, a
file of the page its author meant; a file that still spells an old name during a move is
still to be rewritten or removed, and what the plan will write spells none.  A move
that ends has written its plan; a recovery heals each file with the renames of its
direction (`HealedTracks`).  The theorem's one hypothesis, `LinksResolve`, is that links are right in the folders the
wiki starts from; `MCLocalStore` asserts it of the instance TLC runs.

**`WikiSyncProofs`** proves, from `FilesAssumption` and `BoundsAssumption`
alone, `Inductive` and from it every safety property of the `sync` run:
`WorkIsKept`, `ConflictsStayOut`, `MergesAreTheirOwn`, `SavesAreOneCommit`,
`SidebarsAreCommitted`, `SavesClobberNothing`, `DivergencesAreReal`, and
`HistoryIsKept`, the refinement of `WikiHistory`.  `IInv` is the type invariant,
`NoWorkLost`, `MergeNotAbsorbed` and

- `Operation`: an operation keeps the page and base it was begun with until it
  has written them (so that a write adds to what is there);
- `Undisturbed`: what `ensure_committable` found - on the branch, no merge, no
  unmerged file - holds until the commit;
- `Pasts`: a commit's past holds itself, and what was seen of the remote was
  there;
- `OpenMerge`: the merge in progress is of what was fetched, and the working
  tree holds edits of its two sides only (so that giving it up loses none);
- `Marks`: a conflict is only where the index says so, and in no commit;
- `Differences`: what differs from the last commit is the operation's own page,
  the sidebar, or a page written since the check (`op.late`).

`Undisturbed` keeps a conflict and a foreign merge out of a commit, `Differences`
says what is in one, `Pasts` carries the refinement.  `NoWorkLost` is kept because
every step that drops an edit from the working tree has it in a history.  The
refinement goes step by step: `GitStep` says of a step that it is one of
`WikiHistory` or a stutter, and the lemma of each action proves it.

**`WriterLockProofs`** proves `TypeCorrect`, `OneWriterAlways`,
`RecoveriesAgree` (`NoPageLostApart`) and `RecoveredWhole` (`AllOrNothing`).  Invariant: while no recovery has met
a move, every forward recovery knows that all new files are there and that what old files
are left are still on its list, every backward one the converse, so that all running
recoveries go in one direction; one side is always whole.  `HoldersAreNamed` (`HolderNamed`)
rests on `RecordOfHolder`: past the record's writing, the record names nobody but the holder.

**`WikiFoldersProofs`** proves, from `FoldersAssumption` alone, `Inductive` and from it all
three properties of the `folders` run: `BackupsAreWhole`, `RestoresBringAll`,
`WorkIsLeft`.  `IInv` is the type invariant, `BackupWhole` and

- `BackupSteps`: each step of a backup has what the earlier ones saved, and what it has
  still to save is unchanged in the folder (the tree was clean, the lock keeps the drafts);
- `RestoreSteps`: a backup being restored has a manifest, and each step of the restore has
  brought back what came before it;
- `MirrorSteps`: the folder an update is about to reset carries the marker;
- `Texts`: a working tree holds its history, and no draft is newer than the last text typed.

`BackupWhole` speaks of finished backups only; `BackupSteps` is what the manifest, written
last, seals.  `RestoresBringAll` is its mirror image, read off `RestoreSteps` at the report.

**`EditorProofs`** proves `TypeCorrect`, `SavesKeepEdits` (`NoSilentClobber`,
from: a form told nothing contains its base), `RefusedTextKept`,
`ErrorsKeepText` (`ErrorKeepsText`), and `OneTabLosesNothing`: with one tab and drafts
that can be read even the unconditional promise `ClosedTabLosesNothing` holds, so the
sharing of the page's one draft is what breaks it.  `ErrorsKeepText` rests on
`RefusedTextKept`: what the form after a redirect lacks is not in the draft any more, and
a kept text that left the draft was saved, discarded or replaced.

**`ServerProofs`** proves `LoadedIsKnown` and from it `MovesAreInformed`
(`MoveFromWhatWasSeen`), with no assumption at all.  The invariant, `OnlyTouchedDiffer`, says that
what the store loaded is on disk except for files changed by hand since: the hidden fields of the
form are compared with what was loaded, the stale check covers the rest.

From `ServerAssumption` (finitely many pages among it) it proves `ForestKept`
(`FormsKeepTheForest`).  A line of ancestors `Ends` when some number of steps up passes the
top; `ForestByLines` reads a forest as: every line ends and every parent is managed.
`LinesStillEnd` is the core: if a tree changes only in the parent of one page p, and the line
from p ends in the new tree, then every line that ended ends.  `OffTheLine` and `LineKept` supply
the premise for a move: the new parent's line does not meet p (`check_cycle`), so it is what it was.
The induction is over the length of a line, by the least length that fails.

**`ImportProofs`**, about `NotebookImport`, proves `NothingIsOverwritten` and `NothingTwice` (`NothingOverwritten`,
`NoSecondPage`) with no assumption on notebooks, from `Inductive`: one import at a time is past the
lock (`OneImport`), and one that saw the folder it locked has every page of the folder in its graph,
since people only edit texts and titles while the lock is held (`GraphCovers`).
From `NamingAssumption` and `ImportAssumption` it also proves `ReportsAreTrue`
(`ReportMeansImported`).  Its invariant, `ReportInv`, adds that every page with a marker has the id of that
node and is the page made for it, or one people have touched (`Original`), and what the running import has done (`Progress`): a node it
has not left to create has its marker in the folder.  That starts to hold when no page is occupied,
because the page a graph answers with for an id is the first file of that id; that there is a first
one is `FirstFile`, from the order of names being strict and total.

**`PageProofs`**, about `PageTree`, proves `WalkKept` (`WalkIsPreOrder`) and `SidebarKept`
(`SidebarIsVisiblePart`) from `PageTreeAssumption`: for any number of files, with any distinct
ids, any parents (themselves, each other, missing ones), positions and flags.
`WalkInv` speaks of `Seen`, what is listed followed by what is still to visit:

- `Once`: no page is in it twice;
- `Reached`: the pages a visit was reached through are listed, before it;
- `Placed`, `Full`: it holds roots and children of what is listed, and all of them;
- `Siblings`, `Follows`: siblings are in order, and each visit goes one level down from the
  one before it, or goes up.

That a page is new when its parent is listed (`ChildrenAreNew`) is what makes the walk visit nothing
twice; then it is no longer than the number of files (`WalkFits`).  That it leaves nobody out
(`WalkIsWhole`): a page not listed is no root, so its parent is not listed either, and so for
ever; then its ancestry never ends, which makes it a loop and so a root.
The sidebar is the second descent, compared with the finished walk.  `SideInv`: what it has listed and
what it has still to visit is in the walk's order; everything not hidden is listed, to be visited,
or under something to be visited; nothing hidden is listed; and of what is to be
visited nothing is under another.  Pruning a page keeps that because all that is under it is
hidden too; rendering one keeps the order because a subtree is without a gap in the walk
(`SubtreesTogether`, from `Follows`).

About `PageSource` it proves, from `SourceAssumption`, `UnknownLinesAlwaysStay` (`UnknownLinesStay`)
and `AlwaysReadAsSaved` (`ReadAsSaved`): blocks of any length, any number of tags, any
lines in any order.  The invariant, `SourceInv`, is small: files are lines, a file a person left with a
block still has one, and `UnknownLinesStay`.  All the work is in what parsing gives and
what it makes of a written page:

- what is read can be written: `BlockReads` says that whatever the block holds, the fields
  read from it are `Fields` (every value `Clean`, since `Normalised` is idempotent) and the
  extra lines are `Extra` (defused, the first of them an unknown field, the others unknown
  or indented).  It goes by lines, `ReadUpto`: after k lines the open list is the unknown
  field exactly when line k is an unknown line, and the extra lines read are the unknown
  lines up to k, in order (`Places` of a set that grows at its end);
- what is written is read back: `StepsReadBack` follows the parser through the five fields, the
  tags one by one, the flag and the extra lines one by one; `OpenTill` says that
  no line of it closes the block early, so that `PageReadBack` finds its body whole
  below one blank line;
- `ParsedWritable` and `PageReadBack` together give every step: a move or a save changes a page that was
  read, what it writes is read as that page (`SaveWrites`), so its unknown lines are
  the ones there were.

The blank separator is why a body that begins with blank lines keeps them.  The
assumption on `Parents` is used where `parent: null` is read (`ParentText`), that on
`TagLists` where an item is.

About `CtdReader` `ImportProofs` proves, from `ReaderAssumption`, `TreeIsAsWritten` (`TreeAsWritten`): for
files of any length, any nesting of nodes, and wherever the reading stops.  `TreeAsWritten` says
nothing of the stack, the counters or the buffers; the invariant, `ReaderInv`, says of
each what it is of the events passed (`Walked`):

- `Balance`, `Opened`: from an open node on, the starts exceed the ends by the number of nodes still
  open from there on; and the stack is the ranks of the open nodes, outermost first.  An end without a start leaves both alone; an end closes the
  last node opened (`EndCloses`), every other event leaves the same open (`OthersKeepOpen`);
- `Counted`: the counter at each level is the number of children so far of the open node
  above it, and a level below the open nodes counts from zero.  The mutant `CountersKept`
  breaks just this;
- `Shape`, `Contents`: the nodes built are those that have started, in order, each with its parent, its
  place, its runs and its widgets;
- `Capture`: inside an element that captures, the buffer is the text since its start, so that at its
  end it is all its text (`CapturedAll`);
- `Tables`: inside a table, the rows are those that have ended since its start, each with its
  cells, and inside a row so are the cells.

The sums in the file's reading are over sets of positions (`Listed`), and grow by one element at their
end with each event (`ListedGrows`); that elements of one kind end in the order they start
(`EndedInOrder`) is where `WellFormed` is needed.  `FlattenSeq` is defined by a
recursive function, so that its value over a longer sequence is proved from the
least length that fails (`FlattenOneMore`).

Checked by TLC only: `ContentInPlace` of `CtdReader` and all liveness (fairness and ENABLED are beyond
the prover).  An induction over numbers is done by the least
number that fails, as in `AncestorSteps` or `ReadUpto`.  `ContentInPlace` is about the reader's second pass,
which sorts widgets with `SetToSortSeq` and folds characters into blocks (`FoldLeft`); the library
has no theorem about either, so the pass would first have to be restated, as the first was.
No module with a theorem uses a RECURSIVE operator.

## Where the code disagrees with its documents

Two runs are expected to fail, and TLC's trace is the schedule.

1. `lock_overlap` (`NoPageLost`): `check`, started while `serve` moves pages,
   takes the live journal for a crash's (`local.rs:114`) and removes the
   new files; `serve` then removes the old ones.
2. `import_plan` (`PlanIsOfThisWiki`): `import` loads the pages before it takes
   the lock (`import.rs:162`, `:174`) and does not reload, against the comment
   at `:170`: "so the wiki cannot change under us between deciding what to do
   and doing it".

Seen while modelling; none of these has a run.  A specification either keeps
them out by a condition on the environment or excepts them in a property.

Store and its recovery:

- After a crash in a move the owner edits a new file; rolling back removes it
  unread (`local.rs:184`), against INV-5's "a file edited by hand after the
  crash is never overwritten".
- A page whose filename does not change gets its new parent in place and has no
  journal entry (`local.rs:682`); a crash leaves parent and filenames in
  disagreement.
- A failing write ends `apply_move` and leaves the journal in a live process
  (`local.rs:734`), and a failure to clear the journal of a finished move is
  ignored (`local.rs:744`); pages changed later under journalled names are then
  taken, at the next start, for the move's.
- A crash among the removals, then the owner deletes one new file: rolling
  back removes the other new files, whose old ones are gone (`local.rs:158`).
- Recovery does not regenerate the sidebar (`local.rs:114`); the next
  operation does.
- `reload` reads a file and takes its fingerprint afterwards (`local.rs:819`):
  an edit between the two goes unnoticed.
- With a duplicated id, the loop test follows the last file's parent and the
  tree all of them (`graph.rs:126`): `walk` can recurse without end.  The
  instances of `PageTree` have distinct ids.

Sync and commands:

- An outside edit between `ensure_committable` and `commit_all` goes into the
  save's commit (`sync/lib.rs:285`), against the comment at :494:
  `OneCommitPerSave` and `SidebarInSameCommit` except it.
- An outside edit during a fetch makes the fast-forward fail, and
  `Diverged` is reported where the histories have not (`sync/lib.rs:387`,
  against :161): `DivergedIsTrue` excepts it.
- `finish_merge` does not ask whether HEAD is on a branch (`conflict.rs:225`).
- `import` commits with `git add -A` in any state of the clone
  (`import.rs:317`): pending edits and conflict markers go with it.
- `sidebar --write` writes the tree it loaded before it had the lock
  (`cli/lib.rs:283`).
- A refused process may be told of the previous holder, while the new one
  has the lock and has not written its record: `HolderNamed` excepts exactly
  that.
- `restore` copies drafts over the drafts an earlier folder of that path left
  (`cli/lib.rs:772`), against ADR-0013's "nothing overwrites content the user already has"
  (line 133): `DraftsKept` in `WikiFolders` states it, no run claims it.
- A restore that cannot resolve the app state leaves out drafts and journal with a warning
  and exits with 0 (`cli/lib.rs:784`); a backup then has neither, and takes no lock (`:582`).
- A restore that fails before it sets the origin leaves the bundle file as the remote
  (`cli/lib.rs:744`); a backup of that folder records it (`:649`), and a restore of that
  backup sets it again and reports success, against the comment at `:744`, which means
  to avoid "a remote that vanishes with the backup".  `RestoreBringsAll` excepts it.
- A mirror stopped between the clone and its marker is refused for ever.

Import and reader:

- Two nodes with one id get one page id, so the import fails at the second
  (and a rerun counts it as imported), against the diagnostic's "the later one
  keeps its own page" (`ctd.rs:156`).
- `git checkout -- .`, which the message after a failed import offers
  (`import.rs:281`), leaves the new files; a rerun after a crash past the commit says
  that none was made; attachments of a page whose import was killed are never added.
- Title collisions are looked for among siblings, exactly.
- Widgets and links of code nodes (`ctd.rs:646`) and tables without rows (`ctd.rs:838`)
  vanish with no diagnostic, against ADR-0014:33, "Every row below is either carried or
  dropped with a named diagnostic": `ContentInPlace` excepts just these (`Silent`); a widget inside a linked run shows the link's title twice; a
  notebook cut at an element boundary is imported in part with no word; two
  embedded files of one name collide.

Editor, server, metadata:

- The draft kept for a refused, closed tab is replaced by another tab's
  (`editor.rs:417`); `Editor` states it as `ClosedTabLosesNothing`.
- A resumed draft is shown with the base of the page as it is now
  (`editor.rs:113`); its save replaces later edits.  The form does say that it
  is a draft, which is what `NoSilentClobber` excepts.
- Any button of a form whose page was deleted meanwhile is answered with the not-found
  page and no form (`editor.rs:265`), and what was typed is off the screen, against
  the module's own words (`editor.rs:11`): `ErrorKeepsText` names it as an exception.
- Between "draft saved" and the form that follows, another tab's save or deletion discards the page's
  draft (`editor.rs:347`), or its draft replaces it: the form comes back without the text
  that was said to be saved.  `ErrorKeepsText` excepts it.
- A draft that cannot be read counts as none (`editor.rs:97`): the form shows the page.
- A save whose commit fails after the page was written is answered as an error, which
  a comment calls "nothing written" (`editor.rs:440`).
- A head that ends at a line boundary is taken as complete
  (`serve/lib.rs:1635`), so a POST that needs no form, a delete, is carried out.
- A move below a page that was moved by hand since the load can make a cycle on
  disk, and deleting a page that was given a child by hand orphans it:
  the stale check covers the files a request writes.
- `null` is accepted as the id of a page (`validate_page_id`, `paths.rs:110`), but a page
  moved below it is written with `parent: null` (`metadata.rs:410`) and read back as
  a root: `SourceAssumption` keeps that parent out.
- List items below an unknown key that are not indented are dropped at the next save, with a warning
  (`metadata.rs:239`, `:327`), against the comment at `:322`, which means to keep "any
  block-list items or indented continuation lines"; so is a line that is no field.
- `tags: word` on one line is dropped, a repeated key counts last, and a page
  without a block whose new body opens with one becomes managed.

## What is not modelled, and why

- Views and search, Markdown rendering, diagnostics, accessibility: pure
  functions of texts, whose correctness is wording and escaping.
- Link resolution and backlinks (`graph.rs`): one pass without state; what a
  move does to links is in `LocalStore`.
- Tags, sync buttons and history pages of the editor; `--no-commit`;
  `ensure_ignore`; the token's askpass helper and URL resolution of the mirror.
- In the reader: lexing, entities, emphasis, fences, the hash and the text of
  the report.  In the page source: line endings, headings.
- `safe_write` compares a fingerprint and renames a moment later: an outside
  write between the two is lost.  No lock can exclude another program and the
  code claims none; the models take both as one step.
- The network: a fetch or push may fail at any time, and that is all.
- The git-compat harness is test-only; its scenarios are what `WikiSync`'s
  external actions follow.

## Plan

Done: the store with its crashes, the sync layer and its abstract history, the
editor, the lock, the page tree; the server and its forms, backup, restore and
mirror, import, reader and page source; proofs for all of them but the reader's second pass.

Next, prove: `ContentInPlace`, by an invariant that splits the expected items of a node at the
place `splice` and `render_node` have come to.

Next, model:

1. A write that fails in a live process, and a journal that outlives its move,
   with what can still be promised after it.
2. Reading a file and taking its fingerprint as two steps; outside files that
   appear.
3. Link resolution by file name and title, against pages that take a name.
4. Several embedded files of one name; attachments as operations of sync.
