----------------------------- MODULE WriterLock ------------------------------
(***************************************************************************)
(* Several BerryWiki processes on one wiki folder: how each opens the      *)
(* folder (recovering a move that a crash interrupted), takes the          *)
(* single-writer lock of crates/berrywiki-appstate/src/lock.rs, and        *)
(* writes.  Opening comes first: LocalFolderStore::open recovers and       *)
(* reloads before cmd_serve and cmd_sidebar ask for the lock, and          *)
(* cmd_check never asks.                                                   *)
(*                                                                         *)
(* The folder holds one subtree, whose only move takes every page from its *)
(* old file to its new file; the files' contents are LocalStore's subject. *)
(***************************************************************************)
EXTENDS Naturals, FiniteSets

CONSTANTS
    Process,
    Page,         \* the pages of the subtree, each with an old and a new file
    NoOne,
    MaxStarts     \* bound: processes started

ASSUME WriterLockAssumption ==
    /\ NoOne \notin Process
    /\ Page # {}
    /\ MaxStarts \in Nat

VARIABLES
    old, new,     \* the pages whose old file, whose new file, exists
    journal,      \* the operation journal exists
    lock,         \* the process whose lock the system holds on <state>/lock
    record,       \* the process the content of that file names
    proc,         \* what each process is doing
    named,        \* the process a refused one was told of
    crossed,      \* a command was started during a move, or a move during
                  \* a recovery (the model's own)
    starts        \* the bound used up

vars == <<old, new, journal, lock, record, proc, named, crossed, starts>>

Tree == [old : SUBSET Page, new : SUBSET Page]
Command == {"check", "sidebar", "serve"}
Phase == {"ended", "forward", "back", "reload", "loaded", "locked", "writing",
          "moving", "removing"}
Idle == [at |-> "ended", command |-> "check", todo |-> {},
         tree |-> [old |-> {}, new |-> {}]]

TypeOK ==
    /\ old \subseteq Page /\ new \subseteq Page
    /\ journal \in BOOLEAN
    /\ lock \in Process \cup {NoOne}
    /\ record \in Process \cup {NoOne}
    /\ proc \in [Process -> [at : Phase, command : Command,
                             todo : SUBSET Page, tree : Tree]]
    /\ \A p \in Process :
          proc[p].at \in {"ended", "reload", "loaded", "locked", "writing"}
             => proc[p].todo = {}
    /\ named \in [Process -> Process \cup {NoOne}]
    /\ crossed \in BOOLEAN
    /\ starts \in 0 .. MaxStarts

Init ==
    /\ old = Page /\ new = {}
    /\ journal = FALSE
    /\ lock = NoOne /\ record = NoOne
    /\ proc = [p \in Process |-> Idle]
    /\ named = [p \in Process |-> NoOne]
    /\ crossed = FALSE
    /\ starts = 0

At(p, phases) == proc[p].at \in phases
Recovering(p) == At(p, {"forward", "back"})
Moving(p) == At(p, {"moving", "removing"})
Holds(p) == At(p, {"locked", "writing", "moving", "removing"})
Folder == [old |-> old, new |-> new]

-----------------------------------------------------------------------------
(* LocalFolderStore::open: no lock is held *)

\* Mutant: rolls forward when some new file is there.
DirectionBySome == IF new # {} THEN "forward" ELSE "back"

\* All new files there: roll forward.
Direction == IF new = Page THEN "forward" ELSE "back"

Start(p, c) ==
    /\ At(p, {"ended"})
    /\ starts < MaxStarts
    /\ starts' = starts + 1
    /\ crossed' = (crossed \/ \E q \in Process : Moving(q))
    /\ proc' = [proc EXCEPT ![p] =
                   [at |-> IF journal THEN Direction ELSE "reload",
                    command |-> c,
                    todo |-> IF journal THEN Page ELSE {},
                    tree |-> Idle.tree]]
    /\ named' = [named EXCEPT ![p] = NoOne]
    /\ UNCHANGED <<old, new, journal, lock, record>>

\* One journal entry: remove the file of the abandoned side, if it exists.
RecoverPage(p, x) ==
    /\ x \in proc[p].todo
    /\ \/ At(p, {"forward"}) /\ old' = old \ {x} /\ new' = new
       \/ At(p, {"back"}) /\ new' = new \ {x} /\ old' = old
    /\ proc' = [proc EXCEPT ![p].todo = @ \ {x}]
    /\ UNCHANGED <<journal, lock, record, named, crossed, starts>>

\* Mutant: the journal goes before the files.
ClearJournalEarly(p) ==
    /\ Recovering(p)
    /\ journal
    /\ journal' = FALSE
    /\ UNCHANGED <<old, new, lock, record, proc, named, crossed, starts>>

ClearJournal(p) ==
    /\ Recovering(p) /\ proc[p].todo = {}
    /\ journal' = FALSE
    /\ proc' = [proc EXCEPT ![p].at = "reload"]
    /\ UNCHANGED <<old, new, lock, record, named, crossed, starts>>

Load(p) ==
    /\ At(p, {"reload"})
    /\ proc' = [proc EXCEPT ![p].at = "loaded", ![p].tree = Folder]
    /\ UNCHANGED <<old, new, journal, lock, record, named, crossed, starts>>

-----------------------------------------------------------------------------
(* RepoLock *)

\* Mutant: believes the record, as the pid file of an earlier design did.
AcquireByRecord(p) ==
    /\ At(p, {"loaded"}) /\ proc[p].command # "check"
    /\ record = NoOne
    /\ lock' = p
    /\ proc' = [proc EXCEPT ![p].at = "locked"]
    /\ UNCHANGED <<old, new, journal, record, named, crossed, starts>>

Acquire(p) ==
    /\ At(p, {"loaded"}) /\ proc[p].command # "check"
    /\ lock = NoOne
    /\ lock' = p
    /\ proc' = [proc EXCEPT ![p].at = "locked"]
    /\ UNCHANGED <<old, new, journal, record, named, crossed, starts>>

\* try_lock never waits: the refused process says whom the record names.
BeRefused(p) ==
    /\ At(p, {"loaded"}) /\ proc[p].command # "check"
    /\ lock # NoOne
    /\ named' = [named EXCEPT ![p] = record]
    /\ proc' = [proc EXCEPT ![p] = Idle]
    /\ UNCHANGED <<old, new, journal, lock, record, crossed, starts>>

\* Mutant: a record that is there is left.
WriteFirstRecord(p) ==
    /\ At(p, {"locked"})
    /\ record' = IF record = NoOne THEN p ELSE record
    /\ proc' = [proc EXCEPT ![p].at = "writing"]
    /\ UNCHANGED <<old, new, journal, lock, named, crossed, starts>>

\* write_record, once the lock is held.
WriteRecord(p) ==
    /\ At(p, {"locked"})
    /\ record' = p
    /\ proc' = [proc EXCEPT ![p].at = "writing"]
    /\ UNCHANGED <<old, new, journal, lock, named, crossed, starts>>

-----------------------------------------------------------------------------
(* What the commands do then *)

CheckEnds(p) ==
    /\ At(p, {"loaded"}) /\ proc[p].command = "check"
    /\ proc' = [proc EXCEPT ![p] = Idle]
    /\ UNCHANGED <<old, new, journal, lock, record, named, crossed, starts>>

\* sidebar --write, which changes no page; then the lock is dropped, which
\* blanks the record.
SidebarWrites(p) ==
    /\ At(p, {"writing"}) /\ proc[p].command = "sidebar"
    /\ lock' = NoOne /\ record' = NoOne
    /\ proc' = [proc EXCEPT ![p] = Idle]
    /\ UNCHANGED <<old, new, journal, named, crossed, starts>>

\* serve: apply_move, when the pages are where they were loaded.
BeginMove(p) ==
    /\ At(p, {"writing"}) /\ proc[p].command = "serve"
    /\ proc[p].tree = [old |-> Page, new |-> {}]
    /\ old = Page
    /\ crossed' = (crossed \/ \E q \in Process : Recovering(q))
    /\ journal' = TRUE
    /\ proc' = [proc EXCEPT ![p].at = "moving", ![p].todo = Page]
    /\ UNCHANGED <<old, new, lock, record, named, starts>>

WritePage(p, x) ==
    /\ At(p, {"moving"}) /\ x \in proc[p].todo
    /\ new' = new \cup {x}
    /\ proc' = [proc EXCEPT ![p].todo = @ \ {x}]
    /\ UNCHANGED <<old, journal, lock, record, named, crossed, starts>>

AllWritten(p) ==
    /\ At(p, {"moving"}) /\ proc[p].todo = {}
    /\ proc' = [proc EXCEPT ![p].at = "removing", ![p].todo = Page]
    /\ UNCHANGED <<old, new, journal, lock, record, named, crossed, starts>>

RemovePage(p, x) ==
    /\ At(p, {"removing"}) /\ x \in proc[p].todo
    /\ x \in old
    /\ old' = old \ {x}
    /\ proc' = [proc EXCEPT ![p].todo = @ \ {x}]
    /\ UNCHANGED <<new, journal, lock, record, named, crossed, starts>>

\* Mutant: the rest of the removals is left to do.
RemoveFailsMidway(p, x) ==
    /\ At(p, {"removing"}) /\ x \in proc[p].todo
    /\ x \notin old
    /\ proc' = [proc EXCEPT ![p].at = "writing"]
    /\ UNCHANGED <<old, new, journal, lock, record, named, crossed, starts>>

\* remove_file fails: the error ends the move, the journal stays.
RemoveFails(p, x) ==
    /\ At(p, {"removing"}) /\ x \in proc[p].todo
    /\ x \notin old
    /\ proc' = [proc EXCEPT ![p].at = "writing", ![p].todo = {}]
    /\ UNCHANGED <<old, new, journal, lock, record, named, crossed, starts>>

FinishMove(p) ==
    /\ At(p, {"removing"}) /\ proc[p].todo = {}
    /\ proc' = [proc EXCEPT ![p].at = "writing", ![p].tree = Folder]
    /\ journal' = FALSE
    /\ UNCHANGED <<old, new, lock, record, named, crossed, starts>>

\* A process is killed.  It is also how every serve ends: Ctrl-C runs no
\* destructor.  The system drops the lock; the record stays.
Kill(p) ==
    /\ ~At(p, {"ended"})
    /\ proc' = [proc EXCEPT ![p] = Idle]
    /\ lock' = IF lock = p THEN NoOne ELSE lock
    /\ UNCHANGED <<old, new, journal, record, named, crossed, starts>>

Next ==
    \E p \in Process :
       \/ \E c \in Command : Start(p, c)
       \/ \E x \in Page : RecoverPage(p, x)
       \/ ClearJournal(p) \/ Load(p)
       \/ Acquire(p) \/ BeRefused(p) \/ WriteRecord(p)
       \/ CheckEnds(p) \/ SidebarWrites(p)
       \/ BeginMove(p) \/ AllWritten(p) \/ FinishMove(p)
       \/ \E x \in Page : WritePage(p, x) \/ RemovePage(p, x) \/ RemoveFails(p, x)
       \/ Kill(p)

Spec == Init /\ [][Next]_vars

-----------------------------------------------------------------------------
(* Properties *)

\* One wiki clone has at most one process that writes it after having taken
\* the lock, and the system's lock is that process's (lock.rs, ADR-0008).
OneWriter == \A p \in Process : Holds(p) => lock = p

\* Every page has a file, whatever dies and whoever recovers (INV-4; ADR-0008
\* says of the recovery that no page's content can be lost).
NoPageLost == old \cup new = Page

\* The same as long as no move and no recovery have met.
NoPageLostApart == ~crossed => NoPageLost

\* With no journal left every page is where it was or every page is where the
\* move took it, also when several processes recovered at once (INV-5).
AllOrNothing ==
    ~crossed /\ ~journal => \/ old = Page /\ new = {}
                            \/ old = {} /\ new = Page

\* A refused process is told of the process that holds the lock; of one that
\* is gone only while the holder has yet to write its record (lock.rs).
HolderNamed ==
    [][\A p \in Process :
          BeRefused(p) => \/ named'[p] \in {NoOne, lock}
                          \/ At(lock, {"locked"})]_vars
=============================================================================
