---------------------------- MODULE WikiFolders ----------------------------
(***************************************************************************)
(* The commands that fill a whole folder: backup and restore               *)
(* (berrywiki-cli) and the read-only mirror (berrywiki-github), with the   *)
(* app state that is kept beside each folder under a key made of its path. *)
(* A text is the set of edits in it; a history is what its tip contains.   *)
(* One command runs at a time, step by step, and may stop at any of them;  *)
(* meanwhile people edit, commit, type drafts and lose folders.            *)
(***************************************************************************)
EXTENDS Naturals, FiniteSets

CONSTANTS
    Path,        \* places for a wiki folder
    Nowhere,
    Page,        \* pages that may have a draft
    MaxEdits,    \* bound: texts written
    MaxCommands, \* bound: commands started
    MaxLosses    \* bound: folders or backups that somebody removes

ASSUME FoldersAssumption ==
    /\ Nowhere \notin Path
    /\ MaxEdits \in Nat /\ MaxCommands \in Nat /\ MaxLosses \in Nat

VARIABLES
    wiki,      \* path -> the clone there: history, working tree, remote
    state,     \* path -> the app state of that path: drafts and the journal
    backup,    \* the backup directory
    published, \* what the remote's branch contains
    proc,      \* the command that runs: what, where, and its next step
    owed,      \* what the last backup set out to save (the model's own)
    edits, commands, losses
vars == <<wiki, state, backup, published, proc, owed, edits, commands, losses>>
bounds == <<edits, commands, losses>>

Edit == 1..MaxEdits
Drafts == [Page -> 0..MaxEdits]        \* 0: no draft, else the text typed last
NoDrafts == [g \in Page |-> 0]
Origin == {"none", "remote", "other", "bundle"}

Clone == [there : BOOLEAN, past : SUBSET Edit, work : SUBSET Edit,
          origin : Origin, marker : BOOLEAN]
Vacant == [there |-> FALSE, past |-> {}, work |-> {}, origin |-> "none", marker |-> FALSE]
NewClone(past, origin) ==
    [there |-> TRUE, past |-> past, work |-> past, origin |-> origin, marker |-> FALSE]

NoManifest == [there |-> FALSE, head |-> {}, origin |-> "none"]
EmptyDirectory ==
    [bundled |-> FALSE, bundle |-> {}, drafts |-> NoDrafts, journal |-> FALSE,
     manifest |-> NoManifest]

Idle == [cmd |-> "none", at |-> Nowhere, pc |-> "idle", resolved |-> FALSE,
         seen |-> {}, done |-> {}]
Step == {"idle", "lock", "status", "bundle", "drafts", "journal", "manifest",
         "origin", "report", "fetch", "reset", "mark", "open"}

TypeOK ==
    /\ wiki \in [Path -> Clone]
    /\ state \in [Path -> [drafts : Drafts, journal : BOOLEAN]]
    /\ backup \in [bundled : BOOLEAN, bundle : SUBSET Edit, drafts : Drafts,
                   journal : BOOLEAN,
                   manifest : [there : BOOLEAN, head : SUBSET Edit, origin : Origin]]
    /\ published \in SUBSET Edit
    /\ proc \in [cmd : {"none", "backup", "restore", "mirror"}, at : Path \cup {Nowhere},
                 pc : Step, resolved : BOOLEAN, seen : SUBSET Edit, done : SUBSET Page]
    /\ proc.cmd = "none" <=> proc = Idle
    /\ proc # Idle => proc.at \in Path /\ proc.pc # "idle"
    /\ owed \in [work : SUBSET Edit, drafts : Drafts]
    /\ edits \in 0..MaxEdits /\ commands \in 0..MaxCommands /\ losses \in 0..MaxLosses

\* One folder is a clone that nobody has edited yet; the other is vacant.
Init ==
    /\ \E here \in Path, o \in {"none", "remote"} :
          wiki = [p \in Path |-> IF p = here THEN NewClone({}, o) ELSE Vacant]
    /\ state = [p \in Path |-> [drafts |-> NoDrafts, journal |-> FALSE]]
    /\ backup = EmptyDirectory /\ published = {} /\ proc = Idle
    /\ owed = [work |-> {}, drafts |-> NoDrafts]
    /\ edits = 0 /\ commands = 0 /\ losses = 0

-----------------------------------------------------------------------------
(* What every command does *)

\* Whether AppState::for_wiki finds a place for app state depends on the
\* environment of the process.
Begin(cmd, p, pc, resolved) ==
    /\ proc = Idle /\ commands < MaxCommands
    /\ proc' = [cmd |-> cmd, at |-> p, pc |-> pc, resolved |-> resolved,
                seen |-> {}, done |-> {}]
    /\ commands' = commands + 1

At(cmd, pc) == proc.cmd = cmd /\ proc.pc = pc
Goto(pc) == proc' = [proc EXCEPT !.pc = pc]

\* LocalFolderStore::open recovers an interrupted move and retires its journal,
\* if it can find one.
OpenStore(p, resolved) ==
    state' = IF resolved THEN [state EXCEPT ![p].journal = FALSE] ELSE state

\* Any step may fail or be killed; whatever is already written stays.
Stop ==
    /\ proc # Idle /\ proc' = Idle
    /\ UNCHANGED <<wiki, state, backup, published, owed, bounds>>

-----------------------------------------------------------------------------
(* cmd_backup *)

\* The directory must be vacant.  The store is opened before the lock is taken.
BeginBackup(p) ==
    /\ wiki[p].there /\ backup = EmptyDirectory
    /\ \E resolved \in BOOLEAN :
          Begin("backup", p, "lock", resolved) /\ OpenStore(p, resolved)
    /\ UNCHANGED <<wiki, backup, published, owed, edits, losses>>

\* The drafts that backup sees: none where its app state could not be resolved.
Seen == IF proc.resolved THEN state[proc.at].drafts ELSE NoDrafts

\* Without app state there is no lock to take: a warning, and backup goes on.
TakeLock ==
    /\ At("backup", "lock") /\ Goto("status")
    /\ UNCHANGED <<wiki, state, backup, published, owed, bounds>>

\* Mutant: no look at the working tree.
AnyStatus ==
    /\ At("backup", "status")
    /\ Goto("bundle")
    /\ owed' = [work |-> wiki[proc.at].work, drafts |-> Seen]
    /\ UNCHANGED <<wiki, state, backup, published, bounds>>

\* A bundle carries committed history only, so a dirty tree is refused (Stop).
CleanStatus ==
    /\ At("backup", "status")
    /\ wiki[proc.at].work = wiki[proc.at].past
    /\ Goto("bundle")
    /\ owed' = [work |-> wiki[proc.at].work, drafts |-> Seen]
    /\ UNCHANGED <<wiki, state, backup, published, bounds>>

Bundle ==
    /\ At("backup", "bundle") /\ Goto("drafts")
    /\ backup' = [backup EXCEPT !.bundled = TRUE, !.bundle = wiki[proc.at].past]
    /\ UNCHANGED <<wiki, state, published, owed, bounds>>

\* copy_tree, file by file.
Uncopied(drafts) == {g \in Page \ proc.done : drafts[g] # 0}
Copied(g) == proc' = [proc EXCEPT !.done = @ \cup {g}]

SaveDraft(g) ==
    /\ At("backup", "drafts")
    /\ g \in Uncopied(Seen) /\ Copied(g)
    /\ backup' = [backup EXCEPT !.drafts[g] = Seen[g]]
    /\ UNCHANGED <<wiki, state, published, owed, bounds>>

DraftsSaved ==
    /\ At("backup", "drafts") /\ Uncopied(Seen) = {}
    /\ Goto("journal")
    /\ UNCHANGED <<wiki, state, backup, published, owed, bounds>>

SaveJournal ==
    /\ At("backup", "journal") /\ Goto("manifest")
    /\ backup' = [backup EXCEPT !.journal = proc.resolved /\ state[proc.at].journal]
    /\ UNCHANGED <<wiki, state, published, owed, bounds>>

\* The manifest comes last, with the head and the origin of this moment.
WriteManifest ==
    /\ At("backup", "manifest") /\ proc' = Idle
    /\ backup' = [backup EXCEPT !.manifest =
                    [there |-> TRUE, head |-> wiki[proc.at].past, origin |-> wiki[proc.at].origin]]
    /\ UNCHANGED <<wiki, state, published, owed, bounds>>

-----------------------------------------------------------------------------
(* cmd_restore *)

\* Mutant: a bundle is enough.
BeginRestoreOfBundle(p) ==
    /\ ~wiki[p].there /\ backup.bundled
    /\ \E resolved \in BOOLEAN : Begin("restore", p, "origin", resolved)
    /\ wiki' = [wiki EXCEPT ![p] = NewClone(backup.bundle, "bundle")]
    /\ UNCHANGED <<state, backup, published, owed, edits, losses>>

\* A manifest, a vacant folder and a bundle; then git clones the bundle, which
\* leaves an origin that names the bundle file.
BeginRestore(p) ==
    /\ backup.manifest.there /\ ~wiki[p].there /\ backup.bundled
    /\ \E resolved \in BOOLEAN : Begin("restore", p, "origin", resolved)
    /\ wiki' = [wiki EXCEPT ![p] = NewClone(backup.bundle, "bundle")]
    /\ UNCHANGED <<state, backup, published, owed, edits, losses>>

SetOrigin ==
    /\ At("restore", "origin") /\ Goto("drafts")
    /\ wiki' = [wiki EXCEPT ![proc.at].origin = backup.manifest.origin]
    /\ UNCHANGED <<state, backup, published, owed, bounds>>

\* Written to the app state of the new folder, over a draft that is there.
RestoreDraft(g) ==
    /\ At("restore", "drafts") /\ proc.resolved
    /\ g \in Uncopied(backup.drafts) /\ Copied(g)
    /\ state' = [state EXCEPT ![proc.at].drafts[g] = backup.drafts[g]]
    /\ UNCHANGED <<wiki, backup, published, owed, bounds>>

DraftsRestored ==
    /\ At("restore", "drafts") /\ proc.resolved /\ Uncopied(backup.drafts) = {}
    /\ Goto("journal")
    /\ UNCHANGED <<wiki, state, backup, published, owed, bounds>>

\* No app state for the folder: a warning, and the report without drafts and journal.
SkipState ==
    /\ At("restore", "drafts") /\ ~proc.resolved
    /\ Goto("report")
    /\ UNCHANGED <<wiki, state, backup, published, owed, bounds>>

RestoreJournal ==
    /\ At("restore", "journal") /\ Goto("report")
    /\ state' = [state EXCEPT ![proc.at].journal = @ \/ backup.journal]
    /\ UNCHANGED <<wiki, backup, published, owed, bounds>>

\* Success, with a warning when the head is not the one in the manifest.
Report ==
    /\ At("restore", "report") /\ proc' = Idle
    /\ UNCHANGED <<wiki, state, backup, published, owed, bounds>>

-----------------------------------------------------------------------------
(* GitHubWiki::open and pull *)

\* Mutant: any clone that is there will do.
AnyClone(p) == wiki[p].there

\* The marker of an earlier clone by this crate, and an origin that agrees.
OwnedMirror(p) == wiki[p].there /\ wiki[p].marker /\ wiki[p].origin = "remote"

BeginUpdate(p) ==
    /\ OwnedMirror(p)
    /\ \E resolved \in BOOLEAN : Begin("mirror", p, "fetch", resolved)
    /\ UNCHANGED <<wiki, state, backup, published, owed, edits, losses>>

MirrorFetch ==
    /\ At("mirror", "fetch")
    /\ proc' = [proc EXCEPT !.seen = published, !.pc = "reset"]
    /\ UNCHANGED <<wiki, state, backup, published, owed, bounds>>

\* git reset --hard to what was fetched.
Reset ==
    /\ At("mirror", "reset") /\ Goto("open")
    /\ wiki' = [wiki EXCEPT ![proc.at].past = proc.seen, ![proc.at].work = proc.seen]
    /\ UNCHANGED <<state, backup, published, owed, bounds>>

BeginMirror(p) ==
    /\ ~wiki[p].there
    /\ \E resolved \in BOOLEAN : Begin("mirror", p, "mark", resolved)
    /\ wiki' = [wiki EXCEPT ![p] = NewClone(published, "remote")]
    /\ UNCHANGED <<state, backup, published, owed, edits, losses>>

Mark ==
    /\ At("mirror", "mark") /\ Goto("open")
    /\ wiki' = [wiki EXCEPT ![proc.at].marker = TRUE]
    /\ UNCHANGED <<state, backup, published, owed, bounds>>

OpenMirror ==
    /\ At("mirror", "open") /\ proc' = Idle
    /\ OpenStore(proc.at, proc.resolved)
    /\ UNCHANGED <<wiki, backup, published, owed, bounds>>

-----------------------------------------------------------------------------
(* People, with and without BerryWiki *)

NewText == edits < MaxEdits /\ edits' = edits + 1

\* The lock of the folder, which a backup holds and serve needs.  Without app
\* state neither has one: then serve is an editor that asks for no lock.
Locked(p) == proc.cmd = "backup" /\ proc.at = p /\ proc.pc # "lock" /\ proc.resolved
Serving(p) == wiki[p].there /\ ~Locked(p)

TypeDraft(p, g) ==
    /\ Serving(p) /\ NewText
    /\ state' = [state EXCEPT ![p].drafts[g] = edits + 1]
    /\ UNCHANGED <<wiki, backup, published, proc, owed, commands, losses>>

Save(p) ==
    /\ Serving(p) /\ NewText
    /\ LET text == wiki[p].work \cup {edits + 1}
       IN wiki' = [wiki EXCEPT ![p].work = text, ![p].past = text]
    /\ UNCHANGED <<state, backup, published, proc, owed, commands, losses>>

\* The process is killed in a move (what that does to the files is LocalStore's).
InterruptMove(p) ==
    /\ Serving(p) /\ ~state[p].journal
    /\ state' = [state EXCEPT ![p].journal = TRUE]
    /\ UNCHANGED <<wiki, backup, published, proc, owed, bounds>>

\* serve --no-commit, or another editor; the latter asks for no lock.
EditFile(p) ==
    /\ wiki[p].there /\ NewText
    /\ wiki' = [wiki EXCEPT ![p].work = @ \cup {edits + 1}]
    /\ UNCHANGED <<state, backup, published, proc, owed, commands, losses>>

CommitFile(p) ==
    /\ wiki[p].there /\ wiki[p].work # wiki[p].past
    /\ wiki' = [wiki EXCEPT ![p].past = wiki[p].work]
    /\ UNCHANGED <<state, backup, published, proc, owed, bounds>>

\* Somebody else's push; somebody repoints a clone at a fork of their own.
Publish ==
    /\ NewText /\ published' = published \cup {edits + 1}
    /\ UNCHANGED <<wiki, state, backup, proc, owed, commands, losses>>

Adopt(p) ==
    /\ wiki[p].there /\ wiki[p].origin = "remote"
    /\ wiki' = [wiki EXCEPT ![p].origin = "other"]
    /\ UNCHANGED <<state, backup, published, proc, owed, bounds>>

\* A folder is removed; the app state of its path stays.
LoseFolder(p) ==
    /\ proc = Idle /\ losses < MaxLosses /\ wiki[p].there
    /\ wiki' = [wiki EXCEPT ![p] = Vacant]
    /\ losses' = losses + 1
    /\ UNCHANGED <<state, backup, published, proc, owed, edits, commands>>

DiscardBackup ==
    /\ proc = Idle /\ losses < MaxLosses /\ backup # EmptyDirectory
    /\ backup' = EmptyDirectory
    /\ losses' = losses + 1
    /\ UNCHANGED <<wiki, state, published, proc, owed, edits, commands>>

-----------------------------------------------------------------------------
(* The specification *)

BackUp ==
    \/ TakeLock \/ CleanStatus \/ Bundle \/ DraftsSaved \/ SaveJournal \/ WriteManifest
    \/ \E g \in Page : SaveDraft(g)
Restore ==
    \/ SetOrigin \/ DraftsRestored \/ SkipState \/ RestoreJournal \/ Report
    \/ \E g \in Page : RestoreDraft(g)
Mirror == MirrorFetch \/ Reset \/ Mark \/ OpenMirror

People ==
    \/ Publish \/ DiscardBackup
    \/ \E p \in Path :
          \/ Save(p) \/ EditFile(p) \/ CommitFile(p) \/ InterruptMove(p) \/ Adopt(p)
          \/ LoseFolder(p)
          \/ \E g \in Page : TypeDraft(p, g)

Next ==
    \/ \E p \in Path : BeginBackup(p) \/ BeginRestore(p) \/ BeginUpdate(p) \/ BeginMirror(p)
    \/ BackUp \/ Restore \/ Mirror \/ Stop \/ People

Spec == Init /\ [][Next]_vars

-----------------------------------------------------------------------------
(* Properties *)

\* A directory with a manifest is a whole backup: every text that was in the
\* folder when backup looked at it is in the bundle, and the drafts are those
\* of that moment (the refusal of a dirty tree, the lock, the manifest last);
\* no drafts where backup warned that it could not resolve the app state.
BackupWhole ==
    backup.manifest.there =>
        owed.work \subseteq backup.bundle /\ backup.drafts = owed.drafts

\* A restore that reports success has brought back everything the backup was
\* made for: the history, each draft (or a text typed since), and no remote
\* that vanishes with the backup; whatever failed or was lost in between.  The
\* drafts are not back where restore warned that it could not resolve the app
\* state; it reports success all the same.  A backup of a folder that a failed
\* restore left had a vanishing remote to record.
RestoreBringsAll ==
    At("restore", "report") =>
        LET p == proc.at
        IN  /\ owed.work \subseteq wiki[p].past
            /\ \A g \in Page : proc.resolved /\ owed.drafts[g] # 0
                                => state[p].drafts[g] >= owed.drafts[g]
            /\ backup.manifest.origin # "bundle" => wiki[p].origin # "bundle"

\* No command takes a text out of a folder, unless the folder carries the
\* marker of a mirror, which may be reset (clone_or_update's promise).
CommandsKeepWork ==
    [][\A p \in Path :
          wiki[p].there /\ ~wiki[p].marker /\ proc' # proc =>
             wiki[p].work \cup wiki[p].past \subseteq wiki'[p].work \cup wiki'[p].past]_vars

\* No command writes over a draft ("nothing overwrites content the user already
\* has", docs/decisions 0013).  It does not hold: the app state of a path
\* outlives its folder, and restore copies over the drafts in it.
DraftsKept ==
    [][\A p \in Path, g \in Page :
          state[p].drafts[g] # 0 /\ proc' # proc =>
             state'[p].drafts[g] >= state[p].drafts[g]]_vars

-----------------------------------------------------------------------------
(* The inductive invariant *)

\* A history is in its working tree, and drafts are texts there have been.
Texts ==
    /\ \A p \in Path : wiki[p].past \subseteq wiki[p].work
    /\ \A g \in Page : owed.drafts[g] <= edits /\ \A p \in Path : state[p].drafts[g] <= edits

\* What a backup has copied when it is about to do a step.
BackupSteps ==
    proc.cmd = "backup" =>
        /\ proc.pc \in {"lock", "status", "bundle", "drafts", "journal", "manifest"}
        /\ wiki[proc.at].there /\ ~backup.manifest.there
        /\ proc.pc \in {"lock", "status", "bundle"} => backup.drafts = NoDrafts /\ proc.done = {}
        /\ proc.pc \notin {"lock", "status"} => owed.drafts = Seen
        /\ proc.pc = "bundle" => owed.work \subseteq wiki[proc.at].past
        /\ proc.pc \in {"drafts", "journal", "manifest"} => owed.work \subseteq backup.bundle
        /\ proc.pc = "drafts" =>
              \A g \in Page : backup.drafts[g] = IF g \in proc.done THEN owed.drafts[g] ELSE 0
        /\ proc.pc \in {"journal", "manifest"} => backup.drafts = owed.drafts

\* What a restore has brought back.
RestoreSteps ==
    proc.cmd = "restore" =>
        /\ proc.pc \in {"origin", "drafts", "journal", "report"}
        /\ wiki[proc.at].there /\ backup.manifest.there
        /\ owed.work \subseteq wiki[proc.at].past
        /\ proc.pc # "origin" =>
              (backup.manifest.origin # "bundle" => wiki[proc.at].origin # "bundle")
        /\ proc.pc = "journal" => proc.resolved
        /\ \A g \in Page :
              g \in proc.done
              \/ (proc.resolved /\ proc.pc \in {"journal", "report"} /\ owed.drafts[g] # 0) =>
                  state[proc.at].drafts[g] >= owed.drafts[g]

\* The folder an update is going to reset carries the marker.
MirrorSteps ==
    proc.cmd = "mirror" =>
        /\ proc.pc \in {"fetch", "reset", "mark", "open"}
        /\ wiki[proc.at].there
        /\ proc.pc \in {"fetch", "reset"} => wiki[proc.at].marker

IInv == TypeOK /\ Texts /\ BackupWhole /\ BackupSteps /\ RestoreSteps /\ MirrorSteps
=============================================================================
