------------------------- MODULE WikiFoldersProofs --------------------------
(***************************************************************************)
(* Proofs about WikiFolders, for any number of folders, drafts, texts,     *)
(* commands and losses: a manifest means a whole backup, a reported        *)
(* restore brought it back, and no command takes work out of a folder.     *)
(***************************************************************************)
EXTENDS WikiFolders, TLAPS

USE FoldersAssumption

-----------------------------------------------------------------------------
(* One conjunct of the invariant after another, one step per action *)

\* One field of one folder's clone, or of its app state, is given another value.
LEMMA ClonesChange ==
    ASSUME wiki \in [Path -> Clone], NEW p \in Path, NEW texts \in SUBSET Edit,
           NEW origin \in Origin
    PROVE  /\ [wiki EXCEPT ![p].past = texts] \in [Path -> Clone]
           /\ [wiki EXCEPT ![p].work = texts] \in [Path -> Clone]
           /\ [wiki EXCEPT ![p].past = texts, ![p].work = texts] \in [Path -> Clone]
           /\ [wiki EXCEPT ![p].work = texts, ![p].past = texts] \in [Path -> Clone]
           /\ [wiki EXCEPT ![p].origin = origin] \in [Path -> Clone]
           /\ [wiki EXCEPT ![p].marker = TRUE] \in [Path -> Clone]
  <1>1. wiki[p] \in Clone
    OBVIOUS
  <1>2. /\ [wiki[p] EXCEPT !.past = texts] \in Clone
        /\ [wiki[p] EXCEPT !.work = texts] \in Clone
        /\ [wiki[p] EXCEPT !.past = texts, !.work = texts] \in Clone
        /\ [wiki[p] EXCEPT !.work = texts, !.past = texts] \in Clone
        /\ [wiki[p] EXCEPT !.origin = origin] \in Clone
        /\ [wiki[p] EXCEPT !.marker = TRUE] \in Clone
    BY <1>1 DEF Clone
  <1> QED
    BY <1>2

\* The app state of one path changes within its type.
LEMMA StatesChange ==
    ASSUME state \in [Path -> [drafts : Drafts, journal : BOOLEAN]], NEW p \in Path
    PROVE  /\ \A there \in BOOLEAN :
                 [state EXCEPT ![p].journal = there] \in
                     [Path -> [drafts : Drafts, journal : BOOLEAN]]
           /\ \A g \in Page, text \in 0 .. MaxEdits :
                 [state EXCEPT ![p].drafts[g] = text] \in
                     [Path -> [drafts : Drafts, journal : BOOLEAN]]
  <1>1. \A there \in BOOLEAN :
            [state[p] EXCEPT !.journal = there] \in [drafts : Drafts, journal : BOOLEAN]
    OBVIOUS
  <1>2. ASSUME NEW g \in Page, NEW text \in 0 .. MaxEdits
        PROVE  [state[p].drafts EXCEPT ![g] = text] \in Drafts
    BY DEF Drafts
  <1>3. ASSUME NEW g \in Page, NEW text \in 0 .. MaxEdits
        PROVE  [state[p] EXCEPT !.drafts = [@ EXCEPT ![g] = text]] \in
            [drafts : Drafts, journal : BOOLEAN]
    BY <1>2
  <1> QED
    BY <1>1, <1>3


\* Opening a store retires at most a journal.
LEMMA OpenTyped ==
    ASSUME TypeOK, NEW p \in Path, NEW resolved \in BOOLEAN, OpenStore(p, resolved)
    PROVE  state' \in [Path -> [drafts : Drafts, journal : BOOLEAN]]
  <1>1. CASE resolved
    BY <1>1, StatesChange DEF OpenStore, TypeOK
  <1>2. CASE ~resolved
    BY <1>2 DEF OpenStore, TypeOK
  <1> QED
    BY <1>1, <1>2

\* What a backup sees are drafts.
LEMMA SeenTyped ==
    ASSUME TypeOK, proc.at \in Path
    PROVE  Seen \in Drafts
  <1>1. NoDrafts \in Drafts
    BY DEF NoDrafts, Drafts
  <1>2. state[proc.at].drafts \in Drafts
    BY DEF TypeOK
  <1> QED
    BY <1>1, <1>2 DEF Seen

\* Every step keeps the types.
LEMMA TypesKept ==
    ASSUME TypeOK, [Next]_vars
    PROVE  TypeOK'
  <1>1. CASE UNCHANGED vars
    BY <1>1 DEF vars, bounds, TypeOK
  <1>2. ASSUME NEW p \in Path, BeginBackup(p) PROVE TypeOK'
    <2>1. state' \in [Path -> [drafts : Drafts, journal : BOOLEAN]]
      BY <1>2, OpenTyped DEF BeginBackup
    <2> QED
      BY <1>2, <2>1 DEF BeginBackup, Begin, bounds, TypeOK, Step
  <1>3. ASSUME NEW p \in Path, BeginRestore(p) PROVE TypeOK'
    BY <1>3 DEF BeginRestore, Begin, NewClone, bounds, TypeOK, Clone, Step, Origin
  <1>4. ASSUME NEW p \in Path, BeginUpdate(p) PROVE TypeOK'
    BY <1>4 DEF BeginUpdate, Begin, OwnedMirror, bounds, TypeOK, Step
  <1>5. ASSUME NEW p \in Path, BeginMirror(p) PROVE TypeOK'
    BY <1>5 DEF BeginMirror, Begin, NewClone, bounds, TypeOK, Clone, Step, Origin
  <1>6. CASE BackUp
    <2>1. CASE TakeLock
      BY <2>1 DEF TakeLock, At, Goto, bounds, TypeOK, Idle, Step
    <2>2. CASE CleanStatus
      <3>1. proc.at \in Path
        BY <2>2 DEF CleanStatus, At, TypeOK
      <3>2. owed' \in [work : SUBSET Edit, drafts : Drafts]
        BY <2>2, <3>1, SeenTyped DEF CleanStatus, TypeOK, Clone
      <3> QED
        BY <2>2, <3>2 DEF CleanStatus, At, Goto, bounds, TypeOK, Idle, Step
    <2>3. CASE Bundle
      BY <2>3 DEF Bundle, At, Goto, bounds, TypeOK, Clone, Idle, Step
    <2>4. CASE DraftsSaved
      BY <2>4 DEF DraftsSaved, At, Goto, Uncopied, bounds, TypeOK, Idle, Step
    <2>5. CASE SaveJournal
      BY <2>5 DEF SaveJournal, At, Goto, bounds, TypeOK, Idle, Step
    <2>6. CASE WriteManifest
      BY <2>6 DEF WriteManifest, At, bounds, TypeOK, Clone, Idle, Step
    <2>7. ASSUME NEW g \in Page, SaveDraft(g) PROVE TypeOK'
      <3>1. Seen \in Drafts
        BY <2>7, SeenTyped DEF SaveDraft, At, TypeOK
      <3>2. [backup.drafts EXCEPT ![g] = Seen[g]] \in Drafts
        BY <3>1 DEF TypeOK, Drafts
      <3>3. [backup EXCEPT !.drafts = [@ EXCEPT ![g] = Seen[g]]] \in
               [bundled : BOOLEAN, bundle : SUBSET Edit, drafts : Drafts, journal : BOOLEAN,
                manifest : [there : BOOLEAN, head : SUBSET Edit, origin : Origin]]
        BY <3>2 DEF TypeOK
      <3> QED
        BY <2>7, <3>3 DEF SaveDraft, At, Copied, Uncopied, bounds, TypeOK, Idle
    <2> QED
      BY <1>6, <2>1, <2>2, <2>3, <2>4, <2>5, <2>6, <2>7 DEF BackUp
  <1>7. CASE Restore
    <2>1. CASE SetOrigin
      <3>0. proc.at \in Path
        BY <2>1 DEF SetOrigin, At, TypeOK
      <3>1. wiki' \in [Path -> Clone]
        BY <2>1, <3>0, ClonesChange DEF SetOrigin, At, Goto, TypeOK
      <3> QED
        BY <2>1, <3>1 DEF SetOrigin, At, Goto, bounds, TypeOK, Idle, Step
    <2>2. CASE DraftsRestored \/ SkipState
      BY <2>2 DEF DraftsRestored, SkipState, At, Goto, Uncopied, bounds, TypeOK, Idle, Step
    <2>3. CASE RestoreJournal
      BY <2>3 DEF RestoreJournal, At, Goto, bounds, TypeOK, Idle, Step, Origin, Edit
    <2>4. CASE Report
      BY <2>4 DEF Report, At, bounds, TypeOK, Idle, Step
    <2>5. ASSUME NEW g \in Page, RestoreDraft(g) PROVE TypeOK'
      BY <2>5, ZenonT(20) DEF RestoreDraft, At, Uncopied, Copied, bounds, TypeOK, Drafts, Idle,
         Origin
    <2> QED
      BY <1>7, <2>1, <2>2, <2>3, <2>4, <2>5 DEF Restore
  <1>8. CASE Mirror
    <2>1. CASE MirrorFetch
      BY <2>1 DEF MirrorFetch, At, bounds, TypeOK, Idle, Step
    <2>2. CASE Reset
      <3>0. proc.at \in Path
        BY <2>2 DEF Reset, At, TypeOK
      <3>1. wiki' \in [Path -> Clone]
        BY <2>2, <3>0, ClonesChange DEF Reset, At, Goto, TypeOK
      <3> QED
        BY <2>2, <3>1 DEF Reset, At, Goto, bounds, TypeOK, Idle, Step
    <2>3. CASE Mark
      <3>0. proc.at \in Path
        BY <2>3 DEF Mark, At, TypeOK
      <3>1. wiki' \in [Path -> Clone]
        BY <2>3, <3>0, ClonesChange DEF Mark, At, Goto, TypeOK
      <3> QED
        BY <2>3, <3>1 DEF Mark, At, Goto, bounds, TypeOK, Idle, Step
    <2>4. CASE OpenMirror
      <3>1. state' \in [Path -> [drafts : Drafts, journal : BOOLEAN]]
        BY <2>4, OpenTyped DEF OpenMirror, At, TypeOK
      <3> QED
        BY <2>4, <3>1 DEF OpenMirror, At, bounds, TypeOK, Idle, Step
    <2> QED
      BY <1>8, <2>1, <2>2, <2>3, <2>4 DEF Mirror
  <1>9. CASE Stop
    BY <1>9 DEF Stop, bounds, TypeOK, Idle, Step
  <1>10. CASE People
    <2>1. CASE Publish
      BY <2>1 DEF Publish, NewText, bounds, TypeOK, Edit
    <2>2. CASE DiscardBackup
      BY <2>2 DEF DiscardBackup, EmptyDirectory, bounds, TypeOK, Drafts, NoDrafts,
         NoManifest, Origin
    <2>3. ASSUME NEW p \in Path, Save(p) PROVE TypeOK'
      <3>1. edits + 1 \in Edit /\ edits' \in 0 .. MaxEdits
        BY <2>3 DEF Save, NewText, TypeOK, Edit
      <3>2. wiki[p].work \cup {edits + 1} \in SUBSET Edit
        BY <3>1 DEF TypeOK, Clone
      <3>3. wiki' \in [Path -> Clone]
        BY <2>3, <3>2, ClonesChange DEF Save, TypeOK
      <3> QED
        BY <2>3, <3>1, <3>3 DEF Save, TypeOK
    <2>4. ASSUME NEW p \in Path, EditFile(p) PROVE TypeOK'
      <3>1. edits + 1 \in Edit /\ edits' \in 0 .. MaxEdits
        BY <2>4 DEF EditFile, NewText, TypeOK, Edit
      <3>2. wiki[p].work \cup {edits + 1} \in SUBSET Edit
        BY <3>1 DEF TypeOK, Clone
      <3>3. wiki' \in [Path -> Clone]
        BY <2>4, <3>2, ClonesChange DEF EditFile, TypeOK
      <3> QED
        BY <2>4, <3>1, <3>3 DEF EditFile, TypeOK
    <2>5. ASSUME NEW p \in Path, CommitFile(p) PROVE TypeOK'
      <3>1. wiki' \in [Path -> Clone]
        BY <2>5, ClonesChange DEF CommitFile, TypeOK, Clone
      <3> QED
        BY <2>5, <3>1 DEF CommitFile, bounds, TypeOK
    <2>6. ASSUME NEW p \in Path, InterruptMove(p) PROVE TypeOK'
      <3>1. state' \in [Path -> [drafts : Drafts, journal : BOOLEAN]]
        BY <2>6, StatesChange DEF InterruptMove, TypeOK
      <3> QED
        BY <2>6, <3>1 DEF InterruptMove, bounds, TypeOK
    <2>7. ASSUME NEW p \in Path, Adopt(p) PROVE TypeOK'
      <3>1. wiki' \in [Path -> Clone]
        BY <2>7, ClonesChange DEF Adopt, Origin, TypeOK
      <3> QED
        BY <2>7, <3>1 DEF Adopt, bounds, TypeOK
    <2>8. ASSUME NEW p \in Path, LoseFolder(p) PROVE TypeOK'
      BY <2>8 DEF LoseFolder, Vacant, bounds, TypeOK, Clone, Origin
    <2>9. ASSUME NEW p \in Path, NEW g \in Page, TypeDraft(p, g) PROVE TypeOK'
      <3>1. edits + 1 \in 0 .. MaxEdits /\ edits' \in 0 .. MaxEdits
        BY <2>9 DEF TypeDraft, NewText, TypeOK
      <3>2. state' \in [Path -> [drafts : Drafts, journal : BOOLEAN]]
        BY <2>9, <3>1, StatesChange DEF TypeDraft, TypeOK
      <3> QED
        BY <2>9, <3>1, <3>2 DEF TypeDraft, TypeOK
    <2> QED
      BY <1>10, <2>1, <2>2, <2>3, <2>4, <2>5, <2>6, <2>7, <2>8, <2>9 DEF
         People
  <1> QED
    BY <1>1, <1>2, <1>3, <1>4, <1>5, <1>6, <1>7, <1>8, <1>9, <1>10 DEF Next

\* Drafts that are restored are as old as the backup.
LEMMA TextsKept ==
    ASSUME TypeOK, Texts, BackupWhole, RestoreSteps, [Next]_vars
    PROVE  Texts'
  <1>1. CASE UNCHANGED vars
    BY <1>1 DEF vars, bounds, TypeOK, Texts
  <1>2. ASSUME NEW p \in Path, BeginBackup(p) PROVE Texts'
    BY <1>2 DEF BeginBackup, Begin, OpenStore, bounds, TypeOK, Texts
  <1>3. ASSUME NEW p \in Path, BeginRestore(p) PROVE Texts'
    BY <1>3 DEF BeginRestore, Begin, NewClone, bounds, TypeOK, Texts
  <1>4. ASSUME NEW p \in Path, BeginUpdate(p) PROVE Texts'
    BY <1>4 DEF BeginUpdate, Begin, OwnedMirror, bounds, TypeOK, Texts
  <1>5. ASSUME NEW p \in Path, BeginMirror(p) PROVE Texts'
    BY <1>5 DEF BeginMirror, Begin, NewClone, bounds, TypeOK, Texts
  <1>6. CASE BackUp
    <2>1. CASE CleanStatus
      <3>1. \A g \in Page : Seen[g] <= edits
        BY <2>1 DEF CleanStatus, At, Seen, NoDrafts, Texts, TypeOK
      <3> QED
        BY <2>1, <3>1 DEF CleanStatus, bounds, TypeOK, Texts
    <2>2. CASE UNCHANGED <<wiki, state, owed, edits>>
      BY <2>2 DEF Texts
    <2> QED
      BY <1>6, <2>1, <2>2 DEF BackUp, TakeLock, Bundle, DraftsSaved, SaveJournal, WriteManifest,
         SaveDraft, bounds
  <1>7. CASE Restore
    <2>1. CASE SetOrigin
      BY <2>1 DEF SetOrigin, At, Goto, bounds, TypeOK, Texts
    <2>2. CASE DraftsRestored \/ SkipState
      BY <2>2 DEF DraftsRestored, SkipState, At, Goto, Uncopied, bounds, TypeOK, Texts
    <2>3. CASE RestoreJournal
      BY <2>3 DEF RestoreJournal, At, Goto, bounds, TypeOK, Texts
    <2>4. CASE Report
      BY <2>4 DEF Report, At, bounds, TypeOK, Texts
    <2>5. ASSUME NEW g \in Page, RestoreDraft(g) PROVE Texts'
      <3>1. backup.drafts[g] <= edits
        BY <2>5 DEF RestoreDraft, At, RestoreSteps, BackupWhole, Texts
      <3>2. PICK p \in Path : p = proc.at
        BY <2>5 DEF RestoreDraft, At, TypeOK
      <3>3. /\ state[p].drafts \in Drafts
            /\ state' = [state EXCEPT ![p] =
                            [state[p] EXCEPT !.drafts = [@ EXCEPT ![g] = backup.drafts[g]]]]
        BY <2>5, <3>2 DEF RestoreDraft, TypeOK
      <3> QED
        BY <2>5, <3>1, <3>2, <3>3 DEF RestoreDraft, bounds, TypeOK, Texts
    <2> QED
      BY <1>7, <2>1, <2>2, <2>3, <2>4, <2>5 DEF Restore
  <1>8. CASE Mirror
    <2>1. CASE MirrorFetch
      BY <2>1 DEF MirrorFetch, At, bounds, TypeOK, Texts
    <2>2. CASE Reset
      BY <2>2 DEF Reset, At, Goto, bounds, TypeOK, Texts
    <2>3. CASE Mark
      BY <2>3 DEF Mark, At, Goto, bounds, TypeOK, Texts
    <2>4. CASE OpenMirror
      BY <2>4 DEF OpenMirror, At, OpenStore, bounds, TypeOK, Texts
    <2> QED
      BY <1>8, <2>1, <2>2, <2>3, <2>4 DEF Mirror
  <1>9. CASE Stop
    BY <1>9 DEF Stop, bounds, TypeOK, Texts
  <1>10. CASE People
    <2>1. CASE Publish
      BY <2>1 DEF Publish, NewText, bounds, TypeOK, Texts, Drafts
    <2>2. CASE DiscardBackup
      BY <2>2 DEF DiscardBackup, bounds, TypeOK, Texts
    <2>3. ASSUME NEW p \in Path, Save(p) PROVE Texts'
      BY <2>3 DEF Save, NewText, Serving, Locked, bounds, TypeOK, Texts, Drafts
    <2>4. ASSUME NEW p \in Path, EditFile(p) PROVE Texts'
      BY <2>4 DEF EditFile, NewText, bounds, TypeOK, Texts, Drafts
    <2>5. ASSUME NEW p \in Path, CommitFile(p) PROVE Texts'
      BY <2>5 DEF CommitFile, bounds, TypeOK, Texts
    <2>6. ASSUME NEW p \in Path, InterruptMove(p) PROVE Texts'
      BY <2>6 DEF InterruptMove, Serving, Locked, bounds, TypeOK, Texts
    <2>7. ASSUME NEW p \in Path, Adopt(p) PROVE Texts'
      BY <2>7 DEF Adopt, bounds, TypeOK, Texts
    <2>8. ASSUME NEW p \in Path, LoseFolder(p) PROVE Texts'
      BY <2>8 DEF LoseFolder, Vacant, bounds, TypeOK, Texts
    <2>9. ASSUME NEW p \in Path, NEW g \in Page, TypeDraft(p, g) PROVE Texts'
      BY <2>9 DEF TypeDraft, NewText, Serving, Locked, bounds, TypeOK, Texts, Drafts
    <2> QED
      BY <1>10, <2>1, <2>2, <2>3, <2>4, <2>5, <2>6, <2>7, <2>8, <2>9 DEF
         People
  <1> QED
    BY <1>1, <1>2, <1>3, <1>4, <1>5, <1>6, <1>7, <1>8, <1>9, <1>10 DEF Next

\* The lock keeps the drafts of the folder as they were when backup looked at it.
LEMMA BackupsKept ==
    ASSUME TypeOK, Texts, BackupWhole, BackupSteps, [Next]_vars
    PROVE  BackupWhole' /\ BackupSteps'
  <1>1. CASE UNCHANGED vars
    BY <1>1 DEF vars, bounds, TypeOK, Texts, BackupWhole, BackupSteps, Seen
  <1>2. ASSUME NEW p \in Path, BeginBackup(p) PROVE BackupWhole' /\ BackupSteps'
    BY <1>2 DEF BeginBackup, Begin, OpenStore, EmptyDirectory, bounds, TypeOK,
       Texts, BackupWhole, BackupSteps, Seen, NoManifest
  <1>3. ASSUME NEW p \in Path, BeginRestore(p) PROVE BackupWhole' /\ BackupSteps'
    BY <1>3 DEF BeginRestore, Begin, bounds, TypeOK, Texts, BackupWhole, BackupSteps, Seen
  <1>4. ASSUME NEW p \in Path, BeginUpdate(p) PROVE BackupWhole' /\ BackupSteps'
    BY <1>4 DEF BeginUpdate, Begin, OwnedMirror, bounds, TypeOK, Texts, BackupWhole,
       BackupSteps, Seen
  <1>5. ASSUME NEW p \in Path, BeginMirror(p) PROVE BackupWhole' /\ BackupSteps'
    BY <1>5 DEF BeginMirror, Begin, bounds, TypeOK, Texts, BackupWhole, BackupSteps, Seen
  <1>6. CASE BackUp
    <2>1. CASE TakeLock
      BY <2>1 DEF TakeLock, At, Goto, bounds, TypeOK, Texts, BackupWhole,
         BackupSteps, Seen
    <2>2. CASE CleanStatus
      BY <2>2 DEF CleanStatus, At, Goto, bounds, TypeOK, Texts, BackupWhole,
         BackupSteps, Seen
    <2>3. CASE Bundle
      BY <2>3 DEF Bundle, At, Goto, bounds, TypeOK, Texts, BackupWhole, BackupSteps, Seen,
         NoDrafts
    <2>4. CASE DraftsSaved
      <3>1. owed.drafts = Seen
        BY <2>4 DEF DraftsSaved, At, BackupSteps, Seen
      <3>2. ASSUME NEW g \in Page PROVE backup.drafts[g] = owed.drafts[g]
        <4>1. owed.drafts[g] = 0 \/ g \in proc.done
          BY <2>4, <3>1 DEF DraftsSaved, Uncopied
        <4> QED
          BY <2>4, <4>1 DEF DraftsSaved, At, BackupSteps, Seen
      <3>3. backup.drafts = owed.drafts
        BY <3>2 DEF TypeOK, Drafts
      <3> QED
        BY <2>4, <3>3 DEF DraftsSaved, At, Goto, bounds, BackupWhole, BackupSteps, Seen, TypeOK
    <2>5. CASE SaveJournal
      BY <2>5 DEF SaveJournal, At, Goto, bounds, TypeOK, Texts, BackupWhole,
         BackupSteps, Seen
    <2>6. CASE WriteManifest
      BY <2>6 DEF WriteManifest, At, bounds, TypeOK, Texts, BackupWhole,
         BackupSteps, Seen, Idle
    <2>7. ASSUME NEW g \in Page, SaveDraft(g) PROVE BackupWhole' /\ BackupSteps'
      BY <2>7 DEF SaveDraft, At, Uncopied, Copied, bounds, TypeOK, Texts,
         BackupWhole, BackupSteps, Seen, Drafts
    <2> QED
      BY <1>6, <2>1, <2>2, <2>3, <2>4, <2>5, <2>6, <2>7 DEF BackUp
  <1>7. CASE Restore
    BY <1>7 DEF Restore, SetOrigin, At, Goto, DraftsRestored, SkipState, Uncopied,
       RestoreJournal, Report, RestoreDraft, Copied, bounds, TypeOK, Texts,
       BackupWhole, BackupSteps, Seen, Idle
  <1>8. CASE Mirror
    <2>1. CASE MirrorFetch
      BY <2>1 DEF MirrorFetch, At, bounds, TypeOK, Texts, BackupWhole, BackupSteps, Seen
    <2>2. CASE Reset
      BY <2>2 DEF Reset, At, Goto, bounds, TypeOK, Texts, BackupWhole, BackupSteps, Seen
    <2>3. CASE Mark
      BY <2>3 DEF Mark, At, Goto, bounds, TypeOK, Texts, BackupWhole, BackupSteps, Seen
    <2>4. CASE OpenMirror
      BY <2>4 DEF OpenMirror, At, OpenStore, bounds, TypeOK, Texts, BackupWhole,
         BackupSteps, Seen, Idle
    <2> QED
      BY <1>8, <2>1, <2>2, <2>3, <2>4 DEF Mirror
  <1>9. CASE Stop
    BY <1>9 DEF Stop, bounds, TypeOK, Texts, BackupWhole, BackupSteps, Seen, Idle
  <1>10. CASE People
    <2>1. CASE Publish
      BY <2>1 DEF Publish, NewText, bounds, TypeOK, Texts, BackupWhole, BackupSteps, Seen
    <2>2. CASE DiscardBackup
      BY <2>2 DEF DiscardBackup, EmptyDirectory, bounds, TypeOK, Texts, BackupWhole,
         BackupSteps, Seen, NoManifest
    <2>3. ASSUME NEW p \in Path, Save(p) PROVE BackupWhole' /\ BackupSteps'
      BY <2>3 DEF Save, NewText, Serving, Locked, bounds, TypeOK, Texts,
         BackupWhole, BackupSteps, Seen
    <2>4. ASSUME NEW p \in Path, EditFile(p) PROVE BackupWhole' /\ BackupSteps'
      BY <2>4 DEF EditFile, NewText, bounds, TypeOK, Texts, BackupWhole, BackupSteps, Seen
    <2>5. ASSUME NEW p \in Path, CommitFile(p) PROVE BackupWhole' /\ BackupSteps'
      BY <2>5 DEF CommitFile, bounds, TypeOK, Texts, BackupWhole, BackupSteps, Seen
    <2>6. ASSUME NEW p \in Path, InterruptMove(p) PROVE BackupWhole' /\ BackupSteps'
      BY <2>6 DEF InterruptMove, Serving, Locked, bounds, TypeOK, Texts,
         BackupWhole, BackupSteps, Seen
    <2>7. ASSUME NEW p \in Path, Adopt(p) PROVE BackupWhole' /\ BackupSteps'
      BY <2>7 DEF Adopt, bounds, TypeOK, Texts, BackupWhole, BackupSteps, Seen
    <2>8. ASSUME NEW p \in Path, LoseFolder(p) PROVE BackupWhole' /\ BackupSteps'
      BY <2>8 DEF LoseFolder, bounds, TypeOK, Texts, BackupWhole, BackupSteps, Seen
    <2>9. ASSUME NEW p \in Path, NEW g \in Page, TypeDraft(p, g) PROVE BackupWhole' /\ BackupSteps'
      BY <2>9 DEF TypeDraft, NewText, Serving, Locked, bounds, TypeOK, Texts,
         BackupWhole, BackupSteps, Seen
    <2> QED
      BY <1>10, <2>1, <2>2, <2>3, <2>4, <2>5, <2>6, <2>7, <2>8, <2>9 DEF
         People
  <1> QED
    BY <1>1, <1>2, <1>3, <1>4, <1>5, <1>6, <1>7, <1>8, <1>9, <1>10 DEF Next

\* Nothing takes away what a restore has brought, and texts typed since are newer.
LEMMA RestoresKept ==
    ASSUME TypeOK, Texts, BackupWhole, RestoreSteps, [Next]_vars
    PROVE  RestoreSteps'
  <1>1. CASE UNCHANGED vars
    BY <1>1 DEF vars, bounds, TypeOK, Texts, BackupWhole, RestoreSteps
  <1>2. ASSUME NEW p \in Path, BeginBackup(p) PROVE RestoreSteps'
    BY <1>2 DEF BeginBackup, Begin, OpenStore, bounds, TypeOK, Texts, BackupWhole,
       RestoreSteps
  <1>3. ASSUME NEW p \in Path, BeginRestore(p) PROVE RestoreSteps'
    BY <1>3 DEF BeginRestore, Begin, NewClone, bounds, TypeOK, Texts, BackupWhole,
       RestoreSteps
  <1>4. ASSUME NEW p \in Path, BeginUpdate(p) PROVE RestoreSteps'
    BY <1>4 DEF BeginUpdate, Begin, OwnedMirror, bounds, TypeOK, Texts, BackupWhole,
       RestoreSteps
  <1>5. ASSUME NEW p \in Path, BeginMirror(p) PROVE RestoreSteps'
    BY <1>5 DEF BeginMirror, Begin, bounds, TypeOK, Texts, BackupWhole, RestoreSteps
  <1>6. CASE BackUp
    BY <1>6 DEF BackUp, TakeLock, At, Goto, CleanStatus, Bundle, DraftsSaved,
       Uncopied, SaveJournal, WriteManifest, SaveDraft, Copied, bounds, TypeOK,
       Texts, BackupWhole, RestoreSteps, Idle
  <1>7. CASE Restore
    <2>1. CASE SetOrigin
      BY <2>1 DEF SetOrigin, At, Goto, bounds, TypeOK, Texts, BackupWhole,
         RestoreSteps
    <2>2. CASE DraftsRestored \/ SkipState
      BY <2>2 DEF DraftsRestored, SkipState, At, Goto, Uncopied, bounds, TypeOK, Texts,
         BackupWhole, RestoreSteps
    <2>3. CASE RestoreJournal
      BY <2>3 DEF RestoreJournal, At, Goto, bounds, TypeOK, Texts, BackupWhole,
         RestoreSteps
    <2>4. CASE Report
      BY <2>4 DEF Report, At, bounds, TypeOK, Texts, BackupWhole, RestoreSteps, Idle
    <2>5. ASSUME NEW g \in Page, RestoreDraft(g) PROVE RestoreSteps'
      BY <2>5 DEF RestoreDraft, At, Uncopied, Copied, bounds, TypeOK, Texts,
         BackupWhole, RestoreSteps, Drafts
    <2> QED
      BY <1>7, <2>1, <2>2, <2>3, <2>4, <2>5 DEF Restore
  <1>8. CASE Mirror
    <2>1. CASE MirrorFetch
      BY <2>1 DEF MirrorFetch, At, bounds, TypeOK, Texts, BackupWhole, RestoreSteps
    <2>2. CASE Reset
      BY <2>2 DEF Reset, At, Goto, bounds, TypeOK, Texts, BackupWhole, RestoreSteps
    <2>3. CASE Mark
      BY <2>3 DEF Mark, At, Goto, bounds, TypeOK, Texts, BackupWhole, RestoreSteps
    <2>4. CASE OpenMirror
      BY <2>4 DEF OpenMirror, At, OpenStore, bounds, TypeOK, Texts, BackupWhole,
         RestoreSteps, Idle
    <2> QED
      BY <1>8, <2>1, <2>2, <2>3, <2>4 DEF Mirror
  <1>9. CASE Stop
    BY <1>9 DEF Stop, bounds, TypeOK, Texts, BackupWhole, RestoreSteps, Idle
  <1>10. CASE People
    <2>1. CASE Publish
      BY <2>1 DEF Publish, NewText, bounds, TypeOK, Texts, BackupWhole, RestoreSteps
    <2>2. CASE DiscardBackup
      BY <2>2 DEF DiscardBackup, bounds, TypeOK, Texts, BackupWhole, RestoreSteps
    <2>3. ASSUME NEW p \in Path, Save(p) PROVE RestoreSteps'
      BY <2>3 DEF Save, NewText, Serving, Locked, bounds, TypeOK, Texts,
         BackupWhole, RestoreSteps
    <2>4. ASSUME NEW p \in Path, EditFile(p) PROVE RestoreSteps'
      BY <2>4 DEF EditFile, NewText, bounds, TypeOK, Texts, BackupWhole,
         RestoreSteps
    <2>5. ASSUME NEW p \in Path, CommitFile(p) PROVE RestoreSteps'
      BY <2>5 DEF CommitFile, bounds, TypeOK, Texts, BackupWhole, RestoreSteps
    <2>6. ASSUME NEW p \in Path, InterruptMove(p) PROVE RestoreSteps'
      BY <2>6 DEF InterruptMove, Serving, Locked, bounds, TypeOK, Texts,
         BackupWhole, RestoreSteps
    <2>7. ASSUME NEW p \in Path, Adopt(p) PROVE RestoreSteps'
      BY <2>7 DEF Adopt, bounds, TypeOK, Texts, BackupWhole, RestoreSteps
    <2>8. ASSUME NEW p \in Path, LoseFolder(p) PROVE RestoreSteps'
      BY <2>8 DEF LoseFolder, bounds, TypeOK, Texts, BackupWhole, RestoreSteps
    <2>9. ASSUME NEW p \in Path, NEW g \in Page, TypeDraft(p, g) PROVE RestoreSteps'
      BY <2>9 DEF TypeDraft, NewText, Serving, Locked, bounds, TypeOK, Texts,
         BackupWhole, RestoreSteps, Drafts
    <2> QED
      BY <1>10, <2>1, <2>2, <2>3, <2>4, <2>5, <2>6, <2>7, <2>8, <2>9 DEF
         People
  <1> QED
    BY <1>1, <1>2, <1>3, <1>4, <1>5, <1>6, <1>7, <1>8, <1>9, <1>10 DEF Next

\* Only a folder with the marker is on its way to a reset.
LEMMA MirrorsKept ==
    ASSUME TypeOK, MirrorSteps, [Next]_vars
    PROVE  MirrorSteps'
  <1>1. CASE UNCHANGED vars
    BY <1>1 DEF vars, bounds, TypeOK, MirrorSteps
  <1>2. ASSUME NEW p \in Path, BeginBackup(p) PROVE MirrorSteps'
    BY <1>2 DEF BeginBackup, Begin, OpenStore, bounds, TypeOK, MirrorSteps
  <1>3. ASSUME NEW p \in Path, BeginRestore(p) PROVE MirrorSteps'
    BY <1>3 DEF BeginRestore, Begin, bounds, TypeOK, MirrorSteps
  <1>4. ASSUME NEW p \in Path, BeginUpdate(p) PROVE MirrorSteps'
    BY <1>4 DEF BeginUpdate, Begin, OwnedMirror, bounds, TypeOK, MirrorSteps
  <1>5. ASSUME NEW p \in Path, BeginMirror(p) PROVE MirrorSteps'
    BY <1>5 DEF BeginMirror, Begin, NewClone, bounds, TypeOK, MirrorSteps
  <1>6. CASE BackUp
    BY <1>6 DEF BackUp, TakeLock, At, Goto, CleanStatus, Bundle, DraftsSaved,
       Uncopied, SaveJournal, WriteManifest, SaveDraft, Copied, bounds, TypeOK,
       MirrorSteps, Idle
  <1>7. CASE Restore
    BY <1>7 DEF Restore, SetOrigin, At, Goto, DraftsRestored, SkipState, Uncopied,
       RestoreJournal, Report, RestoreDraft, Copied, bounds, TypeOK, MirrorSteps,
       Idle
  <1>8. CASE Mirror
    <2>1. CASE MirrorFetch
      BY <2>1 DEF MirrorFetch, At, bounds, TypeOK, MirrorSteps
    <2>2. CASE Reset
      BY <2>2 DEF Reset, At, Goto, bounds, TypeOK, MirrorSteps
    <2>3. CASE Mark
      BY <2>3 DEF Mark, At, Goto, bounds, TypeOK, MirrorSteps
    <2>4. CASE OpenMirror
      BY <2>4 DEF OpenMirror, At, OpenStore, bounds, TypeOK, MirrorSteps, Idle
    <2> QED
      BY <1>8, <2>1, <2>2, <2>3, <2>4 DEF Mirror
  <1>9. CASE Stop
    BY <1>9 DEF Stop, bounds, TypeOK, MirrorSteps, Idle
  <1>10. CASE People
    <2>1. CASE Publish
      BY <2>1 DEF Publish, NewText, bounds, TypeOK, MirrorSteps
    <2>2. CASE DiscardBackup
      BY <2>2 DEF DiscardBackup, bounds, TypeOK, MirrorSteps
    <2>3. ASSUME NEW p \in Path, Save(p) PROVE MirrorSteps'
      BY <2>3 DEF Save, NewText, Serving, Locked, bounds, TypeOK, MirrorSteps
    <2>4. ASSUME NEW p \in Path, EditFile(p) PROVE MirrorSteps'
      BY <2>4 DEF EditFile, NewText, bounds, TypeOK, MirrorSteps
    <2>5. ASSUME NEW p \in Path, CommitFile(p) PROVE MirrorSteps'
      BY <2>5 DEF CommitFile, bounds, TypeOK, MirrorSteps
    <2>6. ASSUME NEW p \in Path, InterruptMove(p) PROVE MirrorSteps'
      BY <2>6 DEF InterruptMove, Serving, Locked, bounds, TypeOK, MirrorSteps
    <2>7. ASSUME NEW p \in Path, Adopt(p) PROVE MirrorSteps'
      BY <2>7 DEF Adopt, bounds, TypeOK, MirrorSteps
    <2>8. ASSUME NEW p \in Path, LoseFolder(p) PROVE MirrorSteps'
      BY <2>8 DEF LoseFolder, bounds, TypeOK, MirrorSteps
    <2>9. ASSUME NEW p \in Path, NEW g \in Page, TypeDraft(p, g) PROVE MirrorSteps'
      BY <2>9 DEF TypeDraft, NewText, Serving, Locked, bounds, TypeOK, MirrorSteps
    <2> QED
      BY <1>10, <2>1, <2>2, <2>3, <2>4, <2>5, <2>6, <2>7, <2>8, <2>9 DEF
         People
  <1> QED
    BY <1>1, <1>2, <1>3, <1>4, <1>5, <1>6, <1>7, <1>8, <1>9, <1>10 DEF Next

-----------------------------------------------------------------------------
(* The theorems *)

\* Every step keeps the invariant.
LEMMA Steps == IInv /\ [Next]_vars => IInv'
  BY TypesKept, TextsKept, BackupsKept, RestoresKept, MirrorsKept DEF IInv

\* The inductive invariant holds however many folders, drafts, texts, commands
\* and losses there are.
THEOREM Inductive == Spec => []IInv
  <1>1. Init => IInv
    BY DEF Init, IInv, TypeOK, Texts, BackupWhole, BackupSteps, RestoreSteps,
       MirrorSteps, Clone, Drafts, NoDrafts, NewClone, Vacant, EmptyDirectory,
       NoManifest, Idle, Step, Origin
  <1> QED
    BY <1>1, Steps, PTL DEF Spec

\* A directory with a manifest is a whole backup (cmd_backup: the clean tree, the
\* lock over the drafts, the manifest last).
THEOREM BackupsAreWhole == Spec => []BackupWhole
  <1>1. IInv => BackupWhole
    BY DEF IInv
  <1> QED
    BY <1>1, Inductive, PTL

\* A restore that reports success brought back what the backup was made for
\* (cmd_restore), whatever failed or was lost in between.
THEOREM RestoresBringAll == Spec => []RestoreBringsAll
  <1>1. IInv => RestoreBringsAll
    BY DEF IInv, RestoreBringsAll, RestoreSteps, At
  <1> QED
    BY <1>1, Inductive, PTL

\* A step of a command takes no work from a folder that is not a mirror.
LEMMA StepKeepsWork ==
    ASSUME IInv, [Next]_vars, proc' # proc, NEW q \in Path,
           wiki[q].there, ~wiki[q].marker
    PROVE  wiki[q].work \cup wiki[q].past \subseteq wiki'[q].work \cup wiki'[q].past
  <1> DEFINE Kept == wiki[q].work \cup wiki[q].past \subseteq wiki'[q].work \cup wiki'[q].past
  <1>1. TypeOK /\ MirrorSteps
    BY DEF IInv
  <1>2. CASE wiki' = wiki
    BY <1>2
  <1>3. ASSUME NEW p \in Path, BeginRestore(p) \/ BeginMirror(p) PROVE Kept
    BY <1>3, <1>1 DEF BeginRestore, BeginMirror, TypeOK
  <1>4. CASE SetOrigin \/ Mark
    <2>1. proc.at \in Path
      BY <1>4, <1>1 DEF SetOrigin, Mark, At, TypeOK
    <2>2. wiki[proc.at] \in Clone
      BY <2>1, <1>1 DEF TypeOK
    <2>3. CASE SetOrigin
      BY <2>3, <2>2, <1>1 DEF SetOrigin, TypeOK
    <2>4. CASE Mark
      BY <2>4, <2>2, <1>1 DEF Mark, TypeOK
    <2> QED
      BY <1>4, <2>3, <2>4
  <1>5. CASE Reset
    <2>1. wiki[proc.at].marker
      BY <1>5, <1>1 DEF Reset, At, MirrorSteps
    <2> QED
      BY <1>5, <2>1, <1>1 DEF Reset, TypeOK
  <1>6. wiki' # wiki => \/ \E p \in Path : BeginRestore(p) \/ BeginMirror(p)
                        \/ SetOrigin \/ Mark \/ Reset
    BY DEF Next, BackUp, Restore, Mirror, People, vars, bounds, BeginBackup, BeginUpdate,
           TakeLock, CleanStatus, Bundle, DraftsSaved, SaveJournal, WriteManifest, SaveDraft,
           DraftsRestored, SkipState, RestoreJournal, Report, RestoreDraft, MirrorFetch, OpenMirror, Stop,
           Publish, DiscardBackup, Save, EditFile, CommitFile, InterruptMove, Adopt, LoseFolder,
           TypeDraft
  <1> QED
    BY <1>2, <1>3, <1>4, <1>5, <1>6

\* No command takes a text out of a folder that does not carry a mirror's marker
\* (clone_or_update, cmd_restore).
THEOREM WorkIsLeft == Spec => CommandsKeepWork
  <1>1. IInv /\ [Next]_vars =>
            [\A p \in Path :
                wiki[p].there /\ ~wiki[p].marker /\ proc' # proc =>
                   wiki[p].work \cup wiki[p].past \subseteq wiki'[p].work \cup wiki'[p].past]_vars
    BY StepKeepsWork
  <1> QED
    BY <1>1, Inductive, PTL DEF Spec, CommandsKeepWork

==============================================================================
