-------------------------- MODULE WriterLockProofs ---------------------------
(***************************************************************************)
(* Proofs about WriterLock, for any number of processes and pages.         *)
(* Recoveries of several processes at once are safe as long as none of     *)
(* them meets a move: the direction each of them chose stays right.  A     *)
(* refused process is told of the holder, as soon as its record is there.  *)
(***************************************************************************)
EXTENDS WriterLock, TLAPS

USE WriterLockAssumption

State == [at : Phase, command : Command, todo : SUBSET Page, tree : Tree]

\* A process at rest.
LEMMA IdleTyped == Idle \in State
  BY DEF Idle, State, Phase, Command, Tree

\* Every step keeps the types,
LEMMA TypeStep ==
  ASSUME TypeOK, [Next]_vars
  PROVE  TypeOK'
  <1> USE IdleTyped DEF TypeOK, State, Phase, Command, At
  <1>1. ASSUME NEW p \in Process, \E c \in Command : Start(p, c)
        PROVE  TypeOK'
    BY <1>1 DEF Start, Direction, Tree, Idle
  <1>2. ASSUME NEW p \in Process, \E x \in Page : RecoverPage(p, x)
        PROVE  TypeOK'
    BY <1>2 DEF RecoverPage
  <1>3. ASSUME NEW p \in Process, ClearJournal(p)
        PROVE  TypeOK'
    BY <1>3 DEF ClearJournal, Recovering
  <1>4. ASSUME NEW p \in Process, Load(p)
        PROVE  TypeOK'
    BY <1>4 DEF Load, Folder, Tree
  <1>5. ASSUME NEW p \in Process, Acquire(p)
        PROVE  TypeOK'
    BY <1>5 DEF Acquire
  <1>6. ASSUME NEW p \in Process, BeRefused(p)
        PROVE  TypeOK'
    BY <1>6 DEF BeRefused, Idle
  <1>7. ASSUME NEW p \in Process, WriteRecord(p)
        PROVE  TypeOK'
    BY <1>7 DEF WriteRecord
  <1>8. ASSUME NEW p \in Process, CheckEnds(p)
        PROVE  TypeOK'
    BY <1>8 DEF CheckEnds, Idle
  <1>9. ASSUME NEW p \in Process, SidebarWrites(p)
        PROVE  TypeOK'
    BY <1>9 DEF SidebarWrites, Idle
  <1>10. ASSUME NEW p \in Process, BeginMove(p)
        PROVE  TypeOK'
    BY <1>10 DEF BeginMove
  <1>11. ASSUME NEW p \in Process, \E x \in Page : WritePage(p, x)
        PROVE  TypeOK'
    BY <1>11 DEF WritePage
  <1>12. ASSUME NEW p \in Process, AllWritten(p)
        PROVE  TypeOK'
    BY <1>12 DEF AllWritten
  <1>13. ASSUME NEW p \in Process, \E x \in Page : RemovePage(p, x)
        PROVE  TypeOK'
    BY <1>13 DEF RemovePage
  <1>14. ASSUME NEW p \in Process, \E x \in Page : RemoveFails(p, x)
        PROVE  TypeOK'
    BY <1>14 DEF RemoveFails
  <1>15. ASSUME NEW p \in Process, FinishMove(p)
        PROVE  TypeOK'
    BY <1>15 DEF FinishMove, Folder, Tree
  <1>16. ASSUME NEW p \in Process, Kill(p)
        PROVE  TypeOK'
    BY <1>16 DEF Kill, Idle
  <1>17. CASE UNCHANGED vars
    BY <1>17 DEF vars
  <1>18. QED
    BY <1>1, <1>2, <1>3, <1>4, <1>5, <1>6, <1>7, <1>8, <1>9, <1>10, <1>11,
       <1>12, <1>13, <1>14, <1>15, <1>16, <1>17 DEF Next

\* which hold at the start.
LEMMA InitTyped == Init => TypeOK
  <1> SUFFICES ASSUME Init PROVE TypeOK
    OBVIOUS
  <1>1. proc \in [Process -> State]
    BY IdleTyped DEF Init
  <1>3. \A p \in Process : proc[p].todo = {}
    BY DEF Init, Idle
  <1>4. named \in [Process -> Process \cup {NoOne}]
    BY DEF Init
  <1>5. starts \in 0 .. MaxStarts
    BY DEF Init
  <1>6. old \subseteq Page /\ new \subseteq Page /\ journal \in BOOLEAN /\ crossed \in BOOLEAN
    BY DEF Init
  <1>7. lock \in Process \cup {NoOne} /\ record \in Process \cup {NoOne}
    BY DEF Init
  <1>8. QED
    BY <1>1, <1>3, <1>4, <1>5, <1>6, <1>7 DEF TypeOK, State

\* Type correctness of the folder, the lock and the processes.
THEOREM TypeCorrect == Spec => []TypeOK
  BY InitTyped, TypeStep, PTL DEF Spec

-----------------------------------------------------------------------------
(* The lock *)

\* Every step keeps the lock with one process.
LEMMA OneWriterStep ==
  ASSUME TypeOK, OneWriter, [Next]_vars
  PROVE  OneWriter'
  <1> USE DEF TypeOK, OneWriter, Holds, At, Idle
  <1>1. ASSUME NEW p \in Process, \E c \in Command : Start(p, c)
        PROVE  OneWriter'
    BY <1>1 DEF Start, Direction
  <1>2. ASSUME NEW p \in Process, \E x \in Page : RecoverPage(p, x)
        PROVE  OneWriter'
    BY <1>2 DEF RecoverPage
  <1>3. ASSUME NEW p \in Process, ClearJournal(p)
        PROVE  OneWriter'
    BY <1>3 DEF ClearJournal, Recovering
  <1>4. ASSUME NEW p \in Process, Load(p)
        PROVE  OneWriter'
    BY <1>4 DEF Load
  <1>5. ASSUME NEW p \in Process, Acquire(p)
        PROVE  OneWriter'
    BY <1>5 DEF Acquire
  <1>6. ASSUME NEW p \in Process, BeRefused(p)
        PROVE  OneWriter'
    BY <1>6 DEF BeRefused
  <1>7. ASSUME NEW p \in Process, WriteRecord(p)
        PROVE  OneWriter'
    BY <1>7 DEF WriteRecord
  <1>8. ASSUME NEW p \in Process, CheckEnds(p)
        PROVE  OneWriter'
    BY <1>8 DEF CheckEnds
  <1>9. ASSUME NEW p \in Process, SidebarWrites(p)
        PROVE  OneWriter'
    BY <1>9 DEF SidebarWrites
  <1>10. ASSUME NEW p \in Process, BeginMove(p)
        PROVE  OneWriter'
    BY <1>10 DEF BeginMove
  <1>11. ASSUME NEW p \in Process, \E x \in Page : WritePage(p, x)
        PROVE  OneWriter'
    BY <1>11 DEF WritePage
  <1>12. ASSUME NEW p \in Process, AllWritten(p)
        PROVE  OneWriter'
    BY <1>12 DEF AllWritten
  <1>13. ASSUME NEW p \in Process, \E x \in Page : RemovePage(p, x)
        PROVE  OneWriter'
    BY <1>13 DEF RemovePage
  <1>14. ASSUME NEW p \in Process, \E x \in Page : RemoveFails(p, x)
        PROVE  OneWriter'
    BY <1>14 DEF RemoveFails
  <1>15. ASSUME NEW p \in Process, FinishMove(p)
        PROVE  OneWriter'
    BY <1>15 DEF FinishMove
  <1>16. ASSUME NEW p \in Process, Kill(p)
        PROVE  OneWriter'
    BY <1>16 DEF Kill
  <1>17. CASE UNCHANGED vars
    BY <1>17 DEF vars
  <1>18. QED
    BY <1>1, <1>2, <1>3, <1>4, <1>5, <1>6, <1>7, <1>8, <1>9, <1>10, <1>11,
       <1>12, <1>13, <1>14, <1>15, <1>16, <1>17 DEF Next

\* One wiki clone has at most one process that writes it under the lock.
THEOREM OneWriterAlways == Spec => []OneWriter
  <1>1. Init => TypeOK /\ OneWriter
    BY InitTyped DEF Init, OneWriter, Holds, At, Idle
  <1>2. QED
    BY <1>1, TypeStep, OneWriterStep, PTL DEF Spec

-----------------------------------------------------------------------------
(* Whom a refused process is told of *)

\* The record names the holder of the lock, or nobody, once the holder wrote it.
RecordOfHolder == lock # NoOne => record \in {NoOne, lock} \/ At(lock, {"locked"})

\* Every step keeps the record, once written, that of the holder.
LEMMA RecordOfHolderStep ==
  ASSUME TypeOK, OneWriter, RecordOfHolder, [Next]_vars
  PROVE  RecordOfHolder'
  <1> USE DEF TypeOK, OneWriter, Holds, RecordOfHolder, At, Idle
  <1>1. ASSUME NEW p \in Process, \E c \in Command : Start(p, c)
        PROVE  RecordOfHolder'
    BY <1>1 DEF Start, Direction
  <1>2. ASSUME NEW p \in Process, \E x \in Page : RecoverPage(p, x)
        PROVE  RecordOfHolder'
    BY <1>2 DEF RecoverPage
  <1>3. ASSUME NEW p \in Process, ClearJournal(p)
        PROVE  RecordOfHolder'
    BY <1>3 DEF ClearJournal, Recovering
  <1>4. ASSUME NEW p \in Process, Load(p)
        PROVE  RecordOfHolder'
    BY <1>4 DEF Load
  <1>5. ASSUME NEW p \in Process, Acquire(p)
        PROVE  RecordOfHolder'
    BY <1>5 DEF Acquire
  <1>6. ASSUME NEW p \in Process, BeRefused(p)
        PROVE  RecordOfHolder'
    BY <1>6 DEF BeRefused
  <1>7. ASSUME NEW p \in Process, WriteRecord(p)
        PROVE  RecordOfHolder'
    BY <1>7 DEF WriteRecord
  <1>8. ASSUME NEW p \in Process, CheckEnds(p)
        PROVE  RecordOfHolder'
    BY <1>8 DEF CheckEnds
  <1>9. ASSUME NEW p \in Process, SidebarWrites(p)
        PROVE  RecordOfHolder'
    BY <1>9 DEF SidebarWrites
  <1>10. ASSUME NEW p \in Process, BeginMove(p)
        PROVE  RecordOfHolder'
    BY <1>10 DEF BeginMove
  <1>11. ASSUME NEW p \in Process, \E x \in Page : WritePage(p, x)
        PROVE  RecordOfHolder'
    BY <1>11 DEF WritePage
  <1>12. ASSUME NEW p \in Process, AllWritten(p)
        PROVE  RecordOfHolder'
    BY <1>12 DEF AllWritten
  <1>13. ASSUME NEW p \in Process, \E x \in Page : RemovePage(p, x)
        PROVE  RecordOfHolder'
    BY <1>13 DEF RemovePage
  <1>14. ASSUME NEW p \in Process, \E x \in Page : RemoveFails(p, x)
        PROVE  RecordOfHolder'
    BY <1>14 DEF RemoveFails
  <1>15. ASSUME NEW p \in Process, FinishMove(p)
        PROVE  RecordOfHolder'
    BY <1>15 DEF FinishMove
  <1>16. ASSUME NEW p \in Process, Kill(p)
        PROVE  RecordOfHolder'
    BY <1>16 DEF Kill
  <1>17. CASE UNCHANGED vars
    BY <1>17 DEF vars
  <1>18. QED
    BY <1>1, <1>2, <1>3, <1>4, <1>5, <1>6, <1>7, <1>8, <1>9, <1>10, <1>11,
       <1>12, <1>13, <1>14, <1>15, <1>16, <1>17 DEF Next

\* A refused process is told of the holder; of another only while the holder has
\* yet to write its record (RepoLock::acquire, write_record).
THEOREM HoldersAreNamed == Spec => HolderNamed
  <1> DEFINE Told == \A p \in Process :
                 BeRefused(p) => \/ named'[p] \in {NoOne, lock}
                                 \/ At(lock, {"locked"})
  <1>1. Init => TypeOK /\ OneWriter /\ RecordOfHolder
    BY InitTyped DEF Init, OneWriter, Holds, At, Idle, RecordOfHolder
  <1>2. ASSUME TypeOK, RecordOfHolder, NEW p \in Process, BeRefused(p)
        PROVE  named'[p] \in {NoOne, lock} \/ At(lock, {"locked"})
    BY <1>2 DEF TypeOK, RecordOfHolder, BeRefused
  <1>3. TypeOK /\ RecordOfHolder /\ [Next]_vars => [Told]_vars
    BY <1>2
  <1>4. Spec => [](TypeOK /\ OneWriter /\ RecordOfHolder)
    BY <1>1, TypeStep, OneWriterStep, RecordOfHolderStep, PTL DEF Spec
  <1>5. QED
    BY <1>3, <1>4, PTL DEF Spec, HolderNamed

-----------------------------------------------------------------------------
(* The folder, as long as no recovery has met a move *)

\* What each recovery, each move, and every process at rest knows of the folder.
Recoveries ==
    \A p \in Process :
       /\ At(p, {"forward"}) => new = Page /\ old \subseteq proc[p].todo
       /\ At(p, {"back"}) => old = Page /\ new # Page /\ new \subseteq proc[p].todo
Moves ==
    \A p \in Process :
       /\ Moving(p) => journal /\ \A q \in Process : ~Recovering(q)
       /\ At(p, {"moving"}) => old = Page /\ Page \ proc[p].todo \subseteq new
       /\ At(p, {"removing"}) => new = Page /\ old \subseteq proc[p].todo
OneSideWhole == old = Page \/ new = Page

Apart == Recoveries /\ Moves /\ OneSideWhole /\ AllOrNothing
FInv == TypeOK /\ OneWriter /\ (~crossed => Apart)

\* A recovery that has met a move once has met it for good.
LEMMA StaysApart ==
  ASSUME TypeOK, [Next]_vars, ~crossed'
  PROVE  ~crossed
  BY DEF TypeOK, Next, vars, Start, RecoverPage, ClearJournal, Load, Acquire,
         BeRefused, WriteRecord, CheckEnds, SidebarWrites, BeginMove, WritePage,
         AllWritten, RemovePage, RemoveFails, FinishMove, Kill

\* Until then every step keeps all recoveries going one way.
LEMMA ApartStep ==
  ASSUME FInv, [Next]_vars, ~crossed'
  PROVE  Apart'
  <1> DEFINE Kept == Recoveries' /\ Moves' /\ OneSideWhole' /\ AllOrNothing'
  <1>0. TypeOK /\ OneWriter /\ Apart /\ ~crossed
    BY StaysApart DEF FInv
  <1> HIDE DEF FInv
  <1> USE DEF Apart, TypeOK, Recoveries, Moves, OneSideWhole, AllOrNothing,
              Moving, Recovering, Holds, OneWriter, At, Idle
  <1>1. ASSUME NEW p \in Process, \E c \in Command : Start(p, c)
        PROVE  Kept
    BY <1>0, <1>1 DEF Start, Direction
  <1>2. ASSUME NEW p \in Process, \E x \in Page : RecoverPage(p, x)
        PROVE  Kept
    BY <1>0, <1>2 DEF RecoverPage
  <1>3. ASSUME NEW p \in Process, ClearJournal(p)
        PROVE  Kept
    BY <1>0, <1>3 DEF ClearJournal
  <1>4. ASSUME NEW p \in Process, Load(p)
        PROVE  Kept
    BY <1>0, <1>4 DEF Load
  <1>5. ASSUME NEW p \in Process, Acquire(p)
        PROVE  Kept
    BY <1>0, <1>5 DEF Acquire
  <1>6. ASSUME NEW p \in Process, BeRefused(p)
        PROVE  Kept
    BY <1>0, <1>6 DEF BeRefused
  <1>7. ASSUME NEW p \in Process, WriteRecord(p)
        PROVE  Kept
    BY <1>0, <1>7 DEF WriteRecord
  <1>8. ASSUME NEW p \in Process, CheckEnds(p)
        PROVE  Kept
    BY <1>0, <1>8 DEF CheckEnds
  <1>9. ASSUME NEW p \in Process, SidebarWrites(p)
        PROVE  Kept
    BY <1>0, <1>9 DEF SidebarWrites
  <1>10. ASSUME NEW p \in Process, BeginMove(p)
        PROVE  Kept
    BY <1>0, <1>10 DEF BeginMove
  <1>11. ASSUME NEW p \in Process, \E x \in Page : WritePage(p, x)
        PROVE  Kept
    BY <1>0, <1>11 DEF WritePage
  <1>12. ASSUME NEW p \in Process, AllWritten(p)
        PROVE  Kept
    BY <1>0, <1>12 DEF AllWritten
  <1>13. ASSUME NEW p \in Process, \E x \in Page : RemovePage(p, x)
        PROVE  Kept
    BY <1>0, <1>13 DEF RemovePage
  <1>14. ASSUME NEW p \in Process, \E x \in Page : RemoveFails(p, x)
        PROVE  Kept
    BY <1>0, <1>14 DEF RemoveFails
  <1>15. ASSUME NEW p \in Process, FinishMove(p)
        PROVE  Kept
    BY <1>0, <1>15 DEF FinishMove
  <1>16. ASSUME NEW p \in Process, Kill(p)
        PROVE  Kept
    BY <1>0, <1>16 DEF Kill
  <1>17. CASE UNCHANGED vars
    BY <1>0, <1>17 DEF vars
  <1>18. QED
    BY <1>1, <1>2, <1>3, <1>4, <1>5, <1>6, <1>7, <1>8, <1>9, <1>10, <1>11,
       <1>12, <1>13, <1>14, <1>15, <1>16, <1>17 DEF Next

\* The invariant the two results below are read off.
LEMMA FInvAlways == Spec => []FInv
  <1>1. Init => FInv
    BY InitTyped DEF Init, FInv, Apart, OneWriter, Recoveries, Moves, OneSideWhole,
       AllOrNothing, Moving, Recovering, Holds, At, Idle
  <1>2. ASSUME FInv, [Next]_vars PROVE FInv'
    BY <1>2, TypeStep, OneWriterStep, ApartStep DEF FInv
  <1> QED
    BY <1>1, <1>2, PTL DEF Spec

\* Whoever recovers with whom, and whatever dies when: every page has a file, as
\* long as no recovery has met a move.
THEOREM RecoveriesAgree == Spec => []NoPageLostApart
  <1>1. FInv => NoPageLostApart
    BY DEF FInv, Apart, TypeOK, OneSideWhole, NoPageLostApart, NoPageLost
  <1> QED
    BY <1>1, FInvAlways, PTL

\* With no journal left (recovery on open and apply_move each remove it
\* last), the move is done or undone as a whole.
THEOREM RecoveredWhole == Spec => []AllOrNothing
  <1>1. FInv => AllOrNothing
    BY DEF FInv, Apart, TypeOK, AllOrNothing
  <1> QED
    BY <1>1, FInvAlways, PTL
=============================================================================
