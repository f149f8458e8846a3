---------------------------- MODULE EditorProofs -----------------------------
(***************************************************************************)
(* Proofs about Editor, for every number of tabs, edits and deletions:     *)
(*  - no save silently removes an edit of the page;                        *)
(*  - kept text leaves the draft only for a form that lacked it;           *)
(*  - no answer takes typed text off the screen, over redirects too;       *)
(*  - with a single tab, nothing refused is lost.                          *)
(***************************************************************************)
EXTENDS Editor, TLAPS

USE EditorAssumption

\* A new edit has a number within the bound.
LEMMA NewEditTyped ==
  ASSUME TypeOK, NewEdit
  PROVE  edits' \in 0 .. MaxEdits /\ edits + 1 \in 1 .. MaxEdits
  BY DEF TypeOK, NewEdit

\* A form shows what was loaded or a draft.
LEMMA EditFormTyped ==
  ASSUME TypeOK, loaded # Gone,
         NEW d, d = NoDraft \/ d \in Text
  PROVE  EditForm(d) \in View
  BY DEF TypeOK, EditForm, View

\* edit_form may find the draft or none.
LEMMA DraftsReadTyped ==
  ASSUME TypeOK, NEW d \in DraftsRead
  PROVE  (d = draft \/ d = NoDraft) /\ (d = NoDraft \/ d \in Text)
  BY DEF TypeOK, DraftsRead

\* A tab that was sent on is one without a form.
LEMMA SentOnTyped ==
  ASSUME NEW kept \in Text
  PROVE  /\ SentOn(kept) \in View
         /\ SentOn(kept).shows = "redirect" /\ SentOn(kept).body = kept
  BY DEF SentOn, Showing, View, Text

\* What is lost with a replaced draft are edits of a text.
LEMMA ReplacesTyped ==
  ASSUME TypeOK, NEW t \in Tab, Replaces(t)
  PROVE  replaced' \in Text
  BY DEF TypeOK, Replaces, DraftText, Text

\* A kept text is the draft.
LEMMA KeepsTyped ==
  ASSUME TypeOK, NEW t \in Tab, Keeps(t)
  PROVE  draft' \in Text /\ owed' \in Text /\ replaced' \in Text /\ drafts
  <1>1. tab[t].body \in Text
    BY DEF TypeOK, View
  <1>2. QED
    BY <1>1, ReplacesTyped DEF Keeps, TypeOK, Text

\* A refused form is one, with the text that was typed and the page as it is now.
LEMMA RefusedTyped ==
  ASSUME TypeOK, NEW t \in Tab, loaded # Gone
  PROVE  /\ Refused(t) \in View
         /\ Refused(t).base = loaded
         /\ Refused(t).body = tab[t].body
         /\ Refused(t).shows = tab[t].shows
         /\ Refused(t).told = (tab[t].told \/ tab[t].base # loaded)
  <1>1. tab[t] \in View
    BY DEF TypeOK
  <1>2. (tab[t].told \/ tab[t].base # loaded) \in BOOLEAN
    BY <1>1 DEF View
  <1>3. QED
    BY <1>1, <1>2 DEF Refused, View, TypeOK

\* Every step keeps the types.
LEMMA TypeStep ==
  ASSUME TypeOK, [Next]_vars
  PROVE  TypeOK'
  <1> USE DEF TypeOK
  <1>1. ASSUME NEW t \in Tab, Open(t) PROVE TypeOK'
    <2>1. PICK d \in DraftsRead : tab' = [tab EXCEPT ![t] = EditForm(d)]
      BY <1>1 DEF Open
    <2>2. EditForm(d) \in View
      BY <1>1, EditFormTyped, DraftsReadTyped DEF Open
    <2>3. QED
      BY <1>1, <2>1, <2>2 DEF Open
  <1>2. ASSUME NEW t \in Tab, Type(t) PROVE TypeOK'
    <2>1. edits' \in 0 .. MaxEdits /\ edits + 1 \in 1 .. MaxEdits
      BY <1>2, NewEditTyped DEF Type
    <2>2. tab' \in [Tab -> View]
      BY <1>2, <2>1 DEF Type, View, Text
    <2>3. QED
      BY <1>2, <2>1, <2>2 DEF Type
  <1>3. ASSUME NEW t \in Tab, Close(t) \/ PostNotFound(t) \/ Preview(t) PROVE TypeOK'
    <2>1. Showing("nothing") \in View /\ Showing("notfound") \in View
      BY DEF Showing, View, Text
    <2>2. [tab[t] EXCEPT !.resumed = FALSE] \in View
      BY DEF View
    <2>3. QED
      BY <1>3, <2>1, <2>2 DEF Close, PostNotFound, Preview, SameText
  <1>4. ASSUME NEW t \in Tab, SaveDraft(t) PROVE TypeOK'
    <2>1. tab[t].body \in Text /\ SentOn(tab[t].body) \in View
      BY SentOnTyped DEF View
    <2>2. QED
      BY <1>4, <2>1, KeepsTyped DEF SaveDraft
  <1>5. ASSUME NEW t \in Tab, DiscardDraft(t) PROVE TypeOK'
    <2>1. SentOn({}) \in View
      BY SentOnTyped DEF Text
    <2>2. QED
      BY <1>5, <2>1, ReplacesTyped DEF DiscardDraft, Text
  <1>6. ASSUME NEW t \in Tab, Save(t) PROVE TypeOK'
    <2>1. tab[t].body \in Text /\ history' \in Text
      BY <1>6 DEF Save, Saved, SavedInPart, Written, View, Text
    <2>2. CASE Saved(t)
      BY <2>1, <2>2, ReplacesTyped DEF Saved, Written, Showing, View, Text
    <2>3. CASE SavedInPart(t)
      BY <2>1, <2>3 DEF SavedInPart, Written, SameText, View
    <2>4. QED
      BY <1>6, <2>2, <2>3 DEF Save
  <1>7. ASSUME NEW t \in Tab, RefuseSave(t) PROVE TypeOK'
    <2>1. tab' \in [Tab -> View]
      BY <1>7, RefusedTyped DEF RefuseSave
    <2>2. CASE Keeps(t)
      BY <1>7, <2>1, <2>2, KeepsTyped DEF RefuseSave
    <2>3. CASE UNCHANGED <<draft, replaced, owed>>
      BY <1>7, <2>1, <2>3 DEF RefuseSave
    <2>4. QED
      BY <1>7, <2>2, <2>3 DEF RefuseSave
  <1>8. ASSUME Delete PROVE TypeOK'
    <2>1. owed' \in Text
      BY <1>8 DEF Delete, Text
    <2>2. deletes' \in 0 .. MaxDeletes
      BY <1>8 DEF Delete
    <2>3. QED
      BY <1>8, <2>1, <2>2 DEF Delete
  <1>9. ASSUME Reload PROVE TypeOK'
    BY <1>9 DEF Reload
  <1>10. ASSUME OutsideEdit PROVE TypeOK'
    <2>1. edits' \in 0 .. MaxEdits /\ edits + 1 \in 1 .. MaxEdits
      BY <1>10, NewEditTyped DEF OutsideEdit
    <2>2. QED
      BY <1>10, <2>1 DEF OutsideEdit, Text
  <1>11. ASSUME NEW t \in Tab, Follow(t) PROVE TypeOK'
    <2>1. PICK d \in DraftsRead :
             tab' = [tab EXCEPT ![t] = IF loaded = Gone THEN Showing("notfound") ELSE EditForm(d)]
      BY <1>11 DEF Follow
    <2>2. Showing("notfound") \in View /\ (loaded # Gone => EditForm(d) \in View)
      BY EditFormTyped, DraftsReadTyped DEF Showing, View, Text
    <2>3. QED
      BY <1>11, <2>1, <2>2 DEF Follow
  <1>12. CASE UNCHANGED vars
    BY <1>12 DEF vars
  <1>13. QED
    BY <1>1, <1>2, <1>3, <1>4, <1>5, <1>6, <1>7, <1>8, <1>9, <1>10, <1>11, <1>12 DEF Next

\* Type correctness of the forms, the draft and the page.
THEOREM TypeCorrect == Spec => []TypeOK
  <1>1. Init => TypeOK
    BY DEF Init, TypeOK, Text, View, Showing
  <1>2. QED
    BY <1>1, TypeStep, PTL DEF Spec

-----------------------------------------------------------------------------
(* The page *)

\* A form that was told nothing holds all of the page it was opened on.
HoldsBase ==
    \A t \in Tab : HasForm(t) /\ ~tab[t].told => tab[t].base \subseteq tab[t].body

Forms == TypeOK /\ HoldsBase

\* Every step keeps what a form that was told nothing is based on.
LEMMA FormsStep ==
  ASSUME Forms, [Next]_vars
  PROVE  Forms'
  <1> USE DEF Forms
  <1>1. TypeOK'
    BY TypeStep
  <1>2. HoldsBase'
    <2> SUFFICES ASSUME NEW u \in Tab, HasForm(u)', ~tab'[u].told
                 PROVE  tab'[u].base \subseteq tab'[u].body
      BY DEF HoldsBase
    <2> USE DEF TypeOK, HasForm, HoldsBase
    <2>1. ASSUME NEW t \in Tab, Open(t) \/ Follow(t) PROVE tab'[u].base \subseteq tab'[u].body
      <3>1. PICK d \in DraftsRead : tab' = [tab EXCEPT ![t] = EditForm(d)]
                                 \/ tab' = [tab EXCEPT ![t] = Showing("notfound")]
        BY <2>1 DEF Open, Follow
      <3>2. EditForm(d).told = FALSE => EditForm(d).base = EditForm(d).body
        BY DEF EditForm
      <3>3. EditForm(d).told \in BOOLEAN /\ Showing("notfound").shows # "form"
        BY DEF EditForm, Showing
      <3>4. QED
        BY <3>1, <3>2, <3>3
    <2>2. ASSUME NEW t \in Tab, Type(t) PROVE tab'[u].base \subseteq tab'[u].body
      BY <2>2 DEF Type, View
    <2>3. ASSUME NEW t \in Tab, Close(t) \/ PostNotFound(t) \/ Preview(t) \/ Save(t)
          PROVE tab'[u].base \subseteq tab'[u].body
      BY <2>3 DEF Close, PostNotFound, Preview, SameText, Save, Saved, SavedInPart, Showing, View
    <2>4. ASSUME NEW t \in Tab, RefuseSave(t) PROVE tab'[u].base \subseteq tab'[u].body
      <3>1. tab' = [tab EXCEPT ![t] = Refused(t)] /\ HasForm(t) /\ loaded # Gone
        BY <2>4 DEF RefuseSave
      <3>2. CASE u # t
        BY <3>1, <3>2
      <3>3. CASE u = t
        <4>1. tab[t].base = loaded /\ ~tab[t].told
          BY <3>1, <3>3, RefusedTyped
        <4>2. QED
          BY <3>1, <3>3, <4>1, RefusedTyped
      <3>4. QED
        BY <3>2, <3>3
    <2>5. ASSUME UNCHANGED tab PROVE tab'[u].base \subseteq tab'[u].body
      BY <2>5
    <2>6. ASSUME NEW t \in Tab, SaveDraft(t) \/ DiscardDraft(t)
          PROVE tab'[u].base \subseteq tab'[u].body
      BY <2>6 DEF SaveDraft, DiscardDraft, SentOn, Showing
    <2>7. QED
      BY <2>1, <2>2, <2>3, <2>4, <2>5, <2>6
         DEF Next, Delete, Reload, OutsideEdit, vars
  <1>3. QED
    BY <1>1, <1>2

\* The two staleness layers: a save whose form was told neither of a change
\* of the page nor that it is a draft takes nothing from the page.
THEOREM SavesKeepEdits == Spec => NoSilentClobber
  <1> DEFINE Keep == disk # Gone /\ disk' # Gone /\ ~(disk \subseteq disk')
                => \E t \in Tab : HasForm(t) /\ tab[t].told /\ disk' = tab[t].body
  <1>1. Init => Forms
    BY DEF Init, Forms, TypeOK, HoldsBase, HasForm, Text, View, Showing
  <1>2. ASSUME Forms, [Next]_vars PROVE Forms'
    BY <1>2, FormsStep
  <1>3. ASSUME Forms, Next PROVE Keep
    <2>1. CASE \E t \in Tab : Save(t)
      <3>1. PICK t \in Tab : Save(t)
        BY <2>1
      <3>2. HasForm(t) /\ disk = tab[t].base /\ disk' = tab[t].body
        BY <3>1 DEF Save, Saved, SavedInPart, Written
      <3>3. ~tab[t].told => disk \subseteq disk'
        BY <1>3, <3>2 DEF Forms, HoldsBase
      <3>4. QED
        BY <3>2, <3>3
    <2>2. CASE disk' = disk
      BY <2>2
    <2>3. CASE Delete \/ OutsideEdit
      BY <2>3 DEF Delete, OutsideEdit
    <2>4. QED
      BY <1>3, <2>1, <2>2, <2>3
         DEF Next, Open, Follow, Type, Close, Preview, PostNotFound, SaveDraft, DiscardDraft, RefuseSave, Reload
  <1>4. ASSUME Forms, [Next]_vars PROVE [Keep]_vars
    BY <1>3, <1>4
  <1>5. QED
    BY <1>1, <1>2, <1>4, PTL DEF Spec, NoSilentClobber

-----------------------------------------------------------------------------
(* The draft *)

\* A text that is kept is in the draft; what it replaces is recorded.
LEMMA KeepsStays ==
  ASSUME TypeOK, RefusedTextStays, NEW t \in Tab, Keeps(t), history' = history
  PROVE  RefusedTextStays'
  <1>1. draft' = tab[t].body /\ tab[t].body \in Text
    BY DEF Keeps, TypeOK, View
  <1>2. DraftText' = tab[t].body
    BY <1>1 DEF DraftText
  <1>3. owed' = owed \cup tab[t].body /\ replaced' = replaced \cup (DraftText \ tab[t].body)
    BY DEF Keeps, Replaces
  <1>4. QED
    BY <1>2, <1>3 DEF RefusedTextStays

\* A kept text stays in a saved version or its draft.
LEMMA RefusedTextStep ==
  ASSUME TypeOK, RefusedTextStays, [Next]_vars
  PROVE  RefusedTextStays'
  <1> USE DEF RefusedTextStays, DraftText
  <1>1. ASSUME NEW t \in Tab, SaveDraft(t) PROVE RefusedTextStays'
    BY <1>1, KeepsStays DEF SaveDraft
  <1>2. ASSUME NEW t \in Tab, DiscardDraft(t) PROVE RefusedTextStays'
    BY <1>2 DEF DiscardDraft, Replaces
  <1>3. ASSUME NEW t \in Tab, Save(t) PROVE RefusedTextStays'
    BY <1>3 DEF Save, Saved, SavedInPart, Written, Replaces
  <1>4. ASSUME NEW t \in Tab, RefuseSave(t) PROVE RefusedTextStays'
    <2>1. CASE Keeps(t)
      BY <1>4, <2>1, KeepsStays DEF RefuseSave
    <2>2. CASE UNCHANGED <<draft, replaced, owed>>
      BY <1>4, <2>2 DEF RefuseSave
    <2>3. QED
      BY <1>4, <2>1, <2>2 DEF RefuseSave
  <1>5. ASSUME Delete \/ OutsideEdit PROVE RefusedTextStays'
    BY <1>5 DEF Delete, OutsideEdit
  <1>6. ASSUME UNCHANGED <<draft, history, owed, replaced>> PROVE RefusedTextStays'
    BY <1>6
  <1>7. QED
    BY <1>1, <1>2, <1>3, <1>4, <1>5, <1>6
       DEF Next, vars, Open, Follow, Type, Close, Preview, PostNotFound, Reload

\* stale_conflict keeps its promise until a form takes the draft for a text
\* of its own.
THEOREM RefusedTextKept == Spec => []RefusedTextStays
  <1>1. Init => TypeOK /\ RefusedTextStays
    BY DEF Init, TypeOK, RefusedTextStays, Text, View, Showing
  <1>2. QED
    BY <1>1, TypeStep, RefusedTextStep, PTL DEF Spec

-----------------------------------------------------------------------------
(* What is on the screen *)

\* No answer takes typed text off the screen but as ErrorKeepsText allows: the
\* form that follows "draft saved" shows the draft, and what is missing from
\* the draft by then was saved, discarded or replaced by another tab's request
\* (render_editor, stale_conflict, editor_error, the redirects of post_edit).
THEOREM ErrorsKeepText == Spec => ErrorKeepsText
  <1> DEFINE Kept(t) == \/ tab[t].body \subseteq tab'[t].body
                        \/ Close(t) \/ DiscardDraft(t)
                        \/ tab[t].body \subseteq history'
                        \/ loaded = Gone /\ tab'[t].shows = "notfound"
                        \/ /\ Awaits(t) /\ ~(tab[t].body \subseteq DraftText)
                           /\ (tab[t].body \ DraftText) \cap owed \subseteq history \cup replaced
                        \/ Awaits(t) /\ draft # NoDraft /\ ~tab'[t].resumed
  <1>1. ASSUME TypeOK, RefusedTextStays, Next, NEW t \in Tab, HasForm(t) \/ Awaits(t)
        PROVE  Kept(t)
    <2>1. tab[t] \in View /\ tab \in [Tab -> View]
      BY <1>1 DEF TypeOK
    <2>2. CASE tab'[t] = tab[t]
      BY <2>2
    <2>3. ASSUME Type(t) PROVE Kept(t)
      BY <2>1, <2>3 DEF Type, View
    <2>4. ASSUME Preview(t) PROVE Kept(t)
      BY <2>1, <2>4 DEF Preview, SameText, View
    <2>5. ASSUME SaveDraft(t) PROVE Kept(t)
      <3>1. tab[t].body \in Text /\ tab'[t] = SentOn(tab[t].body)
        BY <2>1, <2>5 DEF SaveDraft, View
      <3>2. QED
        BY <3>1, SentOnTyped
    <2>6. ASSUME PostNotFound(t) PROVE Kept(t)
      BY <2>1, <2>6 DEF PostNotFound, Showing
    <2>7. ASSUME RefuseSave(t) PROVE Kept(t)
      BY <1>1, <2>1, <2>7, RefusedTyped DEF RefuseSave, TypeOK
    <2>8. ASSUME Save(t) PROVE Kept(t)
      BY <2>8 DEF Save, Saved, SavedInPart, Written
    <2>9. ASSUME Follow(t) PROVE Kept(t)
      <3>1. PICK d \in DraftsRead :
               tab'[t] = IF loaded = Gone THEN Showing("notfound") ELSE EditForm(d)
        BY <2>1, <2>9 DEF Follow
      <3>2. CASE loaded = Gone
        BY <3>1, <3>2 DEF Showing
      <3>3. CASE loaded # Gone /\ d # draft
        <4>1. d = NoDraft /\ draft # NoDraft
          BY <1>1, <3>3, DraftsReadTyped
        <4>2. ~EditForm(d).resumed
          BY <4>1 DEF EditForm
        <4>3. QED
          BY <2>9, <3>1, <3>3, <4>1, <4>2 DEF Follow
      <3>4. CASE loaded # Gone /\ d = draft /\ tab[t].body \subseteq DraftText
        <4>1. CASE draft = NoDraft
          BY <3>4, <4>1 DEF DraftText
        <4>2. CASE draft # NoDraft
          BY <3>1, <3>4, <4>2 DEF DraftText, EditForm
        <4>3. QED
          BY <4>1, <4>2
      <3>5. CASE ~(tab[t].body \subseteq DraftText)
        BY <1>1, <2>9, <3>5 DEF Follow, RefusedTextStays
      <3>6. QED
        BY <3>2, <3>3, <3>4, <3>5
    <2>10. \/ tab'[t] = tab[t]
           \/ Type(t) \/ Preview(t) \/ SaveDraft(t) \/ DiscardDraft(t) \/ Close(t) \/ Save(t)
           \/ RefuseSave(t) \/ Follow(t) \/ PostNotFound(t)
      <3>1. ASSUME NEW u \in Tab, u # t,
                   \/ Open(u) \/ Follow(u) \/ Type(u) \/ Close(u) \/ Preview(u) \/ PostNotFound(u)
                   \/ SaveDraft(u) \/ DiscardDraft(u) \/ Save(u) \/ RefuseSave(u)
            PROVE  tab'[t] = tab[t]
        BY <2>1, <3>1 DEF Open, Follow, Type, Close, Preview, SameText, PostNotFound, SaveDraft,
                          DiscardDraft, Save, Saved, SavedInPart, RefuseSave
      <3>2. ~Open(t)
        BY <1>1 DEF Open
      <3>3. Delete \/ Reload \/ OutsideEdit => tab' = tab
        BY DEF Delete, Reload, OutsideEdit
      <3>4. QED
        BY <1>1, <3>1, <3>2, <3>3 DEF Next
    <2>11. QED
      BY <2>2, <2>3, <2>4, <2>5, <2>6, <2>7, <2>8, <2>9, <2>10
  <1>2. TypeOK /\ RefusedTextStays /\ [Next]_vars =>
            [\A t \in Tab :
                (HasForm(t) \/ Awaits(t)) /\ ~(tab[t].body \subseteq tab'[t].body)
                   => \/ Close(t) \/ DiscardDraft(t)
                      \/ tab[t].body \subseteq history'
                      \/ loaded = Gone /\ tab'[t].shows = "notfound"
                      \/ /\ Awaits(t) /\ ~(tab[t].body \subseteq DraftText)
                         /\ (tab[t].body \ DraftText) \cap owed \subseteq history \cup replaced
                      \/ Awaits(t) /\ draft # NoDraft /\ ~tab'[t].resumed]_vars
    BY <1>1
  <1>3. QED
    BY <1>2, TypeCorrect, RefusedTextKept, PTL DEF Spec, ErrorKeepsText

-----------------------------------------------------------------------------
(* With a single tab *)

\* A form that is open, or awaited, holds all of the draft, so it takes nothing
\* from it.
NothingReplaced ==
    /\ TypeOK
    /\ RefusedTextStays
    /\ replaced = {}
    /\ \A t \in Tab : HasForm(t) \/ Awaits(t) => DraftText \subseteq tab[t].body

\* With one tab, no step replaces a draft that the tab does not hold.
LEMMA NothingReplacedStep ==
  ASSUME ~ReadsFail, NEW only, Tab = {only}, NothingReplaced, [Next]_vars
  PROVE  NothingReplaced'
  <1> USE DEF NothingReplaced
  <1>1. TypeOK' /\ RefusedTextStays'
    BY TypeStep, RefusedTextStep
  <1>2. /\ replaced' = {}
        /\ HasForm(only)' \/ Awaits(only)' => DraftText' \subseteq tab'[only].body
    <2> USE DEF TypeOK, HasForm, Awaits, DraftText
    <2>1. ASSUME Open(only) \/ Follow(only) PROVE <1>2!:
      <3>1. DraftsRead = {draft}
        BY DEF DraftsRead
      <3>2. QED
        BY <2>1, <3>1 DEF Open, Follow, EditForm, Showing
    <2>2. ASSUME Type(only) PROVE <1>2!:
      BY <2>2 DEF Type, View
    <2>3. ASSUME Close(only) \/ PostNotFound(only) \/ Preview(only) PROVE <1>2!:
      BY <2>3 DEF Close, PostNotFound, Preview, SameText, Showing, View
    <2>4. ASSUME Keeps(only), HasForm(only), tab'[only].body = tab[only].body PROVE <1>2!:
      <3>1. draft' = tab[only].body /\ tab[only].body \in Text
        BY <2>4 DEF Keeps, View
      <3>2. QED
        BY <2>4, <3>1 DEF Keeps, Replaces
    <2>5. ASSUME DiscardDraft(only) PROVE <1>2!:
      BY <2>5 DEF DiscardDraft, Replaces
    <2>6. ASSUME Save(only) PROVE <1>2!:
      BY <2>6 DEF Save, Saved, SavedInPart, Written, SameText, Showing, Replaces, View
    <2>7. ASSUME RefuseSave(only) PROVE <1>2!:
      <3>1. HasForm(only) /\ tab'[only].body = tab[only].body
        BY <2>7, RefusedTyped DEF RefuseSave
      <3>2. CASE Keeps(only)
        BY <2>4, <3>1, <3>2
      <3>3. CASE UNCHANGED <<draft, replaced, owed>>
        BY <3>1, <3>3
      <3>4. QED
        BY <2>7, <3>2, <3>3 DEF RefuseSave
    <2>8. ASSUME SaveDraft(only) PROVE <1>2!:
      <3>1. tab'[only].body = tab[only].body
        BY <2>8, SentOnTyped DEF SaveDraft, View
      <3>2. QED
        BY <2>4, <2>8, <3>1 DEF SaveDraft
    <2>9. ASSUME Delete \/ Reload \/ OutsideEdit \/ UNCHANGED vars PROVE <1>2!:
      BY <2>9 DEF Delete, Reload, OutsideEdit, vars
    <2>10. QED
      BY <2>1, <2>2, <2>3, <2>5, <2>6, <2>7, <2>8, <2>9 DEF Next
  <1>3. QED
    BY <1>1, <1>2

\* For a user of one tab, whose drafts can be read, the promise holds as it is
\* written: even a closed tab loses nothing.
THEOREM OneTabLosesNothing ==
  ASSUME ~ReadsFail, NEW only, Tab = {only}
  PROVE  Spec => []ClosedTabLosesNothing
  <1>1. Init => NothingReplaced
    BY DEF Init, NothingReplaced, RefusedTextStays, DraftText, TypeOK, HasForm, Awaits, Text, View, Showing
  <1>2. ASSUME NothingReplaced, [Next]_vars PROVE NothingReplaced'
    BY <1>2, NothingReplacedStep
  <1>3. NothingReplaced => ClosedTabLosesNothing
    BY DEF NothingReplaced, RefusedTextStays, ClosedTabLosesNothing
  <1>4. QED
    BY <1>1, <1>2, <1>3, PTL DEF Spec
=============================================================================
