------------------------------- MODULE Editor --------------------------------
(***************************************************************************)
(* Editing one page in several browser tabs: the handlers of               *)
(* crates/berrywiki-serve/src/editor.rs over the page, the store's loaded  *)
(* copy and the page's draft.  The server handles one request at a time,   *)
(* so each handler is one step; what interleaves is the requests of the    *)
(* tabs and the edits made outside BerryWiki.  The two draft buttons are   *)
(* answered with a redirect: the form comes from a second request, before  *)
(* which the server may serve those of the other tabs.                     *)
(*                                                                         *)
(* A text is the set of edits it contains.  Users only add; an edit that   *)
(* leaves the page has been overwritten by a text typed without it.        *)
(***************************************************************************)
EXTENDS Naturals

CONSTANTS
    Tab,          \* browser tabs with an editor form
    Gone,         \* the page file does not exist
    NoDraft,
    ReadsFail,    \* whether reading a draft may fail
    MaxEdits,     \* bound: edits typed or made outside
    MaxDeletes    \* bound: deletions of the page

Text == SUBSET (1 .. MaxEdits)

ASSUME EditorAssumption ==
    /\ ReadsFail \in BOOLEAN
    /\ MaxEdits \in Nat /\ MaxDeletes \in Nat
    /\ \A x \in Text : x # Gone /\ x # NoDraft

VARIABLES
    drafts,     \* App::drafts: the app-state directory could be resolved
    disk,       \* the page file
    loaded,     \* the store's copy
    draft,      \* the draft file
    tab,        \* the form each tab shows
    history,    \* edits any saved version of the page has held
    owed,       \* edits that BerryWiki said it kept in the draft
    replaced,   \* edits a request took from the draft whose form lacked them
    edits,      \* edits made so far
    deletes     \* the bound used up

vars == <<drafts, disk, loaded, draft, tab, history, owed, replaced, edits, deletes>>

\* What a tab shows.  A form has its textarea, its hidden base (the hash of a
\* page text) and, when it resumes a draft, the button that discards it.  A
\* tab that was sent on to the editor has no form yet; its body is the model's
\* own, the text its request said is kept.  told is the model's own too: a form
\* of this text once said that the page had changed after it was opened, or
\* that the text is a draft.
View == [shows : {"nothing", "form", "redirect", "page", "notfound"},
         body : Text, base : Text, resumed : BOOLEAN, told : BOOLEAN]
Showing(what) ==
    [shows |-> what, body |-> {}, base |-> {}, resumed |-> FALSE, told |-> FALSE]
SentOn(kept) == [Showing("redirect") EXCEPT !.body = kept]
HasForm(t) == tab[t].shows = "form"
Awaits(t) == tab[t].shows = "redirect"

TypeOK ==
    /\ disk = Gone \/ disk \in Text
    /\ loaded = Gone \/ loaded \in Text
    /\ drafts \in BOOLEAN
    /\ draft = NoDraft \/ draft \in Text
    /\ draft # NoDraft => drafts
    /\ tab \in [Tab -> View]
    /\ history \in Text /\ owed \in Text /\ replaced \in Text
    /\ edits \in 0 .. MaxEdits
    /\ deletes \in 0 .. MaxDeletes

Init ==
    /\ drafts \in BOOLEAN
    /\ disk = {} /\ loaded = {}
    /\ draft = NoDraft
    /\ tab = [t \in Tab |-> Showing("nothing")]
    /\ history = {} /\ owed = {} /\ replaced = {}
    /\ edits = 0 /\ deletes = 0

DraftText == IF draft = NoDraft THEN {} ELSE draft

NewEdit ==
    /\ edits < MaxEdits
    /\ edits' = edits + 1

-----------------------------------------------------------------------------
(* GET of the editor *)

\* edit_form: the draft when there is one, else the page; the base is the
\* page as it is now, whatever page the draft was written against.
EditForm(d) ==
    [shows   |-> "form",
     body    |-> IF d = NoDraft THEN loaded ELSE d,
     base    |-> loaded,
     resumed |-> d # NoDraft,
     told    |-> d # NoDraft]

\* A draft that cannot be read counts as none.
DraftsRead == {draft} \cup (IF ReadsFail THEN {NoDraft} ELSE {})

Open(t) ==
    /\ ~HasForm(t) /\ ~Awaits(t)
    /\ loaded # Gone
    /\ \E d \in DraftsRead : tab' = [tab EXCEPT ![t] = EditForm(d)]
    /\ UNCHANGED <<drafts, disk, loaded, draft, history, owed, replaced, edits, deletes>>

\* The GET that follows a redirect, on the page and the draft of then.
Follow(t) ==
    /\ Awaits(t)
    /\ \E d \in DraftsRead :
          tab' = [tab EXCEPT ![t] = IF loaded = Gone THEN Showing("notfound") ELSE EditForm(d)]
    /\ UNCHANGED <<drafts, disk, loaded, draft, history, owed, replaced, edits, deletes>>

\* The user types.
Type(t) ==
    /\ HasForm(t)
    /\ NewEdit
    /\ tab' = [tab EXCEPT ![t].body = @ \cup {edits + 1}]
    /\ UNCHANGED <<drafts, disk, loaded, draft, history, owed, replaced, deletes>>

Close(t) ==
    /\ HasForm(t) \/ Awaits(t)
    /\ tab' = [tab EXCEPT ![t] = Showing("nothing")]
    /\ UNCHANGED <<drafts, disk, loaded, draft, history, owed, replaced, edits, deletes>>

-----------------------------------------------------------------------------
(* post_edit *)

\* read_page finds no such page: the answer is the not-found page, without a
\* form, whatever the action.
PostNotFound(t) ==
    /\ HasForm(t) /\ loaded = Gone
    /\ tab' = [tab EXCEPT ![t] = Showing("notfound")]
    /\ UNCHANGED <<drafts, disk, loaded, draft, history, owed, replaced, edits, deletes>>

\* The same text with the base it came with, no longer as a draft.
SameText(t) == tab' = [tab EXCEPT ![t].resumed = FALSE]

\* Preview; and editor_error where nothing was written: drafts unavailable, the
\* draft not written or not removed, a Save that failed before it wrote.
Preview(t) ==
    /\ HasForm(t) /\ loaded # Gone
    /\ SameText(t)
    /\ UNCHANGED <<drafts, disk, loaded, draft, history, owed, replaced, edits, deletes>>

\* The page has one draft; what it holds goes, read or not.
Replaces(t) == replaced' = replaced \cup (DraftText \ tab[t].body)

\* The text is kept as the page's draft, and the answer says so.
Keeps(t) ==
    /\ drafts
    /\ draft' = tab[t].body
    /\ Replaces(t)
    /\ owed' = owed \cup tab[t].body

\* Save-draft: no staleness test; 303 back to the editor.
SaveDraft(t) ==
    /\ HasForm(t) /\ loaded # Gone
    /\ Keeps(t)
    /\ tab' = [tab EXCEPT ![t] = SentOn(tab[t].body)]
    /\ UNCHANGED <<drafts, disk, loaded, history, edits, deletes>>

\* Discard-draft, on a form that resumed one: the user's own decision about
\* the text in front of him, whatever the draft file holds by now; 303.
DiscardDraft(t) ==
    /\ HasForm(t) /\ tab[t].resumed /\ loaded # Gone
    /\ draft' = NoDraft
    /\ owed' = owed \ tab[t].body
    /\ Replaces(t)
    /\ tab' = [tab EXCEPT ![t] = SentOn({})]
    /\ UNCHANGED <<drafts, disk, loaded, history, edits, deletes>>

\* update_page_with_tags over the loaded copy.
Written(t) ==
    /\ disk' = tab[t].body
    /\ loaded' = tab[t].body
    /\ history' = history \cup tab[t].body
    /\ UNCHANGED <<drafts, owed, edits, deletes>>

\* The draft is superseded, if it can be removed; 303 to the page.
Saved(t) ==
    /\ Written(t)
    /\ \/ draft' = NoDraft /\ Replaces(t)
       \/ UNCHANGED <<draft, replaced>>
    /\ tab' = [tab EXCEPT ![t] = Showing("page")]

\* editor_error after the page was written: a later step, the sidebar or the
\* commit, failed.
SavedInPart(t) ==
    /\ Written(t)
    /\ SameText(t)
    /\ UNCHANGED <<draft, replaced>>

\* Mutant: the base is not looked at, only the store's fingerprint.
SaveUnlessStale(t) ==
    /\ HasForm(t) /\ loaded # Gone
    /\ disk = loaded
    /\ Saved(t) \/ SavedInPart(t)

Save(t) ==
    /\ HasForm(t) /\ loaded # Gone
    /\ tab[t].base = loaded
    /\ disk = loaded
    /\ Saved(t) \/ SavedInPart(t)

Refused(t) ==
    [tab[t] EXCEPT !.base = loaded, !.resumed = FALSE,
                   !.told = @ \/ tab[t].base # loaded]

\* Mutants: the refused text is not kept; the form shows the page's text; a
\* draft is kept in a directory that could not be resolved.
RefuseWithoutDraft(t) ==
    /\ HasForm(t) /\ loaded # Gone
    /\ tab' = [tab EXCEPT ![t] = Refused(t)]
    /\ owed' = IF drafts THEN owed \cup tab[t].body ELSE owed
    /\ UNCHANGED <<drafts, disk, loaded, draft, history, replaced, edits, deletes>>

RefuseWithPageText(t) ==
    /\ HasForm(t) /\ loaded # Gone
    /\ tab' = [tab EXCEPT ![t] = [Refused(t) EXCEPT !.body = loaded]]
    /\ UNCHANGED <<drafts, disk, loaded, draft, history, owed, replaced, edits, deletes>>

RefuseAlwaysDraft(t) ==
    /\ HasForm(t) /\ loaded # Gone
    /\ tab' = [tab EXCEPT ![t] = Refused(t)]
    /\ draft' = tab[t].body
    /\ UNCHANGED <<drafts, disk, loaded, history, owed, replaced, edits, deletes>>

\* stale_conflict: the base is old, the file changed under the store, or the
\* clone must not be committed to (at any time).  409 with the text in the
\* form, the base of the page as it is now, and the text kept as a draft when
\* one can be written.
RefuseSave(t) ==
    /\ HasForm(t) /\ loaded # Gone
    /\ tab' = [tab EXCEPT ![t] = Refused(t)]
    /\ Keeps(t) \/ UNCHANGED <<draft, replaced, owed>>
    /\ UNCHANGED <<drafts, disk, loaded, history, edits, deletes>>

-----------------------------------------------------------------------------
(* post_delete, post_reload, and the world outside *)

\* The confirmation page carries no base.  The user gives up page and draft;
\* the draft stays if it cannot be removed, or if a step that follows the
\* removal of the page fails (delete_confirm with the error).
Delete ==
    /\ loaded # Gone /\ disk = loaded
    /\ deletes < MaxDeletes
    /\ deletes' = deletes + 1
    /\ disk' = Gone /\ loaded' = Gone
    /\ \/ draft' = NoDraft /\ owed' = owed \ DraftText
       \/ UNCHANGED <<draft, owed>>
    /\ UNCHANGED <<drafts, tab, history, replaced, edits>>

\* Reload from disk, a restart of the server, or a sync that brought commits.
Reload ==
    /\ loaded # disk
    /\ loaded' = disk
    /\ UNCHANGED <<drafts, disk, draft, tab, history, owed, replaced, edits, deletes>>

\* Another program, or another clone, adds to the page.
OutsideEdit ==
    /\ disk # Gone
    /\ NewEdit
    /\ disk' = disk \cup {edits + 1}
    /\ history' = history \cup disk'
    /\ UNCHANGED <<drafts, loaded, draft, tab, owed, replaced, deletes>>

Next ==
    \/ \E t \in Tab :
          \/ Open(t) \/ Follow(t) \/ Type(t) \/ Close(t) \/ Preview(t)
          \/ PostNotFound(t) \/ SaveDraft(t) \/ DiscardDraft(t) \/ Save(t) \/ RefuseSave(t)
    \/ Delete \/ Reload \/ OutsideEdit

Spec == Init /\ [][Next]_vars

-----------------------------------------------------------------------------
(* Properties *)

\* An edit leaves the page only by a Save, answered as one or not, whose form
\* had said that the page changed after it was opened, or that its text is a
\* draft: two editors in sequence never silently clobber each other (editor.rs,
\* the two staleness layers).  A draft carries no base of its own.
NoSilentClobber ==
    [][disk # Gone /\ disk' # Gone /\ ~(disk \subseteq disk')
          => \E t \in Tab : HasForm(t) /\ tab[t].told /\ disk' = tab[t].body]_vars

\* The text of a refused Save, or of a draft that was saved, is in a saved
\* version or in the draft until its user discards it, or a form without it
\* takes it from the page's only draft (editor.rs, stale_conflict, save-draft).
RefusedTextStays == owed \subseteq history \cup DraftText \cup replaced

\* The same without that exception, with the screens: "even a closed tab
\* loses nothing" (editor.rs, module documentation).
ClosedTabLosesNothing ==
    owed \subseteq history \cup DraftText \cup UNION {tab[t].body : t \in Tab}

\* No answer takes typed text off the screen (editor.rs, module documentation),
\* over a redirect and the form that follows it, except when
\*  - its user closes the tab or discards the text, or it is saved;
\*  - the page is gone: post_edit and edit_form then show no form;
\*  - between "draft saved" and the form, another tab's request saved it,
\*    discarded it or took the page's only draft for a text without it;
\*  - that form could not read the draft.
ErrorKeepsText ==
    [][\A t \in Tab :
          (HasForm(t) \/ Awaits(t)) /\ ~(tab[t].body \subseteq tab'[t].body)
             => \/ Close(t) \/ DiscardDraft(t)
                \/ tab[t].body \subseteq history'
                \/ loaded = Gone /\ tab'[t].shows = "notfound"
                \/ /\ Awaits(t) /\ ~(tab[t].body \subseteq DraftText)
                   /\ (tab[t].body \ DraftText) \cap owed \subseteq history \cup replaced
                \/ Awaits(t) /\ draft # NoDraft /\ ~tab'[t].resumed]_vars
=============================================================================
