------------------------------- MODULE Server -------------------------------
(***************************************************************************)
(* The editor's HTTP server (berrywiki-serve): one thread that takes       *)
(* connections one at a time, the screening of a request's head and the    *)
(* deadline on reading it (guard.rs), and the handlers that create,        *)
(* delete, move and reload pages and attach files (editor.rs, attach.rs),  *)
(* each on the tree as the store loaded it.                                *)
(*                                                                         *)
(* Browsers hold forms that were rendered earlier, the owner of the wiki   *)
(* changes its files by hand meanwhile, and a client may send slowly, stop *)
(* sending, or never see the answer.  Names, bodies and links of pages are *)
(* LocalStore's; saving a page's text is Editor's.                         *)
(***************************************************************************)
EXTENDS Integers, FiniteSets, Sequences, Functions, TLC

CONSTANTS
    Client,
    NoClient,
    Slow,         \* clients and kinds of request that come in pieces
    Page,         \* every page there may be
    NoPage,       \* no parent: the top level
    Unmanaged,    \* pages without a metadata block
    FirstTree,    \* the tree the server opens
    MaxPosition,  \* the last position; i64::MAX in the code
    HeadsOf(_, _),\* the heads a client sends with a kind of request
    Typed,        \* positions typed in a move form; -1 is no whole number
    Upload,       \* the files it tries to attach
    MaxAttachment,\* file bytes allowed, and the envelope around them
    MaxEnvelope,
    Deadline,     \* seconds for a whole connection, and for one read
    PerRead,
    Targets,      \* bound: pages that requests name
    ByHand,       \* bound: pages whose file is changed by hand
    MaxRequests,  \* bound: requests sent
    MaxEdits      \* bound: changes by hand

Place == [parent : Page \cup {NoPage}, at : 0 .. MaxPosition]

ASSUME ServerAssumption ==
    /\ Slow \subseteq Client \X {"form", "view", "new", "move", "delete", "attach",
                              "reload", "other"}
    /\ NoClient \notin Client
    /\ IsFiniteSet(Page) /\ NoPage \notin Page
    /\ Typed \subseteq 0 .. MaxPosition \cup {-1}
    /\ Deadline \in Nat \ {0} /\ PerRead \in Nat \ {0}
    /\ \A p \in DOMAIN FirstTree : p \in Page /\ FirstTree[p] \in Place

VARIABLES
    disk,      \* the page files: where each existing page says it is
    loaded,    \* the same, as of the store's last load
    touched,   \* pages whose file changed by hand since
    files,     \* attachments: pairs of a page and a name
    editing,   \* the editor, or the read-only mirror
    screen,    \* per client: the move form on its screen, if any
    request,   \* per client: what it is asking
    sent,      \* per client: pieces of the request that have arrived
    closed,    \* per client: it will send no more
    queue,     \* connections waiting to be accepted
    serving,   \* the connection the thread is reading
    got,       \* pieces of it that were read
    left,      \* seconds until its deadline
    waited,    \* seconds the current read has blocked
    spent      \* counters of the bounded steps

conn  == <<request, sent, closed, queue, serving, got, left, waited>>
store == <<disk, loaded, touched, files>>
vars  == <<store, editing, screen, conn, spent>>

NoForm == [page |-> NoPage]
NoRequest == [kind |-> "none"]

-----------------------------------------------------------------------------
(* The tree as the graph shows it *)

\* The n-th ancestor of p; a parent that does not exist ends the line there.
Ancestor(t, p, n) ==
    LET up[k \in 0 .. n] == IF k = 0 THEN p
                            ELSE IF up[k - 1] \in DOMAIN t THEN t[up[k - 1]].parent
                            ELSE NoPage
    IN up[n]

Loops(t, p) == Ancestor(t, p, Cardinality(Page) + 1) # NoPage
Line(t, p)  == {Ancestor(t, p, n) : n \in 0 .. Cardinality(Page)} \ {NoPage}

ChildrenOf(t, p) == {c \in DOMAIN t : /\ t[c].parent = p /\ p \in DOMAIN t
                                      /\ ~Loops(t, c)}
Roots(t) == {c \in DOMAIN t : t[c].parent \notin DOMAIN t \/ Loops(t, c)}
Subtree(t, p) == {c \in DOMAIN t : ~Loops(t, c) /\ p \in Line(t, c)} \cup {p}

Managed(t) == DOMAIN t \ Unmanaged
CheckParent(t, q) == q = NoPage \/ q \in Managed(t)

\* is_ancestor; a runaway ancestry counts as one.
IsAncestor(p, c) == c \in Line(loaded, p) \/ Loops(loaded, p)

\* Mutant: cycles are left to the form, which offers no page of the subtree.
MakesCycleByForm(p, q) == p = q

MakesCycle(p, q) == p = q \/ (q # NoPage /\ IsAncestor(q, p))

CheckNotStale(S) == S \cap touched = {}

\* next_position: after the last sibling, saturating.
NextPosition(q) ==
    LET siblings == IF q = NoPage THEN Roots(loaded) ELSE ChildrenOf(loaded, q)
        taken    == {loaded[s].at : s \in siblings}
        last     == CHOOSE n \in taken : \A m \in taken : m <= n
    IN  IF taken = {} THEN 0 ELSE IF last = MaxPosition THEN last ELSE last + 1

\* What render_move puts in a move form: where the page is, and every managed
\* page outside its own subtree.
MoveForm(t, p) ==
    [page |-> p, from |-> t[p],
     offered |-> (Managed(t) \ Subtree(t, p)) \cup {NoPage}]

-----------------------------------------------------------------------------
(* Clients *)

\* Each client may have opened the form of some page before.
Init ==
    /\ disk = FirstTree /\ loaded = FirstTree
    /\ touched = {} /\ files = {}
    /\ editing \in BOOLEAN
    /\ screen \in [Client -> {NoForm} \cup
                             {MoveForm(FirstTree, p) : p \in Managed(FirstTree)}]
    /\ editing \/ \A c \in Client : screen[c] = NoForm
    /\ request = [c \in Client |-> NoRequest]
    /\ sent = [c \in Client |-> 0]
    /\ closed = [c \in Client |-> FALSE]
    /\ queue = <<>> /\ serving = NoClient
    /\ got = 0 /\ left = 0 /\ waited = 0
    /\ spent = [requests |-> 0, edits |-> 0]

Connected(c) == request[c] # NoRequest
SlowNow(c) == <<c, request[c].kind>> \in Slow

HasBody(r) == r.kind \in {"new", "move", "reload", "attach"}

\* Request line and Host; the other headers; the body.
Pieces(r) == IF HasBody(r) THEN 3 ELSE 2

\* A client opens a connection and asks for r.  A bound: behind a connection
\* that is not slow no other waits, since what the other asks depends on its
\* own screen only and would be handled after it all the same.
Ask(c, r) ==
    /\ ~Connected(c) /\ spent.requests < MaxRequests
    /\ \A d \in Client : Connected(d) => SlowNow(d)
    /\ \E h \in HeadsOf(c, r.kind) : request' = [request EXCEPT ![c] = [head |-> h] @@ r]
    /\ sent' = [sent EXCEPT ![c] = IF <<c, r.kind>> \in Slow THEN 0 ELSE Pieces(r)]
    /\ closed' = [closed EXCEPT ![c] = FALSE]
    /\ queue' = Append(queue, c)
    /\ spent' = [spent EXCEPT !.requests = @ + 1]
    /\ UNCHANGED <<store, editing, screen, serving, got, left, waited>>

\* GET: a page's move form, or any other page.
Open(c) ==
    \/ \E p \in Targets : Ask(c, [kind |-> "form", page |-> p])
    \/ Ask(c, [kind |-> "view"])

\* The move form on the screen, filled in; the position is typed by hand.
SubmitMove(c) ==
    /\ screen[c] # NoForm
    /\ \E q \in screen[c].offered, n \in Typed,
          action \in {"preview", "move"} :
          Ask(c, [kind |-> "move", page |-> screen[c].page, from |-> screen[c].from,
                  to |-> [parent |-> q, at |-> n], action |-> action])

\* The other forms.
SubmitOther(c) ==
    \/ \E q \in Targets \cup {NoPage} :
          Ask(c, [kind |-> "new", parent |-> q, titled |-> TRUE])
    \/ Ask(c, [kind |-> "new", parent |-> NoPage, titled |-> FALSE])
    \/ \E p \in Targets : Ask(c, [kind |-> "delete", page |-> p])
    \/ \E p \in Targets, u \in Upload : Ask(c, [kind |-> "attach", page |-> p, upload |-> u])
    \/ Ask(c, [kind |-> "reload"])
    \/ Ask(c, [kind |-> "other"])

\* A slow client's next piece arrives.
Send(c) ==
    /\ Connected(c) /\ ~closed[c] /\ sent[c] < Pieces(request[c])
    /\ sent' = [sent EXCEPT ![c] = @ + 1]
    /\ UNCHANGED <<store, editing, screen, request, closed, queue, serving,
                   got, left, waited, spent>>

\* It breaks off.
Close(c) ==
    /\ Connected(c) /\ ~closed[c] /\ sent[c] < Pieces(request[c])
    /\ closed' = [closed EXCEPT ![c] = TRUE]
    /\ UNCHANGED <<store, editing, screen, request, sent, queue, serving,
                   got, left, waited, spent>>

\* The owner moves or removes a page file by hand.
EditByHand ==
    /\ spent.edits < MaxEdits
    /\ \E p \in DOMAIN disk \cap ByHand :
          /\ \/ \E q \in Targets \cup {NoPage} :
                   /\ p \notin Unmanaged /\ disk[p].parent # q
                   /\ disk' = [disk EXCEPT ![p].parent = q]
             \/ disk' = Restrict(disk, DOMAIN disk \ {p})
          /\ touched' = touched \cup {p}
    /\ spent' = [spent EXCEPT !.edits = @ + 1]
    /\ UNCHANGED <<loaded, files, editing, screen, conn>>

-----------------------------------------------------------------------------
(* Reading a request *)

\* serve_listener: the next connection; its deadline starts now.
Accept ==
    /\ serving = NoClient /\ queue # <<>>
    /\ serving' = Head(queue) /\ queue' = Tail(queue)
    /\ left' = Deadline /\ waited' = 0 /\ got' = 0
    /\ UNCHANGED <<store, editing, screen, request, sent, closed, spent>>

\* Mutant: only the time of each read is bounded.
LatePerRead == FALSE

\* DeadlineReader::read refuses once nothing is left of the connection's time.
Late == left = 0

Reading == serving # NoClient
More    == sent[serving] > got
Ended   == closed[serving] /\ ~More

\* Whatever has arrived, or comes while the read blocks, is buffered.
ReadPieces ==
    /\ Reading /\ More /\ ~Late
    /\ got' = sent[serving] /\ waited' = 0
    /\ UNCHANGED <<store, editing, screen, request, sent, closed, queue, serving,
                   left, spent>>

Blocked == /\ Reading /\ ~More /\ ~Ended /\ got < Pieces(request[serving])
TimedOut == waited = PerRead \/ Late

Tick ==
    /\ Blocked /\ ~TimedOut
    /\ waited' = waited + 1 /\ left' = IF left = 0 THEN 0 ELSE left - 1
    /\ UNCHANGED <<store, editing, screen, request, sent, closed, queue, serving,
                   got, spent>>

\* A byte that completes nothing: the read returns and the next one starts.
Drip ==
    /\ Blocked /\ waited > 0 /\ ~Late
    /\ waited' = 0
    /\ UNCHANGED <<store, editing, screen, request, sent, closed, queue, serving,
                   got, left, spent>>

\* The connection is over, whatever the client made of it.
Hang ==
    /\ request' = [request EXCEPT ![serving] = NoRequest]
    /\ sent' = [sent EXCEPT ![serving] = 0]
    /\ closed' = [closed EXCEPT ![serving] = FALSE]
    /\ serving' = NoClient /\ got' = 0 /\ left' = 0 /\ waited' = 0
    /\ UNCHANGED <<queue, editing, spent>>

\* write_response shows the client this form, if any; it may never get there.
Answer(form) ==
    /\ \/ screen' = [screen EXCEPT ![serving] = form]
       \/ UNCHANGED screen
    /\ Hang

\* Nothing is answered: the time is over, or the client stopped before the
\* end of the request line or of a body.
Drop ==
    /\ Reading
    /\ \/ Blocked /\ TimedOut
       \/ More /\ Late
       \/ Ended /\ (got = 0 \/ (got = 2 /\ Pieces(request[serving]) = 3))
    /\ Hang /\ UNCHANGED <<store, screen>>

-----------------------------------------------------------------------------
(* Screening the head *)

\* read_head stops at the blank line, or where the connection ended between
\* two lines; the headers that were not read are then absent.
HeadRead == Reading /\ (got >= 2 \/ (got = 1 /\ Ended))
TheHead  == LET h == request[serving].head
            IN  IF got = 1 THEN [h EXCEPT !.origin = "absent", !.site = "absent",
                                          !.length = "none"]
                ELSE h
Reads    == {"form", "view"}

\* refuse: who may talk to this server.
Refused ==
    \/ TheHead.host # "own"
    \/ /\ request[serving].kind \notin Reads
       /\ \/ TheHead.origin = "foreign"
          \/ TheHead.site = "cross"

\* 431, 400, 403 or, when the body announced is over MAX_BODY, 413; the
\* read-only mirror answers any other method with 405.
Refuse ==
    /\ \/ Reading /\ got >= 1 /\ request[serving].head.long
       \/ /\ HeadRead
          /\ \/ Refused
             \/ editing /\ TheHead.length = "over"
             \/ ~editing /\ request[serving].kind \notin Reads
    /\ Answer(NoForm) /\ UNCHANGED store

\* The request is handed to its handler: its body, if it announced one, was
\* read to the last byte (read_exact).
Dispatched(kind) ==
    /\ HeadRead /\ request[serving].kind = kind
    /\ ~request[serving].head.long /\ ~Refused
    /\ TheHead.length # "over" \/ ~editing
    /\ got \in {1, Pieces(request[serving])}
    /\ kind \in Reads \/ editing

\* A head that broke off carries no Content-Length, so the form is empty.
NoFields == got = 1

-----------------------------------------------------------------------------
(* Handlers *)

\* Every store operation ends by loading the folder again.
Reloaded(d) == disk' = d /\ loaded' = d /\ touched' = {} /\ UNCHANGED files

\* handle_get and dispatch.
Get ==
    /\ \/ Dispatched("view") /\ Answer(NoForm)
       \/ /\ Dispatched("form")
          /\ LET p == request[serving].page IN
             Answer(IF editing /\ p \in Managed(loaded) THEN MoveForm(loaded, p)
                    ELSE NoForm)
    /\ UNCHANGED store

\* handle: any other method, and a path no handler has.
NotAllowed == Dispatched("other") /\ Answer(NoForm) /\ UNCHANGED store

\* The files with the metadata of p written, whether it has a file yet or not.
Placed(t, p, place) ==
    [x \in DOMAIN t \cup {p} |-> IF x = p THEN place ELSE t[x]]

\* post_new and create_page.  A refused form is shown again, but it is no
\* move form.
PostNew ==
    /\ Dispatched("new")
    /\ LET q == request[serving].parent
           unused == Page \ (DOMAIN disk \cup DOMAIN loaded)
           creatable == /\ request[serving].titled /\ ~NoFields
                        /\ CheckParent(loaded, q)
                        /\ Line(loaded, q) \subseteq DOMAIN loaded
                        /\ ~Loops(loaded, q)
                        /\ unused # {} \* a bound: ids never run out
       IN  IF creatable
           THEN \E p \in unused :
                    Reloaded(Placed(disk, p, [parent |-> q, at |-> NextPosition(q)]))
           ELSE UNCHANGED store
    /\ Answer(NoForm)

\* post_delete and delete_page; the request carries no form.
PostDelete ==
    /\ Dispatched("delete")
    /\ LET p == request[serving].page
           deletable == /\ p \in DOMAIN loaded
                        /\ ChildrenOf(loaded, p) = {}
                        /\ CheckNotStale({p})
       IN  IF deletable THEN Reloaded(Restrict(disk, DOMAIN disk \ {p}))
           ELSE UNCHANGED store
    /\ Answer(NoForm)

\* Mutant: the hidden fields of the form are not compared.
StartsWhereTheFormSaysUnchecked(p) == TRUE

\* post_move: from_parent and from_position against where the page is.
StartsWhereTheFormSays(p) ==
    ~NoFields /\ request[serving].from = loaded[p]

\* plan_move, as far as it may refuse: names and links are LocalStore's.
PlanMove(p, to) ==
    /\ CheckParent(loaded, to.parent)
    /\ ~MakesCycle(p, to.parent)
    /\ CheckNotStale(Subtree(loaded, p))

\* post_move.  Every refusal, and a preview, shows the form again with the
\* page's present place in it; a move answers with the page.
PostMove ==
    /\ Dispatched("move")
    /\ LET r == request[serving]
           p == r.page
           movable == /\ StartsWhereTheFormSays(p)
                      /\ r.to.at # -1
                      /\ PlanMove(p, r.to)
       IN  \/ /\ p \notin Managed(loaded)
              /\ Answer(NoForm) /\ UNCHANGED store
           \/ /\ p \in Managed(loaded) /\ ~(movable /\ r.action = "move")
              /\ Answer(MoveForm(loaded, p)) /\ UNCHANGED store
           \/ /\ p \in Managed(loaded) /\ movable /\ r.action = "move"
              /\ Reloaded(Placed(disk, p, r.to))
              /\ Answer(NoForm)

\* post_reload
PostReload ==
    /\ Dispatched("reload")
    /\ Reloaded(disk) /\ Answer(NoForm)

\* parse_upload keeps the parts with a file name, and wants exactly one.
ParsedUpload(u) == IF u.multipart THEN SelectSeq(u.names, LAMBDA n : n # "") ELSE <<>>

\* add_attachment: a managed page, and a name it has not got.
CanAddAttachment(p, name) == p \in Managed(loaded) /\ <<p, name>> \notin files

\* post_attach: the whole upload, then the file in it, within its cap; a kind
\* that is allowed.
PostAttach ==
    /\ Dispatched("attach")
    /\ LET p == request[serving].page
           u == request[serving].upload
           named == ParsedUpload(u)
           stored == /\ ~NoFields
                     /\ u.size + u.envelope <= MaxAttachment + MaxEnvelope
                     /\ Len(named) = 1
                     /\ u.size <= MaxAttachment
                     /\ u.kind = "allowed"
                     /\ CanAddAttachment(p, named[1])
       IN  files' = IF stored THEN files \cup {<<p, named[1]>>} ELSE files
    /\ Answer(NoForm) /\ UNCHANGED <<disk, loaded, touched>>

Handle == \/ Get \/ NotAllowed \/ PostNew \/ PostDelete \/ PostMove
          \/ PostReload \/ PostAttach

Serve == Accept \/ ReadPieces \/ Drop \/ Refuse \/ Handle

Next ==
    \/ \E c \in Client : Open(c) \/ SubmitMove(c) \/ SubmitOther(c) \/ Send(c) \/ Close(c)
    \/ EditByHand
    \/ Serve
    \/ Tick
    \/ Drip

\* The thread runs, and time passes.  Nothing is asked of clients.
Spec == Init /\ [][Next]_vars /\ WF_vars(Serve) /\ WF_vars(Tick)

-----------------------------------------------------------------------------
(* Properties *)

\* However a client paces its bytes, its connection ends, and so does every
\* connection waiting behind it: the thread is never held for good.
EveryConnectionEnds == \A c \in Client : Connected(c) ~> ~Connected(c)

\* The step that applies client c's move of page p.
Moves(c, p) ==
    /\ serving = c /\ request[c].kind = "move" /\ request[c].page = p
    /\ p \in DOMAIN disk /\ disk' # disk /\ ~Connected(c)'

\* A move starts from where the user who confirmed it last saw the page:
\* never from a place another tab, or the owner by hand, gave it since.
MoveFromWhatWasSeen ==
    [][\A c \in Client, p \in Page : Moves(c, p) => disk[p] = request[c].from]_vars

IsForest(t) == \A p \in DOMAIN t : ~Loops(t, p) /\ CheckParent(t, t[p].parent)

\* No request makes a cycle, an orphan or a child of an unmanaged page out of
\* a sound tree, however old the form it was sent from: a step from a folder
\* the store has seen whole to another leaves a forest a forest.
FormsKeepTheForest ==
    [][disk = loaded /\ disk' = loaded' /\ IsForest(disk) => IsForest(disk')]_vars

-----------------------------------------------------------------------------
(* The inductive invariant *)

\* What the store loaded is what is on disk, but for the files that changed by
\* hand since.
OnlyTouchedDiffer ==
    \A p \in Page \ touched :
        /\ p \in DOMAIN disk <=> p \in DOMAIN loaded
        /\ p \in DOMAIN disk => disk[p] = loaded[p]

\* Every page there is is one of the pages there may be.
PagesAreKnown == DOMAIN disk \subseteq Page /\ DOMAIN loaded \subseteq Page
=============================================================================
