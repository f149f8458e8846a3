----------------------------- MODULE WikiHistory -----------------------------
(***************************************************************************)
(* What the sync layer promises about history, without saying how:         *)
(* three sets of commits - the clone's branch, what the clone last saw of  *)
(* the remote, and the remote itself - that only ever grow, the remote     *)
(* only by work that extends it, and nothing enters the branch except new  *)
(* work and what was seen on the remote.  (docs/decisions/0010, INV-4.)    *)
(***************************************************************************)
VARIABLES local, seen, remote

vars == <<local, seen, remote>>

Init ==
    /\ local = seen
    /\ seen = remote

\* One commit that exists nowhere yet joins the history h.
OneNew(h, grown) ==
    \E c \in grown \ (local \cup remote) : grown = h \cup {c}

\* A save or a checkpoint.
Record ==
    /\ OneNew(local, local')
    /\ UNCHANGED <<seen, remote>>

\* A merge keeps both sides and adds the commit that joins them.
Join ==
    /\ OneNew(local \cup seen, local')
    /\ UNCHANGED <<seen, remote>>

\* Fetch.
Look ==
    /\ seen' = remote
    /\ UNCHANGED <<local, remote>>

\* Fast-forward: allowed only when nothing local would be left behind.
Integrate ==
    /\ local \subseteq seen
    /\ local' = seen
    /\ UNCHANGED <<seen, remote>>

\* Push: allowed only when nothing on the remote would be left behind.
Publish ==
    /\ remote \subseteq local
    /\ remote' = local
    /\ seen' = local
    /\ UNCHANGED local

\* Somebody else pushes.
Elsewhere ==
    /\ OneNew(remote, remote')
    /\ UNCHANGED <<local, seen>>

Next == Record \/ Join \/ Look \/ Integrate \/ Publish \/ Elsewhere

Spec == Init /\ [][Next]_vars
=============================================================================
