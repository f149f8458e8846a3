-------------------------- MODULE MCNotebookImport --------------------------
(***************************************************************************)
(* Four contents of a notebook file: a small tree with an attachment; the  *)
(* tree edited (the same nodes under another hash, a node that opens with  *)
(* a heading of its own, and one below it); a tree with an id that occurs  *)
(* twice; and two roots of one title.                                      *)
(***************************************************************************)
EXTENDS NotebookImport, TLC

MCIdOf == [m \in Book \X SourceId |-> 10 * m[1] + m[2]]
MCPageId == {10 * b + s : b \in Book, s \in SourceId}
MCIdTail == [p \in MCPageId |-> 100 + p]

ANode(sid, parent, title, assets) ==
    [sid |-> sid, parent |-> parent, title |-> title, heading |-> NoHeading, assets |-> assets]

Headed(node, heading) == [node EXCEPT !.heading = heading]

MCNodes ==
    [b \in Book |->
        CASE b = 1 -> <<ANode(1, 0, 1, {}), ANode(2, 1, 2, Asset)>>
          [] b = 2 -> <<ANode(1, 0, 1, {}), Headed(ANode(2, 1, 2, {}), 3), ANode(3, 2, 1, {})>>
          [] b = 3 -> <<ANode(1, 0, 1, {}), ANode(1, 0, 2, {}), ANode(2, 1, 3, {})>>
          [] b = 4 -> <<ANode(1, 0, 1, {}), ANode(2, 0, 1, {})>>]

Symmetry == Permutations(Process)
=============================================================================
