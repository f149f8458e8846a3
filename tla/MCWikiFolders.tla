--------------------------- MODULE MCWikiFolders ---------------------------
EXTENDS WikiFolders, TLC

\* Nothing tells the two places apart.
Symmetry == Permutations(Path)
=============================================================================
