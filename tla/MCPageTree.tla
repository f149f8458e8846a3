----------------------------- MODULE MCPageTree ------------------------------
EXTENDS PageTree
=============================================================================
