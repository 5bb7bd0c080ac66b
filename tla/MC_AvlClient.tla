---------------------------- MODULE MC_AvlClient ----------------------------
EXTENDS AvlClient

\* Eight keys: the smallest tree in which a deletion meets a sibling with
\* equal-height grandchildren one level down has eight nodes.
MCKeys == 1..8

=============================================================================
