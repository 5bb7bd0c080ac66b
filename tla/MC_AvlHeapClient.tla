------------------------- MODULE MC_AvlHeapClient --------------------------
EXTENDS AvlHeapClient, TLC

\* Four keys and as many addresses for the comparison with AvlClient:
\* every single and double rotation on both sides, and the delete of a node
\* with two children, occur among trees of up to four nodes, and malloc
\* never runs out.
MCKeys == 1..4

\* Six keys on a heap of five nodes for the memory checks: trees of five
\* nodes, and inserts that find the heap full.
MCKeysMemory == 1..6

\* Addresses are interchangeable: malloc may return any free one.
MCSymmetry == Permutations(Addr)

=============================================================================
