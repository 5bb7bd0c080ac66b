-------------------------- MODULE MC_AvlHeapMain ---------------------------
EXTENDS AvlHeapMain

\* The keys main passes, (i*97) % 1024, and the key N it searches for.
MCKeys == 0..1024

\* One address per node main ever holds at once: malloc never fails.
MCAddr == 1..1024

=============================================================================
