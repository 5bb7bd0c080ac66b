------------------------------- MODULE MC_Efm -------------------------------
EXTENDS Efm

\* Up to four initial tokens in X1: enough for every counter to be non-zero
\* at once while the first transition is still enabled.
MCMaxX1 == 4

=============================================================================
