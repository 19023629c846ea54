--------------------------- MODULE MCSummaryCopies ---------------------------
EXTENDS SummaryCopies, TLC

\* Threads are interchangeable, and hotels are: TLC may identify states that differ by
\* renaming them.
Symm == Permutations(Threads) \cup Permutations(Hotels)
=============================================================================
