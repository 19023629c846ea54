-------------------------- MODULE MCProcessingEngine --------------------------
EXTENDS ProcessingEngine, TLC

\* Clients and job ids are interchangeable; TLC may identify states that differ
\* by renaming them.  Used for safety runs only.
Symm == Permutations(Clients) \cup Permutations(Jobs)
==============================================================================
