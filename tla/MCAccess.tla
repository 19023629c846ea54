------------------------------ MODULE MCAccess ------------------------------
EXTENDS Access, TLC

\* Goroutines are interchangeable, and session ids are.
Symm == Permutations(Servers) \cup Permutations(Ids)
=============================================================================
