-------------------------------- MODULE MCSaga --------------------------------
EXTENDS Saga, TLC

\* Goroutines that call the manager are interchangeable.
Symm == Permutations(Threads)
==============================================================================
