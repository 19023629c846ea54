--------------------------- MODULE MCCircuitBreaker ---------------------------
EXTENDS CircuitBreaker, TLC

\* Callers are interchangeable.  Used for safety runs only.
Symm == Permutations(Callers)
==============================================================================
