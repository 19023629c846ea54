----------------------------- MODULE MCAccounts -----------------------------
EXTENDS Accounts, TLC

Symm == Permutations(Threads) \cup Permutations(Addresses) \cup Permutations(Sessions)
=============================================================================
