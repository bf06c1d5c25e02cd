-------------------------- MODULE MCAccountTokens --------------------------
EXTENDS AccountTokens, TLC

\* Requests are interchangeable; tokens are not, they are numbered.
Symmetry == Permutations(Requests)
=============================================================================
