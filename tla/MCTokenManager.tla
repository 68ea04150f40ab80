--------------------------- MODULE MCTokenManager ---------------------------
\* TLC instance of TokenManager for its safety properties and its refinement.
EXTENDS TokenManager, TLC

\* Callers are interchangeable, and so are the refreshCall objects.
Symmetry == Permutations(Callers) \cup Permutations(Calls)
=============================================================================
