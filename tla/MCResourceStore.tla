--------------------------- MODULE MCResourceStore ---------------------------
EXTENDS ResourceStore, TLC

Symmetry == Permutations(Clients) \cup Permutations(Actors)
=============================================================================
