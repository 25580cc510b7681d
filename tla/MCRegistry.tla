----------------------------- MODULE MCRegistry -----------------------------
EXTENDS ContainerRegistry, TLC

Symmetry == Permutations(Names) \cup Permutations(Actors)
=============================================================================
