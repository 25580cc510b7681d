----------------------------- MODULE MCLifecycle -----------------------------
EXTENDS ContainerLifecycle, TLC

Symmetry == Permutations(Clients)
=============================================================================
