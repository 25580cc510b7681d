------------------------------ MODULE MCVolumes ------------------------------
EXTENDS VolumeStore, TLC

CONSTANTS c1, c2, u, anon

\* c1 has a named and an anonymous volume; c2 has the named one, or both of them from c1
MCMounts == c1 :> {u, anon} @@ c2 :> {u}
MCFrom   == c1 :> {} @@ c2 :> {u, anon}
=============================================================================
