------------------------------- MODULE MCBcache -------------------------------
(* Bcache with more sectors than buffers, so that buffers are recycled.        *)
EXTENDS Bcache, TLC

\* Sectors, and processes, are interchangeable.
Symmetry == Permutations(Sector) \cup Permutations(Process)
===============================================================================
