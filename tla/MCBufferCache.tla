--------------------------- MODULE MCBufferCache ----------------------------
EXTENDS BufferCache, TLC

Symmetry == Permutations(Procs) \cup Permutations(Bufs) \cup Permutations(Contents)

=============================================================================
