---------------------------- MODULE MCInodeCache ----------------------------
(* Small instances of InodeCache for TLC.                                  *)
EXTENDS InodeCache, TLC

\* Processes, inodes of the table and contents are interchangeable.
Symmetry == Permutations(Procs) \cup Permutations(Slots) \cup Permutations(Contents)
\* All properties are about behaviours up to the first stale lookup.
NotStale == ~stale
=============================================================================
