----------------------------- MODULE MCFileLocks -----------------------------
(* Small instances of FileLocks for TLC.                                   *)
EXTENDS FileLocks

CONSTANTS t1, t2

MCTask == {t1}
MCTasks2 == {t1, t2}

\* Every range that ends before OFFSET_MAX.
Inner == {r \in Bytes \X Bytes : r[2] > 0 /\ r[1] + r[2] - 1 < OFFSET_MAX}

\* Every range, those up to the end of the file (l_len = 0) included.
AllRegions == Bytes \X Bytes

=============================================================================
