----------------------------- MODULE MCSysVSem ------------------------------
(* A small instance of SysVSem for TLC.                                    *)
EXTENDS SysVSem, TLC

Op(n, d, u) == [num |-> n, op |-> d, undo |-> u]

\* Take with undo, the lock made of a wait for 0 and an increment, and a plain
\* increment.
MCSops == {<<Op(0, -1, TRUE)>>, <<Op(0, 0, FALSE), Op(0, 1, TRUE)>>, <<Op(0, 1, FALSE)>>}

\* Not more than one undo entry is in the list of a wrong set.
OneAstray ==
    Cardinality({<<p, u>> \in Procs \X Entry : u \in semun[p] /\ u.on # u.semid}) <= 1

=============================================================================
