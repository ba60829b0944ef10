------------------------------- MODULE MCFifo -------------------------------
(* Small instances of Fifo for TLC.                                        *)
EXTENDS Fifo, TLC

CONSTANTS p1, p2, p3

MCProcs2 == {p1, p2}
MCProcs3 == {p1, p2, p3}

\* Every process opens the FIFO in every mode.
AllModes == [p \in MCProcs2 |-> 1 .. 3]

\* A reader, a writer, and a process that takes either side or both.
OneEach == (p1 :> {1}) @@ (p2 :> {2}) @@ (p3 :> {1, 2, 3})

=============================================================================
