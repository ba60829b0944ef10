------------------------------- MODULE MCPipe -------------------------------
(* Small instances of Pipe for TLC.                                        *)
EXTENDS Pipe, TLC

CONSTANTS p1, p2, p3

MCProcs == {p1, p2, p3}

\* A writer, a reader, and a process that kept both ends.
Shared == (p1 :> {"w"}) @@ (p2 :> {"r", "w"}) @@ (p3 :> {"r"})

=============================================================================
