---------------------------- MODULE MCTcpStream ----------------------------
(* TcpStream on a connection of a few segments. *)
EXTENDS TcpStream

\* Delivered says nothing once the window has seemed to shrink; from there on
\* one packet at a time is followed.
Followed == shrunk => Cardinality(toR) + Cardinality(toS) <= 1
=============================================================================
