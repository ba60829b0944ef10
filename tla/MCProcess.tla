----------------------------- MODULE MCProcess -----------------------------
(* Process on three tasks below init. *)
EXTENDS Process, TLC

Symmetry == Permutations(Slots \ Root)

\* The behaviours that matter end where a task in hand is attached to.
NotSnatched == ~snatched
=============================================================================
