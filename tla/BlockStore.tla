----------------------------- MODULE BlockStore -----------------------------
(***************************************************************************)
(* What the buffer cache promises to the file systems: a disk whose blocks *)
(* are read and changed at once.  Buffers, requests and the time they take *)
(* do not show.                                                            *)
(***************************************************************************)
CONSTANTS Procs, Blocks, Contents, None

VARIABLES
    content,  \* content[n]: what a process finds in block n
    open      \* open[p]: the block that process p has at hand, or None

vars == <<content, open>>

Init ==
    /\ content \in [Blocks -> Contents]
    /\ open = [p \in Procs |-> None]

\* bread and breada: from now on the process sees the block.
Read(p, n) ==
    /\ open[p] = None
    /\ open' = [open EXCEPT ![p] = n]
    /\ UNCHANGED content

\* Only a process that has the block at hand changes it.
Change(p, c) ==
    /\ open[p] # None
    /\ content' = [content EXCEPT ![open[p]] = c]
    /\ UNCHANGED open

Release(p) ==
    /\ open[p] # None
    /\ open' = [open EXCEPT ![p] = None]
    /\ UNCHANGED content

Next ==
    \E p \in Procs :
        \/ \E n \in Blocks : Read(p, n)
        \/ \E c \in Contents : Change(p, c)
        \/ Release(p)

Spec == Init /\ [][Next]_vars

=============================================================================
