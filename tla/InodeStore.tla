----------------------------- MODULE InodeStore -----------------------------
(***************************************************************************)
(* What the inode cache promises to the file systems and system calls      *)
(* above it: every inode number has one current content, a process that    *)
(* holds an inode sees and changes that content, and it changes in no      *)
(* other way.  Cached copies, write-back and recycling must not show.      *)
(* Only an inode that has lost its name and its last holder is released    *)
(* and may come back with any content.                                     *)
(***************************************************************************)
CONSTANTS Procs, Inos, Contents

VARIABLES
    content,   \* content[n]: the current content of inode n
    named,     \* named[n]: some directory entry refers to n
    held       \* held[p]: the inode process p holds, 0 if none

vars == <<content, named, held>>

Released(n) == ~named[n] /\ \A p \in Procs : held[p] # n

Init ==
    /\ content \in [Inos -> Contents]
    /\ named = [n \in Inos |-> TRUE]
    /\ held = [p \in Procs |-> 0]

Get(p, n) ==
    /\ held[p] = 0
    /\ held' = [held EXCEPT ![p] = n]
    /\ UNCHANGED <<content, named>>

Create(p, n) ==
    /\ held[p] = 0 /\ Released(n)
    /\ held' = [held EXCEPT ![p] = n]
    /\ \E c \in Contents : content' = [content EXCEPT ![n] = c]
    /\ UNCHANGED named

Change(p) ==
    /\ held[p] # 0
    /\ \E c \in Contents : content' = [content EXCEPT ![held[p]] = c]
    /\ UNCHANGED <<named, held>>

Name(p, b) ==
    /\ held[p] # 0
    /\ named' = [named EXCEPT ![held[p]] = b]
    /\ UNCHANGED <<content, held>>

Put(p) ==
    /\ held[p] # 0
    /\ held' = [held EXCEPT ![p] = 0]
    /\ UNCHANGED <<content, named>>

\* A released inode may be discarded, and its number used again.
Discard(n) ==
    /\ Released(n)
    /\ \E c \in Contents : content' = [content EXCEPT ![n] = c]
    /\ UNCHANGED <<named, held>>

Next ==
    \/ \E p \in Procs, n \in Inos : Get(p, n) \/ Create(p, n)
    \/ \E p \in Procs : Change(p) \/ Put(p)
    \/ \E p \in Procs, b \in BOOLEAN : Name(p, b)
    \/ \E n \in Inos : Discard(n)

Spec == Init /\ [][Next]_vars
=============================================================================
