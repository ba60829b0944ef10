------------------------------ MODULE BlockIO -------------------------------
(***************************************************************************)
(* The request queue under any use: processes hand ll_rw_block one buffer  *)
(* or several, as ext2_readdir and the read functions of the file systems  *)
(* do, and go on without waiting.  Each buffer stands for its block.       *)
(***************************************************************************)
EXTENDS BlockQueue, FiniteSets

CONSTANTS
    MaxRun,   \* most buffers of one call (NBUF)
    Commands  \* the commands that callers use

ASSUME MaxRunAssumption == MaxRun \in Nat \ {0}
ASSUME CommandsAssumption == Commands \subseteq {"READ", "READA", "WRITE", "WRITEA"}

vars == <<buf, requests, disk, proc, current>>

Idle == [pc |-> "user", waiting |-> FALSE, bh |-> None, rw |-> "READ",
         todo |-> <<>>, plugged |-> FALSE, ret |-> "user"]

Init ==
    /\ \E c \in Contents :
        LET block == CHOOSE f \in [Bufs -> Blocks] : IsInjective(f) IN
        /\ buf = [b \in Bufs |-> [Unused EXCEPT !.blk = block[b], !.data = c]]
        /\ disk = [n \in Blocks |-> c]
    /\ queue = <<>> /\ moved = FALSE /\ wait_for_request = {}
    /\ proc = [p \in Procs |-> Idle]
    /\ current = None

\* Read several buffers that are not up to date.  A caller has no buffer
\* twice.
Read(p, bs, rw) ==
    /\ Turn(p, "user")
    /\ IsInjective(bs) /\ \A b \in ToSet(bs) : ~buf[b].uptodate
    /\ ll_rw_block(p, Idle, rw, bs, "user")
    /\ UNCHANGED <<buf, disk>>

\* Write a dirty buffer.
Write(p, b, rw) ==
    /\ Turn(p, "user")
    /\ buf[b].dirt
    /\ ll_rw_block(p, Idle, rw, <<b>>, "user")
    /\ UNCHANGED <<buf, disk>>

\* A file system changes a buffer, or the cache uses it for its block anew.
Change(b) ==
    /\ current = None
    /\ buf[b].uptodate
    /\ buf' = [buf EXCEPT ![b].dirt = TRUE]
    /\ UNCHANGED <<requests, disk, proc, current>>

Recycle(b) ==
    /\ current = None
    /\ ~buf[b].lock /\ buf[b].count = 0 /\ buf[b].uptodate /\ ~buf[b].dirt
    /\ buf' = [buf EXCEPT ![b].uptodate = FALSE]
    /\ UNCHANGED <<requests, disk, proc, current>>

Interrupt == Transfer \/ \E u \in BOOLEAN : end_request(u)

Kernel(p) == EndWait(p) \/ make_request(p) \/ make_request_loop(p) \/ Unplug(p)

Next ==
    \/ Interrupt
    \/ \E p \in Procs :
        \/ Kernel(p)
        \/ \E rw \in Commands \ {"WRITE", "WRITEA"}, k \in 1 .. MaxRun :
            \E bs \in [1 .. k -> Bufs] : Read(p, bs, rw)
        \/ \E b \in Bufs, rw \in Commands \ {"READ", "READA"} : Write(p, b, rw)
    \/ \E b \in Bufs : Change(b) \/ Recycle(b)

\* The disk does its work, and a process that can run in the kernel does.
Spec ==
    /\ Init /\ [][Next]_vars
    /\ WF_vars(Interrupt)
    /\ \A p \in Procs : WF_vars(Kernel(p))

-----------------------------------------------------------------------------
(* Properties *)

\* The elevator of add_request lets nothing starve: a buffer in the queue is
\* unlocked after a while, whatever reads keep coming that go before writes,
\* join requests and plug the idle disk (ll_rw_blk.c:137-173, 231-272).  There
\* must be requests enough for the reads; see PlugComesOff.
NoStarvation ==
    \A b \in Bufs :
        (\E k \in 1 .. Len(queue) : b \in ToSet(queue[k].bhs)) ~> ~buf[b].lock

\* "This will prevent the request from starting until we have shoved all of
\* the blocks into the queue, and then we let it rip" (ll_rw_blk.c:395-397):
\* the plug comes off.  If reads can run out of requests it may not: its
\* holder sleeps at line 210 for a buffer whose request waits behind the plug.
PlugComesOff == plugged ~> ~plugged

=============================================================================
