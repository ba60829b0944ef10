----------------------------- MODULE BlockQueue -----------------------------
(***************************************************************************)
(* Buffer heads, the queue of block requests of one disk, and the way of a *)
(* process through ll_rw_block and make_request (ll_rw_blk.c), with the    *)
(* interrupts of the disk that end in end_request (blk.h, hd.c).  Module   *)
(* BufferCache adds the callers.                                           *)
(*                                                                         *)
(* A process is not preempted in the kernel: "current" is the process that *)
(* runs and has not come to a place where it may sleep, None when anyone   *)
(* may be chosen.  Interrupts come at any time.                            *)
(***************************************************************************)
EXTENDS Integers, Sequences, SequencesExt

CONSTANTS
    Procs,       \* processes
    Bufs,        \* buffer heads, used or not
    Blocks,      \* block numbers of the disk
    Contents,    \* what a block may hold
    NR_REQUEST,  \* entries of all_requests
    MaxSectors,  \* a request this long takes no more blocks (254 sectors)
    Failing,     \* the commands that may fail: a subset of {"READ", "WRITE"}
    None

ASSUME ProcsAssumption == IsFiniteSet(Procs)
ASSUME BlocksAssumption == Blocks \subseteq Nat
ASSUME NR_REQUESTAssumption == NR_REQUEST \in Nat /\ NR_REQUEST * 2 >= 3
ASSUME MaxSectorsAssumption == MaxSectors \in Nat \ {0}
ASSUME FailingAssumption == Failing \subseteq {"READ", "WRITE"}
ASSUME NoneAssumption == None \notin Procs \cup Bufs \cup Blocks \cup Contents

VARIABLES
    buf,               \* buf[b]: the fields of buffer head b, and its data
    queue,             \* current_request and what hangs on it by next
    moved,             \* the data of the first buffer of the queue went over
    wait_for_request,  \* processes asleep until a request is free
    disk,              \* disk[n]: block n on the disk
    proc,              \* proc[p]: where process p is, and its local variables
    current

requests == <<queue, moved, wait_for_request>>

Unused == [blk |-> None, count |-> 0, dirt |-> FALSE, lock |-> FALSE,
           uptodate |-> FALSE, data |-> None]

-----------------------------------------------------------------------------
(* Processes *)

Turn(p, l) ==
    /\ current \in {None, p}
    /\ proc[p].pc = l /\ ~proc[p].waiting

\* Back in user mode, or in a file system, anyone may be chosen.
Go(p, r) ==
    /\ proc' = [proc EXCEPT ![p] = r]
    /\ current' = IF r.pc = "user" THEN None ELSE p
At(p, l) == [proc[p] EXCEPT !.pc = l]

\* __wait_on_buffer holds the buffer with a reference of its own.
StartWait(p, r) ==
    /\ buf[r.bh].lock
    /\ buf' = [buf EXCEPT ![r.bh].count = @ + 1]
    /\ proc' = [proc EXCEPT ![p] = [r EXCEPT !.waiting = TRUE]]
    /\ current' = None
    /\ UNCHANGED <<requests, disk>>

EndWait(p) ==
    /\ current = None /\ proc[p].waiting
    /\ ~buf[proc[p].bh].lock
    /\ buf' = [buf EXCEPT ![proc[p].bh].count = @ - 1]
    /\ Go(p, [proc[p] EXCEPT !.waiting = FALSE])
    /\ UNCHANGED <<requests, disk>>

-----------------------------------------------------------------------------
(* The queue.  A request is a command, the buffers it moves (b_reqnext) and *)
(* its place in all_requests; its sector is the block of its first buffer.  *)
(* The plug of ll_rw_block is a request without buffers on the stack.       *)

sector(r) == buf[Head(r.bhs)].blk

cmd(rw) == IF rw \in {"READ", "READA"} THEN "READ" ELSE "WRITE"

plugged == queue # <<>> /\ queue[1].bhs = <<>>

\* Reads come first, then the lower device (the plug has -1) and sector.
IN_ORDER(r1, r2) ==
    \/ r1.cmd = "READ" /\ r2.cmd = "WRITE"
    \/ r1.cmd = r2.cmd /\ (r1.bhs = <<>> \/ sector(r1) < sector(r2))

\* Mutant: always right behind the current one.
Insert_first(r) == IF queue = <<>> THEN <<r>> ELSE InsertAt(queue, 2, r)

\* The loop of add_request: behind the first request after which it is in the
\* order of the sweep, and never in front of the current one.
Insert(r) ==
    LET Fits(k) == /\ \/ IN_ORDER(queue[k], r)
                      \/ ~IN_ORDER(queue[k], queue[k + 1])
                   /\ IN_ORDER(r, queue[k + 1])
        places  == {k \in 1 .. Len(queue) - 1 : Fits(k)}
    IN  IF places = {} THEN Append(queue, r) ELSE InsertAt(queue, Min(places) + 1, r)

\* A request that b can join at its end or in front of it; the current
\* request (the first) is under way, or the plug.
Joins(k, rw, b) ==
    /\ queue[k].cmd = cmd(rw) /\ Len(queue[k].bhs) < MaxSectors
    /\ \/ sector(queue[k]) + Len(queue[k].bhs) = buf[b].blk
       \/ sector(queue[k]) - 1 = buf[b].blk
Joinable(rw, b) == {k \in 2 .. Len(queue) : Joins(k, rw, b)}
Joined(k, b) ==
    [queue EXCEPT ![k].bhs =
        IF sector(queue[k]) + Len(@) = buf[b].blk THEN Append(@, b) ELSE <<b>> \o @]

\* get_request: the last third of all_requests is for reads only.  A request
\* knows in which part its entry is; which one get_request finds is open.
max_req == [low |-> (NR_REQUEST * 2) \div 3,
            high |-> NR_REQUEST - (NR_REQUEST * 2) \div 3]
Free(rw) ==
    {s \in IF cmd(rw) = "READ" THEN {"low", "high"} ELSE {"low"} :
        Len(SelectSeq(queue, LAMBDA r : r.slot = s)) < max_req[s]}

-----------------------------------------------------------------------------
(* ll_rw_block for the buffers bs; afterwards the process is at proc[p].ret *)

\* An idle disk is plugged while several buffers are put into the queue.  The
\* command of the plug is never set.
ll_rw_block(p, r, rw, bs, ret) ==
    LET plug == Len(bs) > 1 /\ queue = <<>> IN
    /\ Go(p, [r EXCEPT !.pc = "rw", !.rw = rw, !.bh = Head(bs), !.todo = Tail(bs),
                       !.plugged = plug, !.ret = ret])
    /\ \/ /\ plug
          /\ \E c \in {"READ", "WRITE"} :
                queue' = <<[cmd |-> c, bhs |-> <<>>, slot |-> "stack"]>>
       \/ ~plug /\ UNCHANGED queue
    /\ UNCHANGED <<moved, wait_for_request>>

\* make_request returns: on to the next buffer, or to the end of ll_rw_block.
Done(p) ==
    LET r == proc[p] IN
    IF r.todo # <<>> THEN [r EXCEPT !.pc = "rw", !.bh = Head(r.todo), !.todo = Tail(@)]
    ELSE IF r.plugged THEN [r EXCEPT !.pc = "unplug"]
    ELSE [r EXCEPT !.pc = r.ret, !.rw = "READ", !.ret = "user"]

\* Take the plug off and start the disk.
Unplug(p) ==
    /\ Turn(p, "unplug")
    /\ queue' = Tail(queue)
    /\ Go(p, [proc[p] EXCEPT !.pc = proc[p].ret, !.rw = "READ", !.ret = "user",
                             !.plugged = FALSE])
    /\ UNCHANGED <<buf, moved, wait_for_request, disk>>

Ahead(p) == proc[p].rw \in {"READA", "WRITEA"}

NothingToDo(p, b) ==
    IF cmd(proc[p].rw) = "WRITE" THEN ~buf[b].dirt ELSE buf[b].uptodate

\* make_request up to the loop: leave a locked buffer alone if this was only
\* for later use, else lock it, and let it go if there is nothing left to do.
make_request(p) ==
    /\ Turn(p, "rw")
    /\ LET b == proc[p].bh IN
        \/ /\ Ahead(p) /\ buf[b].lock
           /\ Go(p, Done(p))
           /\ UNCHANGED <<buf, requests, disk>>
        \/ /\ ~Ahead(p)
           /\ StartWait(p, proc[p])
        \/ /\ ~buf[b].lock /\ NothingToDo(p, b)
           /\ Go(p, Done(p))
           /\ UNCHANGED <<buf, requests, disk>>
        \/ /\ ~buf[b].lock /\ ~NothingToDo(p, b)
           /\ buf' = [buf EXCEPT ![b].lock = TRUE]
           /\ Go(p, At(p, "slot"))
           /\ UNCHANGED <<requests, disk>>

\* The loop, with interrupts off: join a request, or take a free one, or give
\* up what was only for later use, or sleep.  From here on the buffer is clean.
make_request_loop(p) ==
    /\ Turn(p, "slot") /\ p \notin wait_for_request
    /\ LET b  == proc[p].bh
           rw == proc[p].rw IN
        \/ /\ Joinable(rw, b) # {}
           /\ queue' = Joined(Min(Joinable(rw, b)), b)
           /\ buf' = [buf EXCEPT ![b].dirt = FALSE]
           /\ Go(p, Done(p))
           /\ UNCHANGED wait_for_request
        \/ /\ Joinable(rw, b) = {}
           /\ \E s \in Free(rw) :
                queue' = Insert([cmd |-> cmd(rw), bhs |-> <<b>>, slot |-> s])
           /\ buf' = [buf EXCEPT ![b].dirt = FALSE]
           /\ Go(p, Done(p))
           /\ UNCHANGED wait_for_request
        \/ /\ Joinable(rw, b) = {} /\ Free(rw) = {} /\ Ahead(p)
           /\ buf' = [buf EXCEPT ![b].lock = FALSE]
           /\ Go(p, Done(p))
           /\ UNCHANGED <<queue, wait_for_request>>
        \/ /\ Joinable(rw, b) = {} /\ Free(rw) = {} /\ ~Ahead(p)
           /\ wait_for_request' = wait_for_request \cup {p}
           /\ current' = None
           /\ UNCHANGED <<buf, queue, proc>>
    /\ UNCHANGED <<moved, disk>>

-----------------------------------------------------------------------------
(* The disk *)

\* read_intr and do_hd_request move the data of the first buffer.
Transfer ==
    /\ queue # <<>> /\ ~plugged /\ ~moved
    /\ moved' = TRUE
    /\ LET b == Head(Head(queue).bhs) IN
        IF Head(queue).cmd = "READ"
        THEN /\ buf' = [buf EXCEPT ![b].data = disk[buf[b].blk]]
             /\ UNCHANGED disk
        ELSE /\ disk' = [disk EXCEPT ![buf[b].blk] = buf[b].data]
             /\ UNCHANGED buf
    /\ UNCHANGED <<queue, wait_for_request, proc, current>>

\* Mutant: the request is freed when its first buffer is done.
end_request_whole(uptodate) ==
    /\ queue # <<>> /\ ~plugged
    /\ IF uptodate THEN moved ELSE Head(queue).cmd \in Failing
    /\ LET r == Head(queue) IN
        /\ buf' = [buf EXCEPT ![Head(r.bhs)].uptodate = uptodate,
                              ![Head(r.bhs)].lock = FALSE]
        /\ queue' = Tail(queue)
        /\ wait_for_request' = {}
    /\ moved' = FALSE
    /\ UNCHANGED <<disk, proc, current>>

\* Unlock the buffer; with the last one the request is done and free.
end_request(uptodate) ==
    /\ queue # <<>> /\ ~plugged
    /\ IF uptodate THEN moved ELSE Head(queue).cmd \in Failing
    /\ LET r == Head(queue) IN
        /\ buf' = [buf EXCEPT ![Head(r.bhs)].uptodate = uptodate,
                              ![Head(r.bhs)].lock = FALSE]
        /\ IF Len(r.bhs) > 1
           THEN /\ queue' = [queue EXCEPT ![1].bhs = Tail(@)]
                /\ UNCHANGED wait_for_request
           ELSE /\ queue' = Tail(queue)
                /\ wait_for_request' = {}
    /\ moved' = FALSE
    /\ UNCHANGED <<disk, proc, current>>

-----------------------------------------------------------------------------
(* Properties *)

\* Every locked buffer has exactly one owner that will unlock it: a request of
\* the queue, or a process in the loop of make_request.
LockHasOwner ==
    \A b \in Bufs :
        LET owners == {k \in 1 .. Len(queue) : b \in ToSet(queue[k].bhs)}
                      \cup {p \in Procs : proc[p].pc = "slot" /\ proc[p].bh = b}
        IN  Cardinality(owners) = IF buf[b].lock THEN 1 ELSE 0

=============================================================================
