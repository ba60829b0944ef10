---------------------------- MODULE BufferCache -----------------------------
(***************************************************************************)
(* The buffer cache (fs/buffer.c): getblk, bread, breada, brelse,          *)
(* sync_buffers, shrink_buffers and grow_buffers, on top of the request    *)
(* queue.  All buffers have one size, that of a page, and one device.      *)
(***************************************************************************)
EXTENDS BlockQueue, FiniteSets

CONSTANTS
    Priorities,  \* with which shrink_buffers is called
    MinBuffers   \* buffers that buffer_init makes; a bound keeps as many

ASSUME PrioritiesAssumption == Priorities \subseteq 0 .. 6
ASSUME MinBuffersAssumption == MinBuffers \in Nat \ {0} /\ MinBuffers <= Cardinality(Bufs)

VARIABLES
    free_list,    \* all buffers, as the list goes round from free_list on
    buffer_wait,  \* processes asleep until a buffer is released
    pending,      \* history: blocks with a change that has not gone to the disk
    owed          \* history: owed[p]: those of them that fsync of p still owes

cache == <<free_list, buffer_wait>>
history == <<pending, owed>>
vars == <<buf, requests, disk, proc, current, cache, history>>

Idle == [pc |-> "user", waiting |-> FALSE, bh |-> None, rw |-> "READ",
         todo |-> <<>>, plugged |-> FALSE, ret |-> "user", n |-> None, block |-> None, ahead |-> None,
         first |-> None, i |-> 0, pass |-> 0, wait |-> FALSE, retry |-> FALSE,
         priority |-> 0, then |-> "user"]

\* buffer_init has made the first buffers.
Init ==
    /\ buf = [b \in Bufs |-> Unused]
    /\ free_list \in {l \in [1 .. MinBuffers -> Bufs] : IsInjective(l)}
    /\ \E c \in Contents : disk = [n \in Blocks |-> c]
    /\ queue = <<>> /\ moved = FALSE
    /\ wait_for_request = {} /\ buffer_wait = {}
    /\ proc = [p \in Procs |-> Idle]
    /\ current = None
    /\ pending = {} /\ owed = [p \in Procs |-> {}]

-----------------------------------------------------------------------------
(* The list *)

Place(l, b) == CHOOSE k \in 1 .. Len(l) : l[k] = b

Without(b) == RemoveAt(free_list, Place(free_list, b))

Moved(b) == Append(Without(b), b)

\* The buffer j places behind b.
Behind(l, b, j) == l[((Place(l, b) + j - 1) % Len(l)) + 1]

NextFree(l, b) == Behind(l, b, 1)

Refer(b, d) == buf' = [buf EXCEPT ![b].count = @ + d]

\* Back in the file system, with buffer b or without one.
Return(p, b) ==
    Go(p, IF b = None THEN Idle ELSE [Idle EXCEPT !.bh = b, !.n = proc[p].n])

-----------------------------------------------------------------------------
(* sync_buffers.  It is called by fsync, by getblk that finds only dirty   *)
(* buffers, and by shrink_buffers; then says how to go on.                 *)

SyncStart(r) ==
    [r EXCEPT !.pc = "sync", !.bh = Head(free_list), !.i = 2 * Len(free_list),
              !.pass = 0, !.retry = FALSE]

sync_buffers(p, r, wait, then) ==
    Go(p, [SyncStart(r) EXCEPT !.wait = wait, !.then = then])

\* The loop up to the first buffer at which it does something: buffers that
\* are clean, or locked and left alone, only set retry.
SyncSkipped(p) ==
    LET r     == proc[p]
        skip  == ~r.wait \/ r.pass = 0
        Bh(j) == Behind(free_list, r.bh, j)
        Stop(b) == IF buf[b].lock THEN ~skip ELSE buf[b].dirt /\ r.pass < 2
        k     == Min({r.i} \cup {j \in 0 .. r.i - 1 : Stop(Bh(j))})
    IN  [r EXCEPT !.bh = Bh(k), !.i = @ - k,
                  !.retry = @ \/ \E j \in 0 .. k - 1 : buf[Bh(j)].lock]

\* Mutant: the writes are not waited for.
SyncPass_nowait(r) ==
    IF r.wait /\ r.retry /\ r.pass < 1 THEN [SyncStart(r) EXCEPT !.pass = r.pass + 1]
    ELSE IF r.then = "user" THEN Idle
    ELSE [r EXCEPT !.pc = r.then, !.bh = None, !.wait = FALSE, !.pass = 0, !.retry = FALSE]

\* The end of a pass.
SyncPass(r) ==
    IF r.wait /\ r.retry /\ r.pass < 2 THEN [SyncStart(r) EXCEPT !.pass = r.pass + 1]
    ELSE IF r.then = "user" THEN Idle
    ELSE [r EXCEPT !.pc = r.then, !.bh = None, !.wait = FALSE, !.pass = 0, !.retry = FALSE]

\* One buffer of the loop.  The first pass leaves locked buffers alone, the
\* third only waits.
SyncBuffer(p) ==
    /\ Turn(p, "sync")
    /\ LET r == SyncSkipped(p) IN
        \/ /\ r.i = 0
           /\ Go(p, SyncPass(r))
           /\ UNCHANGED <<buf, requests, disk>>
        \/ r.i > 0 /\ StartWait(p, r)
        \/ /\ r.i > 0 /\ ~buf[r.bh].lock
           /\ Refer(r.bh, 1)
           /\ ll_rw_block(p, r, "WRITE", <<r.bh>>, "wrote")
           /\ UNCHANGED disk
    /\ UNCHANGED <<cache, history>>

SyncWrote(p) ==
    /\ Turn(p, "wrote")
    /\ Refer(proc[p].bh, -1)
    /\ Go(p, [proc[p] EXCEPT !.pc = "sync", !.bh = NextFree(free_list, @),
                             !.i = @ - 1, !.retry = TRUE])
    /\ UNCHANGED <<requests, disk, cache, history>>

\* The last part of fsync_dev, the one that waits.
fsync_dev(p) ==
    /\ Turn(p, "user") /\ proc[p].bh = None
    /\ sync_buffers(p, proc[p], TRUE, "user")
    /\ owed' = [owed EXCEPT ![p] = pending]
    /\ UNCHANGED <<buf, requests, disk, cache, pending>>

-----------------------------------------------------------------------------
(* getblk, for the block proc[p].block                                      *)

find_buffer(n) == {b \in Bufs : buf[b].blk = n}

\* Mutant: get_hash_table waits for the buffer before it counts itself.
GetHashTable_uncounted(p) ==
    /\ Turn(p, "getblk") /\ p \notin buffer_wait
    /\ \E b \in find_buffer(proc[p].block) :
        /\ UNCHANGED buf
        /\ Go(p, [proc[p] EXCEPT !.pc = "found", !.bh = b])
    /\ UNCHANGED <<requests, disk, cache, history>>

GetHashTable(p) ==
    /\ Turn(p, "getblk") /\ p \notin buffer_wait
    /\ \E b \in find_buffer(proc[p].block) :
        /\ Refer(b, 1)
        /\ Go(p, [proc[p] EXCEPT !.pc = "found", !.bh = b])
    /\ UNCHANGED <<requests, disk, cache, history>>

\* get_hash_table after wait_on_buffer.  A counted buffer keeps its block.
GetblkFound(p) ==
    /\ Turn(p, "found")
    /\ LET b == proc[p].bh IN
        \/ StartWait(p, proc[p]) /\ UNCHANGED free_list
        \/ /\ ~buf[b].lock /\ buf[b].blk = proc[p].block
           /\ free_list' = IF buf[b].uptodate /\ ~buf[b].dirt THEN Moved(b) ELSE free_list
           /\ Go(p, At(p, "got"))
           /\ UNCHANGED <<buf, requests, disk>>
    /\ UNCHANGED <<buffer_wait, history>>

BADNESS(b) == (IF buf[b].dirt THEN 2 ELSE 0) + (IF buf[b].lock THEN 1 ELSE 0)

\* The first of the least bad unused buffers of the list l.
Best(l) ==
    LET unused == {k \in 1 .. Len(l) : buf[l[k]].count = 0}
        least  == Min({BADNESS(l[k]) : k \in unused})
    IN  l[Min({k \in unused : BADNESS(l[k]) = least})]

\* grow_buffers, when there is a page.
Grown == {<<b>> \o free_list : b \in Bufs \ ToSet(free_list)}

\* Not in the cache: take memory if there is some, and choose a buffer; if
\* all are in use, sleep.
GetblkChoose(p) ==
    /\ Turn(p, "getblk") /\ p \notin buffer_wait
    /\ find_buffer(proc[p].block) = {}
    /\ \E l \in {free_list} \cup Grown :
        /\ free_list' = l
        /\ IF \E b \in ToSet(l) : buf[b].count = 0
           THEN /\ Go(p, [proc[p] EXCEPT !.pc = "chosen", !.bh = Best(l)])
                /\ UNCHANGED buffer_wait
           ELSE /\ buffer_wait' = buffer_wait \cup {p}
                /\ current' = None
                /\ UNCHANGED proc
    /\ UNCHANGED <<buf, requests, disk, history>>

\* Mutant: the block is looked for only before getblk sleeps.
StillMissing_stale(n) == TRUE

\* "While we slept waiting for this block, somebody else might already have
\* added "this" block to the cache. check it".
StillMissing(n) == find_buffer(n) = {}

\* getblk after wait_on_buffer: start again if the buffer is in use or the
\* block has come meanwhile, write if it is dirty, else take it.
GetblkTake(p) ==
    /\ Turn(p, "chosen")
    /\ LET b == proc[p].bh IN
        \/ StartWait(p, proc[p]) /\ UNCHANGED free_list
        \/ /\ ~buf[b].lock
           /\ \/ /\ buf[b].count > 0
                 /\ Go(p, At(p, "getblk"))
                 /\ UNCHANGED <<buf, free_list>>
              \/ /\ buf[b].count = 0 /\ buf[b].dirt
                 /\ sync_buffers(p, proc[p], FALSE, "getblk")
                 /\ UNCHANGED <<buf, free_list>>
              \/ /\ buf[b].count = 0 /\ ~buf[b].dirt
                 /\ ~StillMissing(proc[p].block)
                 /\ Go(p, At(p, "getblk"))
                 /\ UNCHANGED <<buf, free_list>>
              \/ /\ buf[b].count = 0 /\ ~buf[b].dirt
                 /\ StillMissing(proc[p].block)
                 /\ buf' = [buf EXCEPT ![b] = [Unused EXCEPT !.blk = proc[p].block, !.count = 1]]
                 /\ free_list' = Moved(b)
                 /\ Go(p, At(p, "got"))
           /\ UNCHANGED <<requests, disk>>
    /\ UNCHANGED <<buffer_wait, history>>

-----------------------------------------------------------------------------
(* bread, breada, brelse *)

bread(p, n) ==
    /\ Turn(p, "user") /\ proc[p].bh = None
    /\ Go(p, [proc[p] EXCEPT !.pc = "getblk", !.n = n, !.block = n])
    /\ UNCHANGED <<buf, requests, disk, cache, history>>

breada(p, n, m) ==
    /\ Turn(p, "user") /\ proc[p].bh = None
    /\ n # m
    /\ Go(p, [proc[p] EXCEPT !.pc = "getblk", !.n = n, !.block = n, !.ahead = m])
    /\ UNCHANGED <<buf, requests, disk, cache, history>>

\* The caller of getblk has its buffer: read it if need be.  breada is at its
\* first block while ahead is set, and at the one to read ahead when first is.
Got(p) ==
    /\ Turn(p, "got")
    /\ LET b == proc[p].bh
           r == proc[p]
           next == IF r.ahead # None THEN "readahead"
                   ELSE IF r.first # None THEN "aheaddone" ELSE "bread"
       IN IF buf[b].uptodate
          THEN Go(p, At(p, next)) /\ UNCHANGED requests
          ELSE ll_rw_block(p, r, IF r.first # None THEN "READA" ELSE "READ", <<b>>, next)
    /\ UNCHANGED <<buf, disk, cache, history>>

ReadAhead(p) ==
    /\ Turn(p, "readahead")
    /\ Go(p, [proc[p] EXCEPT !.pc = "getblk", !.first = proc[p].bh,
                             !.block = proc[p].ahead,
                             !.ahead = None])
    /\ UNCHANGED <<buf, requests, disk, cache, history>>

\* tmp->b_count--, then on with the first block.
AheadDone(p) ==
    /\ Turn(p, "aheaddone")
    /\ Refer(proc[p].bh, -1)
    /\ Go(p, [proc[p] EXCEPT !.pc = "bread", !.bh = proc[p].first, !.first = None])
    /\ UNCHANGED <<requests, disk, cache, history>>

\* wait_on_buffer; the block was read, or bread returns nothing.
BreadReturn(p) ==
    /\ Turn(p, "bread")
    /\ LET b == proc[p].bh IN
        \/ StartWait(p, proc[p])
        \/ /\ ~buf[b].lock
           /\ IF buf[b].uptodate THEN Return(p, b) ELSE Go(p, At(p, "brelse"))
           /\ UNCHANGED <<buf, requests, disk>>
    /\ UNCHANGED <<cache, history>>

\* The file system changes its block and marks the buffer dirty.
Change(p, c) ==
    /\ Turn(p, "user") /\ proc[p].bh # None
    /\ buf' = [buf EXCEPT ![proc[p].bh].data = c, ![proc[p].bh].dirt = TRUE]
    /\ pending' = pending \cup {proc[p].n}
    /\ UNCHANGED <<requests, disk, cache, owed, proc, current>>

brelse(p) ==
    /\ Turn(p, "user") /\ proc[p].bh # None
    /\ Go(p, At(p, "brelse"))
    /\ UNCHANGED <<buf, requests, disk, cache, history>>

Released(p) ==
    /\ Turn(p, "brelse")
    /\ LET b == proc[p].bh IN
        \/ StartWait(p, proc[p]) /\ UNCHANGED buffer_wait
        \/ /\ ~buf[b].lock
           /\ Refer(b, -1)
           /\ buffer_wait' = IF buf[b].count = 1 THEN {} ELSE buffer_wait
           /\ Return(p, None)
           /\ UNCHANGED <<requests, disk>>
    /\ UNCHANGED <<free_list, history>>

-----------------------------------------------------------------------------
(* shrink_buffers, called when a process wants a page                       *)

shrink_buffers(p, priority) ==
    /\ Turn(p, "user") /\ proc[p].bh = None
    /\ LET r == [proc[p] EXCEPT !.priority = priority] IN
       IF priority < 2
       THEN sync_buffers(p, r, FALSE, "shrink0")
       ELSE Go(p, [r EXCEPT !.pc = "shrink0"])
    /\ UNCHANGED <<buf, requests, disk, cache, history>>

ShrinkStart(p) ==
    /\ Turn(p, "shrink0")
    /\ Go(p, [proc[p] EXCEPT !.pc = "shrink", !.bh = Head(free_list),
                             !.i = Len(free_list) \div 2 ^ proc[p].priority])
    /\ UNCHANGED <<buf, requests, disk, cache, history>>

ShrinkNext(p, l) ==
    Go(p, [proc[p] EXCEPT !.pc = "shrink", !.bh = NextFree(l, @), !.i = @ - 1])

\* A buffer in use goes to the end of the list.
ShrinkBuffer(p) ==
    /\ Turn(p, "shrink")
    /\ LET b == proc[p].bh IN
        \/ /\ proc[p].i = 0
           /\ Return(p, None)
           /\ UNCHANGED free_list
        \/ /\ proc[p].i > 0 /\ buf[b].count > 0
           /\ free_list' = Moved(b)
           /\ ShrinkNext(p, Moved(b))
        \/ /\ proc[p].i > 0 /\ buf[b].count = 0
           /\ IF buf[b].lock /\ proc[p].priority > 0
              THEN ShrinkNext(p, free_list)
              ELSE Go(p, At(p, "free"))
           /\ UNCHANGED free_list
    /\ UNCHANGED <<buf, requests, disk, buffer_wait, history>>

\* The kernel has hundreds of buffers; the bound keeps the last few.
LastBuffer == Len(free_list) <= MinBuffers

\* After wait_on_buffer: write a dirty buffer if that can be done at once,
\* else free its page unless it is in use again.
TryToFree(p) ==
    /\ Turn(p, "free")
    /\ LET b == proc[p].bh IN
        \/ StartWait(p, proc[p]) /\ UNCHANGED free_list
        \/ /\ ~buf[b].lock /\ buf[b].dirt
           /\ Refer(b, 1)
           /\ ll_rw_block(p, proc[p], "WRITEA", <<b>>, "shrunk")
           /\ UNCHANGED <<disk, free_list>>
        \/ /\ ~buf[b].lock /\ ~buf[b].dirt /\ (buf[b].count > 0 \/ LastBuffer)
           /\ ShrinkNext(p, free_list)
           /\ UNCHANGED <<buf, requests, disk, free_list>>
        \/ /\ ~buf[b].lock /\ ~buf[b].dirt /\ buf[b].count = 0 /\ ~LastBuffer
           /\ buf' = [buf EXCEPT ![b] = Unused]
           /\ free_list' = Without(b)
           /\ Return(p, None)
           /\ UNCHANGED <<requests, disk>>
    /\ UNCHANGED <<buffer_wait, history>>

ShrinkWrote(p) ==
    /\ Turn(p, "shrunk")
    /\ Refer(proc[p].bh, -1)
    /\ ShrinkNext(p, free_list)
    /\ UNCHANGED <<requests, disk, cache, history>>

-----------------------------------------------------------------------------
Request(p) ==
    /\ EndWait(p) \/ make_request(p) \/ make_request_loop(p)
    /\ UNCHANGED <<cache, history>>

\* A write takes the change of its block to the disk.
DiskTransfer ==
    /\ Transfer
    /\ LET n == buf[Head(Head(queue).bhs)].blk IN
       IF Head(queue).cmd = "WRITE"
       THEN /\ pending' = pending \ {n}
            /\ owed' = [p \in Procs |-> owed[p] \ {n}]
       ELSE UNCHANGED history
    /\ UNCHANGED cache

\* The step that leads the running process to one of these places commutes
\* with an interrupt: it touches only its own variables, b_count, and buffers
\* it has found unlocked.  So the interrupt comes before it or later.
Quiet ==
    current # None /\ proc[current].pc \in
        {"getblk", "found", "got", "rw", "slot", "readahead", "aheaddone",
         "brelse", "wrote", "shrink0", "shrunk"}

Interrupt ==
    /\ ~Quiet
    /\ \/ DiskTransfer
       \/ \E u \in BOOLEAN : end_request(u) /\ UNCHANGED <<cache, history>>

Next ==
    \/ Interrupt
    \/ \E p \in Procs :
        \/ Request(p)
        \/ SyncBuffer(p) \/ SyncWrote(p) \/ fsync_dev(p)
        \/ GetHashTable(p) \/ GetblkFound(p) \/ GetblkChoose(p) \/ GetblkTake(p)
        \/ \E n \in Blocks : bread(p, n)
        \/ \E n, m \in Blocks : breada(p, n, m)
        \/ Got(p) \/ ReadAhead(p) \/ AheadDone(p) \/ BreadReturn(p)
        \/ \E c \in Contents : Change(p, c)
        \/ brelse(p) \/ Released(p)
        \/ \E k \in Priorities : shrink_buffers(p, k)
        \/ ShrinkStart(p) \/ ShrinkBuffer(p) \/ TryToFree(p) \/ ShrinkWrote(p)

Spec == Init /\ [][Next]_vars

-----------------------------------------------------------------------------
(* Properties *)

\* What process p refers to: the buffer it waits for, the one it has at hand,
\* and the first one of breada.
Waits(p, b) == proc[p].waiting /\ proc[p].bh = b
Holds(p, b) ==
    /\ proc[p].bh = b
    /\ proc[p].pc \in {"user", "found", "got", "bread", "readahead", "aheaddone",
                       "brelse", "rw", "slot", "wrote", "shrunk"}
Keeps(p, b) == proc[p].first = b

\* b_count is the number of references that processes have, those of waiting
\* processes included: brelse, __wait_on_buffer, breada and sync_buffers give
\* back exactly what they took, so getblk and try_to_free take no buffer that
\* is in use and none is kept for ever.
RefsExact ==
    \A b \in Bufs :
        buf[b].count = Cardinality({p \in Procs : Waits(p, b)})
                     + Cardinality({p \in Procs : Holds(p, b)})
                     + Cardinality({p \in Procs : Keeps(p, b)})

\* fsync returns when every change made before it began has gone to the disk:
\* "ensure that the call does not return until all buffer writes have
\* completed", in spite of the locked buffers that the first pass leaves out.
FsyncDurable ==
    [][\A p \in Procs :
        proc[p].pc = "sync" /\ proc[p].wait /\ proc'[p].pc = "user" => owed[p] = {}]_vars

\* What a process finds in block n: the buffer if it is up to date.
Visible(n) ==
    LET bs == {b \in find_buffer(n) : buf[b].uptodate}
    IN  IF bs = {} THEN disk[n] ELSE buf[CHOOSE b \in bs : TRUE].data

Store == INSTANCE BlockStore WITH
    content <- [n \in Blocks |-> Visible(n)],
    open <- [p \in Procs |-> IF proc[p].pc = "user" THEN proc[p].n ELSE None]

\* The cache does not show: each block is one variable, changed only by the
\* processes that have it at hand, through all reading, writing back,
\* recycling and freeing of buffers.
ImplementsStore == Store!Spec

=============================================================================
