-------------------------------- MODULE Pipe --------------------------------
(***************************************************************************)
(* Anonymous pipes: fs/pipe.c over struct pipe_inode_info of               *)
(* include/linux/pipe_fs_i.h.                                              *)
(*                                                                         *)
(* The kernel is not preempted: a process runs until it sleeps, so one     *)
(* action is the code between two points where the process can lose the    *)
(* CPU.  Those points are interruptible_sleep_on() and the copies to and   *)
(* from user space (memcpy_tofs, memcpy_fromfs), which may take a page     *)
(* fault and wait for the disk.  PIPE_LOCK is what protects the ring       *)
(* buffer across the second kind.                                          *)
(*                                                                         *)
(* The two open files made by sys_pipe are shared by the processes that    *)
(* inherited them: holds[p] is the set of ends that p still has a          *)
(* descriptor for, and an end's f_count is the number of its holders.      *)
(* sent and got are history: the bytes in the order they were stored in    *)
(* the ring, and in the order they reached user space.  base is the page,  *)
(* one cell per byte.                                                      *)
(***************************************************************************)
EXTENDS Integers, Sequences, FiniteSets, FiniteSetsExt, PipeInode

CONSTANTS
    PIPE_BUF,    \* capacity of the ring (4096 in limits.h)
    InitHolds,   \* the descriptors left after fork() and close(), before any I/O
    Counts,      \* byte counts a call may ask for
    MaxCalls     \* bound: system calls issued per process

Ends == {"r", "w"}

ASSUME PipeBufAssumption == PIPE_BUF \in Nat \ {0}
ASSUME CountsAssumption  == Counts \subseteq Nat \ {0}
ASSUME MaxCallsAssumption == MaxCalls \in Nat
ASSUME HoldsAssumption ==
    /\ InitHolds \in [Procs -> SUBSET Ends]
    /\ \A e \in Ends : \E p \in Procs : e \in InitHolds[p]

EAGAIN      == -11
EPIPE       == -32
ERESTARTSYS == -512

VARIABLES
    start, len,        \* PIPE_START, PIPE_LEN
    lock,              \* PIPE_LOCK
    holds,             \* the ends each process has open
    count,             \* count: bytes the call still wants to move
    done,              \* read / written: bytes moved so far
    free,              \* free: space a writer waits for
    chunk,             \* [at, chars]: pipebuf and size of the copy in progress
    ret,               \* value returned by the last call
    calls, sent, got   \* history

ring  == <<start, len, lock, base>>
local == <<count, done, free, chunk, nonblock>>
vars  == <<start, len, lock, readers, writers, base, holds, pc, asleep, sig,
           count, done, free, chunk, nonblock, ret, calls, sent, got>>

-----------------------------------------------------------------------------
(* The macros of pipe_fs_i.h; PIPE_BUF is a power of two, & is %.          *)
(* A definition whose name ends in _bug is a faulty variant of the one     *)
(* that follows it; no specification uses it.                              *)

PIPE_LOCK_bug == FALSE
PIPE_LOCK == lock > 0

PIPE_FREE == PIPE_BUF - len

PIPE_END_bug == start
PIPE_END  == (start + len) % PIPE_BUF

\* The size of the next copy: PIPE_MAX_RCHUNK cut to count and to the bytes
\* present, and PIPE_MAX_WCHUNK cut to count and to the free space.
ReadChunk(n)  == Min({PIPE_BUF - start, n, len})
WriteChunk(n) == Min({PIPE_BUF - PIPE_END, n, PIPE_FREE})

\* A byte of user data, named by its writer, the call, its place in the call
\* and the length of the call.
Byte(p, i, n) == [by |-> p, call |-> calls[p], nr |-> i, of |-> n]
Chunks == [at : 0 .. PIPE_BUF - 1, chars : 0 .. PIPE_BUF]
NoChunk == [at |-> 0, chars |-> 0]
NoByte == [by |-> "none", call |-> 0, nr |-> 0, of |-> 0]

Init ==
    /\ start = 0 /\ len = 0 /\ lock = 0
    /\ readers = 1 /\ writers = 1
    /\ base = [i \in 0 .. PIPE_BUF-1 |-> NoByte]
    /\ holds = InitHolds
    /\ pc = [p \in Procs |-> "user"]
    /\ asleep = {} /\ sig = {}
    /\ count = [p \in Procs |-> 0]
    /\ done = [p \in Procs |-> 0]
    /\ free = [p \in Procs |-> 0]
    /\ chunk = [p \in Procs |-> NoChunk]
    /\ nonblock = [p \in Procs |-> FALSE]
    /\ ret = [p \in Procs |-> 0]
    /\ calls = [p \in Procs |-> 0]
    /\ sent = <<>> /\ got = <<>>

-----------------------------------------------------------------------------
\* wake_up_interruptible(&PIPE_WAIT).  All the sleepers of PIPE_WAIT are
\* TASK_INTERRUPTIBLE; each one leaves the queue when it runs.
WakeUp_bug == UNCHANGED asleep
WakeUp == asleep' = {}

\* Back to user mode with value r; the call's local variables are gone.  The
\* pending signal is handled on the way out, a SIGPIPE raised by the call too.
Return(p, r) ==
    /\ pc' = [pc EXCEPT ![p] = "user"]
    /\ ret' = [ret EXCEPT ![p] = r]
    /\ sig' = sig \ {p}
    /\ count' = [count EXCEPT ![p] = 0]
    /\ free' = [free EXCEPT ![p] = 0]
    /\ chunk' = [chunk EXCEPT ![p] = NoChunk]

\* interruptible_sleep_on(&PIPE_WAIT) with n bytes left, waiting for f bytes of
\* space; q are the other sleepers.
SleepOn(p, where, n, f, q) ==
    /\ pc' = [pc EXCEPT ![p] = where]
    /\ asleep' = q \cup {p}
    /\ count' = [count EXCEPT ![p] = n]
    /\ free' = [free EXCEPT ![p] = f]
    /\ chunk' = [chunk EXCEPT ![p] = NoChunk]
    /\ UNCHANGED <<ret, sig>>

\* The body of the copy loop up to memcpy_tofs: the chunk is taken out of
\* PIPE_START and PIPE_LEN before the bytes are copied.
TakeChunk(p, n) ==
    LET c == ReadChunk(n) IN
    /\ start' = (start + c) % PIPE_BUF
    /\ len' = len - c
    /\ count' = [count EXCEPT ![p] = n - c]
    /\ chunk' = [chunk EXCEPT ![p] = [at |-> start, chars |-> c]]
    /\ pc' = [pc EXCEPT ![p] = "rcopy"]
    /\ UNCHANGED <<asleep, sig, ret, free>>

\* The body of the copy loop up to memcpy_fromfs: PIPE_LEN counts the bytes
\* before they are there.
AddChunk(p, n) ==
    LET c == WriteChunk(n) IN
    /\ len' = len + c
    /\ count' = [count EXCEPT ![p] = n - c]
    /\ chunk' = [chunk EXCEPT ![p] = [at |-> PIPE_END, chars |-> c]]
    /\ pc' = [pc EXCEPT ![p] = "wcopy"]
    /\ UNCHANGED <<start, asleep, sig, ret, free>>

-----------------------------------------------------------------------------
(* pipe_read                                                               *)

\* From the top of the blocking while loop to the first copy.
ReadLoop(p, n) ==
    \/ /\ len = 0 /\ writers = 0
       /\ Return(p, 0)
       /\ UNCHANGED <<ring, asleep>>
    \/ /\ PIPE_LOCK \/ len = 0
       /\ ~(len = 0 /\ writers = 0)
       /\ IF p \in sig
          THEN Return(p, ERESTARTSYS) /\ UNCHANGED asleep
          ELSE SleepOn(p, "rwait", n, 0, asleep)
       /\ UNCHANGED ring
    \/ /\ ~PIPE_LOCK /\ len > 0
       /\ lock' = lock + 1
       /\ TakeChunk(p, n)
       /\ UNCHANGED base

pipe_read(p, n, nb) ==
    /\ pc[p] = "user" /\ "r" \in holds[p] /\ calls[p] < MaxCalls
    /\ calls' = [calls EXCEPT ![p] = @ + 1]
    /\ done' = [done EXCEPT ![p] = 0]
    /\ nonblock' = [nonblock EXCEPT ![p] = nb]
    /\ IF nb /\ (PIPE_LOCK \/ len = 0)
       THEN /\ Return(p, IF PIPE_LOCK \/ writers > 0 THEN EAGAIN ELSE 0)
            /\ UNCHANGED <<ring, asleep>>
       ELSE ReadLoop(p, n)
    /\ UNCHANGED <<readers, writers, holds, sent, got>>

\* A sleeping reader that was woken goes round the while loop again.
ReadResume(p) ==
    /\ pc[p] = "rwait" /\ p \notin asleep
    /\ ReadLoop(p, count[p])
    /\ UNCHANGED <<readers, writers, holds, done, nonblock, calls, sent, got>>

\* memcpy_tofs ends; the next chunk, or the pipe is unlocked, the sleepers are
\* woken and the call returns.
ReadCopy(p) ==
    /\ pc[p] = "rcopy"
    /\ got' = got \o [i \in 1 .. chunk[p].chars |-> base[chunk[p].at + i - 1]]
    /\ done' = [done EXCEPT ![p] = @ + chunk[p].chars]
    /\ IF count[p] > 0 /\ len > 0
       THEN TakeChunk(p, count[p]) /\ UNCHANGED lock
       ELSE /\ lock' = lock - 1
            /\ WakeUp
            /\ Return(p, done[p] + chunk[p].chars)
            /\ UNCHANGED <<start, len>>
    /\ UNCHANGED <<base, readers, writers, holds, nonblock, calls, sent>>

-----------------------------------------------------------------------------
(* pipe_write                                                              *)

\* "written ? : err"
Result(w, err) == IF w > 0 THEN w ELSE err

\* The space a call for n bytes first waits for: all of it when n <= PIPE_BUF
\* ("we have to make it atomic"), else any.
FirstSpace_bug(n) == 1
FirstSpace(n) == IF n <= PIPE_BUF THEN n ELSE 1

\* The body of the inner while loop: the pipe is locked or too full for a
\* writer that has moved w bytes, has n left and waits for f bytes of space; q
\* are the other sleepers.  A signal or O_NONBLOCK ends the call with what was
\* written ("written ? : -EPIPE" and so on); no reader left also raises SIGPIPE.
WriteWait(p, n, f, w, nb, q) ==
    LET Stop(err) == Return(p, Result(w, err)) /\ asleep' = q
    IN  \/ readers = 0 /\ Stop(EPIPE)
        \/ readers > 0 /\ p \in sig /\ Stop(ERESTARTSYS)
        \/ readers > 0 /\ p \notin sig /\ nb /\ Stop(EAGAIN)
        \/ readers > 0 /\ p \notin sig /\ ~nb /\ SleepOn(p, "wwait", n, f, q)

\* From the test of the inner while loop to the first copy.
WriteLoop(p, n, f, w, nb) ==
    IF PIPE_FREE < f \/ PIPE_LOCK
    THEN WriteWait(p, n, f, w, nb, asleep) /\ UNCHANGED ring
    ELSE lock' = lock + 1 /\ AddChunk(p, n) /\ UNCHANGED base

pipe_write(p, n, nb) ==
    /\ pc[p] = "user" /\ "w" \in holds[p] /\ calls[p] < MaxCalls
    /\ calls' = [calls EXCEPT ![p] = @ + 1]
    /\ done' = [done EXCEPT ![p] = 0]
    /\ nonblock' = [nonblock EXCEPT ![p] = nb]
    /\ IF readers = 0
       THEN Return(p, EPIPE) /\ UNCHANGED <<ring, asleep>>
       ELSE WriteLoop(p, n, FirstSpace(n), 0, nb)
    /\ UNCHANGED <<readers, writers, holds, sent, got>>

WriteResume(p) ==
    /\ pc[p] = "wwait" /\ p \notin asleep
    /\ WriteLoop(p, count[p], free[p], done[p], nonblock[p])
    /\ UNCHANGED <<readers, writers, holds, done, nonblock, calls, sent, got>>

\* memcpy_fromfs ends; the next chunk while there is space, else the pipe is
\* unlocked and the sleepers are woken.  With bytes left the pipe is full and
\* the writer is back in the inner loop, now waiting for any space (free = 1).
WriteCopy(p) ==
    LET at == chunk[p].at
        c  == chunk[p].chars
        bytes == [i \in 1 .. c |-> Byte(p, done[p] + i, done[p] + c + count[p])]
    IN
    /\ pc[p] = "wcopy"
    /\ base' = [k \in DOMAIN base |->
                   IF k \in at .. at + c - 1 THEN bytes[k - at + 1] ELSE base[k]]
    /\ sent' = sent \o bytes
    /\ done' = [done EXCEPT ![p] = @ + c]
    /\ \/ /\ count[p] > 0 /\ PIPE_FREE > 0
          /\ AddChunk(p, count[p])
          /\ UNCHANGED lock
       \/ /\ count[p] = 0
          /\ lock' = lock - 1
          /\ WakeUp
          /\ Return(p, done[p] + c)
          /\ UNCHANGED <<start, len>>
       \/ /\ count[p] > 0 /\ PIPE_FREE = 0
          /\ lock' = lock - 1
          /\ WriteWait(p, count[p], 1, done[p] + c, nonblock[p], {})
          /\ UNCHANGED <<start, len>>
    /\ UNCHANGED <<readers, writers, holds, nonblock, calls, got>>

-----------------------------------------------------------------------------
\* close_fp: the last close of an end calls pipe_read_release or
\* pipe_write_release, which wakes every sleeper.
close_fp(p, e) ==
    /\ pc[p] = "user" /\ e \in holds[p]
    /\ holds' = [holds EXCEPT ![p] = @ \ {e}]
    /\ IF \E q \in Procs \ {p} : e \in holds[q]
       THEN UNCHANGED <<readers, writers, asleep>>
       ELSE /\ readers' = IF e = "r" THEN readers - 1 ELSE readers
            /\ writers' = IF e = "w" THEN writers - 1 ELSE writers
            /\ WakeUp
    /\ UNCHANGED <<ring, pc, sig, local, ret, calls, sent, got>>

\* send_sig from anywhere; schedule() makes an interruptible sleeper runnable.
send_sig(p) ==
    /\ pc[p] # "user" /\ p \notin sig
    /\ sig' = sig \cup {p}
    /\ asleep' = asleep \ {p}
    /\ UNCHANGED <<ring, readers, writers, holds, pc, local, ret, calls, sent, got>>

\* What the kernel does by itself for a process that is runnable.
Proceed(p) == ReadResume(p) \/ ReadCopy(p) \/ WriteResume(p) \/ WriteCopy(p)

Next ==
    \E p \in Procs :
        \/ \E n \in Counts, nb \in BOOLEAN : pipe_read(p, n, nb) \/ pipe_write(p, n, nb)
        \/ Proceed(p)
        \/ \E e \in Ends : close_fp(p, e)
        \/ send_sig(p)

\* schedule() runs every runnable process in time, and page faults are served.
Fairness == \A p \in Procs : WF_vars(Proceed(p))

Spec     == Init /\ [][Next]_vars
FairSpec == Spec /\ Fairness

-----------------------------------------------------------------------------
(* Properties                                                              *)

PCs == {"user", "rwait", "rcopy", "wwait", "wcopy"}

\* The variables keep their shape; PIPE_LEN never exceeds the page and
\* PIPE_START stays inside it.
TypeOK ==
    /\ start \in 0 .. PIPE_BUF - 1
    /\ len \in 0 .. PIPE_BUF
    /\ lock \in Nat /\ readers \in Nat /\ writers \in Nat
    /\ DOMAIN base = 0 .. PIPE_BUF - 1
    /\ holds \in [Procs -> SUBSET Ends]
    /\ pc \in [Procs -> PCs]
    /\ asleep \in SUBSET Procs
    /\ sig \in SUBSET Procs
    /\ count \in [Procs -> Nat]
    /\ done \in [Procs -> Nat]
    /\ free \in [Procs -> Nat]
    /\ chunk \in [Procs -> Chunks]
    /\ nonblock \in [Procs -> BOOLEAN]
    /\ ret \in [Procs -> Int]
    /\ calls \in [Procs -> Nat]

Copying(p) == pc[p] \in {"rcopy", "wcopy"}

\* PIPE_LOCK works: at most one process is between PIPE_LOCK++ and PIPE_LOCK--
\* of pipe_read or pipe_write, however the copies are delayed by page faults.
LockExclusion ==
    /\ lock = IF \E p \in Procs : Copying(p) THEN 1 ELSE 0
    /\ \A p, q \in Procs : Copying(p) /\ Copying(q) => p = q

\* No lost wakeup: a process asleep on PIPE_WAIT still has the reason it went
\* to sleep for (the tests of the two while loops).
NoLostWakeup ==
    \A p \in asleep :
        \/ pc[p] = "rwait" /\ (lock > 0 \/ (len = 0 /\ writers > 0))
        \/ pc[p] = "wwait" /\ readers > 0 /\ (lock > 0 \/ PIPE_FREE < free[p])

\* The bytes reach user space in the order they were stored, none lost, none
\* twice: what was sent is what was got, then a chunk being copied out, then
\* what PIPE_START and PIPE_LEN say is in the ring (less a chunk whose
\* copy-in is not finished).
FifoOrder ==
    LET Cells(at, n) == [i \in 1 .. n |-> base[(at + i - 1) % PIPE_BUF]]
        leaving  == {p \in Procs : pc[p] = "rcopy"}
        entering == {p \in Procs : pc[p] = "wcopy"}
        out == IF leaving = {} THEN <<>>
               ELSE LET p == CHOOSE q \in leaving : TRUE
                    IN  Cells(chunk[p].at, chunk[p].chars)
        notyet == IF entering = {} THEN 0
                  ELSE chunk[CHOOSE q \in entering : TRUE].chars
    IN  sent = got \o out \o Cells(start, len - notyet)

\* Atomicity promised for counts up to PIPE_BUF ("we have to make it atomic"):
\* the bytes of such a write are stored with no byte of another call between
\* them, and all of them once the writer has left the copy loop.
AtomicWrites ==
    LET SameCall(a, b) == a.by = b.by /\ a.call = b.call
        atomic == {k \in DOMAIN sent : sent[k].of <= PIPE_BUF}
    IN  /\ \A i, k \in atomic : SameCall(sent[i], sent[k]) =>
               \A j \in i .. k : SameCall(sent[j], sent[i])
        /\ \A k \in atomic : \/ pc[sent[k].by] = "wcopy"
                             \/ \E j \in atomic : /\ SameCall(sent[j], sent[k])
                                                  /\ sent[j].nr = sent[k].of

\* The value returned by a write tells the caller what happened: back in user
\* mode, the bytes its last call left in the pipe are as many as it returned,
\* and a call that returned an error or was interrupted before its first byte
\* left none, so that a retry cannot duplicate data.
WriteResult ==
    \A p \in Procs : pc[p] = "user" =>
        LET stored == Cardinality({k \in DOMAIN sent :
                                       sent[k].by = p /\ sent[k].call = calls[p]})
        IN  stored > 0 => ret[p] = stored

\* What pipe_write promises its caller: both of these.
WriteContract == AtomicWrites /\ WriteResult

\* The release of the last other end ends every blocked call: readers see end
\* of file (after draining the pipe), writers see EPIPE.
HangupReleases ==
    \A p \in Procs :
        /\ (pc[p] = "rwait" /\ writers = 0) ~> pc[p] = "user"
        /\ (pc[p] = "wwait" /\ readers = 0) ~> pc[p] = "user"

=============================================================================
