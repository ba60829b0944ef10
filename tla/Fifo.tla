-------------------------------- MODULE Fifo --------------------------------
(***************************************************************************)
(* Opening and closing a named pipe: fifo_open of fs/fifo.c, with the part *)
(* of do_open, close_fp and iput that it relies on, and connect_read of    *)
(* fs/pipe.c.  A blocking open waits for the other side; the openers       *)
(* counters make each side wait until the other has seen it.               *)
(*                                                                         *)
(* One action is the code between two points where the opener can sleep:   *)
(* interruptible_sleep_on(&PIPE_WAIT) and __get_free_page(GFP_KERNEL).     *)
(* Reading and writing are those of module Pipe; here a transfer is one    *)
(* step and the ring is either empty or not: base says whether PIPE_BASE   *)
(* is set.  Each process has at most one open file of the FIFO.            *)
(***************************************************************************)
EXTENDS Integers, FiniteSets, PipeInode

CONSTANTS
    Modes,       \* the access modes (f_mode) each process opens the FIFO with
    OutOfMemory  \* TRUE: __get_free_page may return 0

ASSUME ProcsAssumption == IsFiniteSet(Procs)
ASSUME ModesAssumption == Modes \in [Procs -> SUBSET (1 .. 3)]
ASSUME OutOfMemoryAssumption == OutOfMemory \in BOOLEAN

VARIABLES
    rdop, wrop,        \* PIPE_RD_OPENERS, PIPE_WR_OPENERS
    data,              \* PIPE_LEN is not 0
    mode,              \* f_mode: 1 O_RDONLY, 2 O_WRONLY, 3 O_RDWR
    fop,               \* f_op: "connecting", "read", "write", "rdwr"
    err                \* retval of fifo_open is -ERESTARTSYS

fifo_vars == <<readers, writers, rdop, wrop, base, data, pc, asleep, sig, mode,
               nonblock, fop, err>>

\* init_fifo
init_fifo ==
    /\ readers = 0 /\ writers = 0 /\ rdop = 0 /\ wrop = 0
    /\ base = FALSE /\ data = FALSE
    /\ pc = [p \in Procs |-> "user"]
    /\ asleep = {} /\ sig = {}
    /\ mode = [p \in Procs |-> 0]
    /\ nonblock = [p \in Procs |-> FALSE]
    /\ fop = [p \in Procs |-> "none"]
    /\ err = [p \in Procs |-> FALSE]

-----------------------------------------------------------------------------
\* The sleepers left after "if (!counter++) wake_up" and "if (!--counter)
\* wake_up": all are woken when the counter leaves 0 or reaches it.
Arrive_bug(n) == asleep
Arrive(n) == IF n = 0 THEN {} ELSE asleep

Leave(n) == IF n = 1 THEN {} ELSE asleep

\* A failed open takes its count back.
Uncount_bug(n) == n
Uncount(n) == n - 1

\* The release routine of the file: one count less if it was open in mode ms.
Release(p, n, ms) == IF mode[p] \in ms THEN n - 1 ELSE n

\* interruptible_sleep_on with the other sleepers q: with a signal pending
\* schedule() does not let the process sleep.
FifoSleepOn(p, where, q) ==
    /\ pc' = [pc EXCEPT ![p] = where]
    /\ asleep' = IF p \in sig THEN q ELSE q \cup {p}
    /\ UNCHANGED <<sig, base, data, mode>>

\* The FIFO is in use by a process other than p: i_count > 1.
OthersIn(p) == \E q \in Procs \ {p} : mode[q] # 0

\* iput: wakes PIPE_WAIT, and the last user's iput frees the page.
iput(p) ==
    /\ asleep' = {}
    /\ IF OthersIn(p) THEN UNCHANGED <<base, data>> ELSE base' = FALSE /\ data' = FALSE

\* do_open gives up after an error of fifo_open: no release, only iput.
Fail(p) ==
    /\ pc' = [pc EXCEPT ![p] = "user"]
    /\ mode' = [mode EXCEPT ![p] = 0]
    /\ sig' = sig \ {p}
    /\ iput(p)

\* The end of fifo_open without an error: done, or a page is needed.
Opened(p, q) ==
    /\ pc' = [pc EXCEPT ![p] = IF base THEN "open" ELSE "alloc"]
    /\ sig' = IF base THEN sig \ {p} ELSE sig
    /\ asleep' = q
    /\ UNCHANGED <<base, data, mode>>

-----------------------------------------------------------------------------
\* do_open up to the call of fifo_open: open_namei may sleep, and has taken a
\* reference to the inode when it returns.
do_open(p, m, nb) ==
    /\ pc[p] = "user"
    /\ pc' = [pc EXCEPT ![p] = "opening"]
    /\ mode' = [mode EXCEPT ![p] = m]
    /\ nonblock' = [nonblock EXCEPT ![p] = nb]
    /\ fop' = [fop EXCEPT ![p] = "none"]
    /\ err' = [err EXCEPT ![p] = FALSE]
    /\ UNCHANGED <<readers, writers, rdop, wrop, base, data, asleep, sig>>

-----------------------------------------------------------------------------
(* case 1: O_RDONLY                                                        *)

\* "while (PIPE_WR_OPENERS)" and what follows; r is PIPE_READERS, q are the
\* other sleepers, e says that a signal ended the wait for a writer.
ReadSync(p, q, r, e) ==
    \/ /\ wrop > 0
       /\ FifoSleepOn(p, "rsync", q)
       /\ readers' = r
       /\ fop' = [fop EXCEPT ![p] = "connecting"]
    \/ /\ wrop = 0
       /\ fop' = [fop EXCEPT ![p] = IF writers > 0 THEN "read" ELSE "connecting"]
       /\ IF e THEN readers' = Uncount(r) /\ Fail(p)
               ELSE readers' = r /\ Opened(p, q)

\* A signal that is already pending ends the wait before it begins; the openers
\* counter is then back where it was, and the wakeup that goes with it is
\* covered by the one of iput.
fifo_open_read(p) ==
    /\ pc[p] = "opening" /\ mode[p] = 1
    /\ err' = [err EXCEPT ![p] = ~nonblock[p] /\ writers = 0 /\ p \in sig]
    /\ IF ~nonblock[p] /\ writers = 0 /\ p \notin sig
       THEN /\ readers' = readers + 1
            /\ rdop' = rdop + 1
            /\ FifoSleepOn(p, "rdwait", Arrive(readers))
            /\ fop' = [fop EXCEPT ![p] = "connecting"]
       ELSE /\ ReadSync(p, Arrive(readers), readers + 1, err'[p])
            /\ UNCHANGED rdop
    /\ UNCHANGED <<writers, wrop, nonblock>>

\* A reader woken in the loop that waits for a writer.
OpenReadWait(p) ==
    /\ pc[p] = "rdwait" /\ p \notin asleep
    /\ IF writers = 0 /\ p \notin sig
       THEN /\ FifoSleepOn(p, "rdwait", asleep)
            /\ UNCHANGED <<readers, rdop, fop, err>>
       ELSE /\ rdop' = rdop - 1
            /\ err' = [err EXCEPT ![p] = writers = 0]
            /\ ReadSync(p, Leave(rdop), readers, writers = 0)
    /\ UNCHANGED <<writers, wrop, nonblock>>

\* A reader woken in the loop that waits for the writers to have seen it.
ReadSyncResume(p) ==
    /\ pc[p] = "rsync" /\ p \notin asleep
    /\ ReadSync(p, asleep, readers, err[p])
    /\ UNCHANGED <<writers, rdop, wrop, nonblock, err>>

-----------------------------------------------------------------------------
(* case 2: O_WRONLY                                                        *)

\* "while (PIPE_RD_OPENERS)" and what follows; w is PIPE_WRITERS.
WriteSync(p, q, w, e) ==
    IF rdop > 0
    THEN writers' = w /\ FifoSleepOn(p, "wsync", q)
    ELSE IF e THEN writers' = Uncount(w) /\ Fail(p)
              ELSE writers' = w /\ Opened(p, q)

\* With no reader an O_NONBLOCK open returns -ENXIO.
fifo_open_write(p) ==
    /\ pc[p] = "opening" /\ mode[p] = 2
    /\ IF nonblock[p] /\ readers = 0
       THEN Fail(p) /\ UNCHANGED <<writers, wrop, fop, err>>
       ELSE /\ fop' = [fop EXCEPT ![p] = "write"]
            /\ err' = [err EXCEPT ![p] = readers = 0 /\ p \in sig]
            /\ IF readers = 0 /\ p \notin sig
               THEN /\ writers' = writers + 1
                    /\ wrop' = wrop + 1
                    /\ FifoSleepOn(p, "wrwait", Arrive(writers))
               ELSE /\ WriteSync(p, Arrive(writers), writers + 1, err'[p])
                    /\ UNCHANGED wrop
    /\ UNCHANGED <<readers, rdop, nonblock>>

OpenWriteWait(p) ==
    /\ pc[p] = "wrwait" /\ p \notin asleep
    /\ IF readers = 0 /\ p \notin sig
       THEN /\ FifoSleepOn(p, "wrwait", asleep)
            /\ UNCHANGED <<writers, wrop, err>>
       ELSE /\ wrop' = wrop - 1
            /\ err' = [err EXCEPT ![p] = readers = 0]
            /\ WriteSync(p, Leave(wrop), writers, readers = 0)
    /\ UNCHANGED <<readers, rdop, nonblock, fop>>

WriteSyncResume(p) ==
    /\ pc[p] = "wsync" /\ p \notin asleep
    /\ WriteSync(p, asleep, writers, err[p])
    /\ UNCHANGED <<readers, rdop, wrop, nonblock, fop, err>>

-----------------------------------------------------------------------------
(* case 3: O_RDWR                                                          *)

\* The two loops one after the other; PIPE_WRITERS is counted between them.
RdwrSync(p, q) ==
    IF wrop > 0
    THEN FifoSleepOn(p, "rwsync1", q) /\ UNCHANGED writers
    ELSE LET q2 == IF writers = 0 THEN {} ELSE q IN
         /\ writers' = writers + 1
         /\ IF rdop > 0 THEN FifoSleepOn(p, "rwsync2", q2) ELSE Opened(p, q2)

fifo_open_rdwr(p) ==
    /\ pc[p] = "opening" /\ mode[p] = 3
    /\ fop' = [fop EXCEPT ![p] = "rdwr"]
    /\ readers' = readers + 1
    /\ RdwrSync(p, Arrive(readers))
    /\ UNCHANGED <<rdop, wrop, nonblock, err>>

RdwrSyncResume(p) ==
    /\ p \notin asleep
    /\ \/ pc[p] = "rwsync1" /\ RdwrSync(p, asleep)
       \/ /\ pc[p] = "rwsync2" /\ UNCHANGED writers
          /\ IF rdop > 0 THEN FifoSleepOn(p, "rwsync2", asleep) ELSE Opened(p, asleep)
    /\ UNCHANGED <<readers, rdop, wrop, nonblock, fop, err>>

-----------------------------------------------------------------------------
\* __get_free_page returns, and PIPE_BASE is tested again: another opener may
\* have provided the page meanwhile.
BaseIsSet_bug == FALSE
BaseIsSet == base

GetPage(p) ==
    /\ pc[p] = "alloc"
    /\ \/ /\ IF BaseIsSet THEN UNCHANGED <<base, data>> ELSE base' = TRUE /\ data' = FALSE
          /\ pc' = [pc EXCEPT ![p] = "open"]
          /\ sig' = sig \ {p}
          /\ UNCHANGED <<asleep, mode>>
       \/ OutOfMemory /\ ~base /\ Fail(p)
    /\ UNCHANGED <<readers, writers, rdop, wrop, nonblock, fop, err>>

\* close_fp: pipe_read_release, pipe_write_release or pipe_rdwr_release, then iput.
fifo_close(p) ==
    /\ pc[p] = "open"
    /\ readers' = Release(p, readers, {1, 3})
    /\ writers' = Release(p, writers, {2, 3})
    /\ pc' = [pc EXCEPT ![p] = "user"]
    /\ mode' = [mode EXCEPT ![p] = 0]
    /\ nonblock' = [nonblock EXCEPT ![p] = FALSE]
    /\ fop' = [fop EXCEPT ![p] = "none"]
    /\ iput(p)
    /\ UNCHANGED <<rdop, wrop, sig, err>>

\* A read that finds bytes in the ring takes them, a write with a reader there
\* stores some; both wake PIPE_WAIT.
Transfer(p) ==
    /\ pc[p] = "open"
    /\ asleep' = {}
    /\ \/ /\ fop[p] \in {"read", "rdwr"} /\ data /\ data' = FALSE
       \/ /\ fop[p] \in {"write", "rdwr"} /\ readers > 0 /\ data' = TRUE
    /\ UNCHANGED <<readers, writers, rdop, wrop, base, pc, sig, mode, nonblock, fop, err>>

\* connect_read: a read on a file that was opened with no writer there waits
\* for the first byte or the first writer, then the file is an ordinary one.
connect_read(p) ==
    /\ fop[p] = "connecting"
    /\ pc[p] = "open" \/ (pc[p] = "cread" /\ p \notin asleep)
    /\ \/ /\ data \/ writers > 0
          /\ fop' = [fop EXCEPT ![p] = "read"]
          /\ pc' = [pc EXCEPT ![p] = "open"]
          /\ data' = FALSE
          /\ asleep' = IF data THEN {} ELSE asleep
          /\ sig' = sig \ {p}
       \/ /\ ~data /\ writers = 0
          /\ nonblock[p] \/ p \in sig
          /\ pc' = [pc EXCEPT ![p] = "open"]
          /\ asleep' = IF nonblock[p] THEN asleep ELSE {}
          /\ sig' = sig \ {p}
          /\ UNCHANGED <<fop, data>>
       \/ /\ ~data /\ writers = 0 /\ ~nonblock[p] /\ p \notin sig
          /\ pc' = [pc EXCEPT ![p] = "cread"]
          /\ asleep' = {p}
          /\ UNCHANGED <<fop, data, sig>>
    /\ UNCHANGED <<readers, writers, rdop, wrop, base, mode, nonblock, err>>

fifo_send_sig(p) ==
    /\ pc[p] \notin {"user", "open"} /\ p \notin sig
    /\ sig' = sig \cup {p}
    /\ asleep' = asleep \ {p}
    /\ UNCHANGED <<readers, writers, rdop, wrop, base, data, pc, mode, nonblock, fop, err>>

-----------------------------------------------------------------------------
\* What the kernel does by itself for an opener that is runnable.
FifoProceed(p) ==
    \/ fifo_open_read(p)  \/ OpenReadWait(p)  \/ ReadSyncResume(p)
    \/ fifo_open_write(p) \/ OpenWriteWait(p) \/ WriteSyncResume(p)
    \/ fifo_open_rdwr(p)  \/ RdwrSyncResume(p)
    \/ GetPage(p)

FifoNext ==
    \E p \in Procs :
        \/ \E m \in Modes[p], nb \in BOOLEAN : do_open(p, m, nb)
        \/ FifoProceed(p)
        \/ Transfer(p) \/ connect_read(p) \/ fifo_close(p)
        \/ fifo_send_sig(p)

FifoSpec == init_fifo /\ [][FifoNext]_fifo_vars

\* schedule() runs every runnable process in time.
FifoFairSpec == FifoSpec /\ \A p \in Procs : WF_fifo_vars(FifoProceed(p))

-----------------------------------------------------------------------------
(* Properties                                                              *)

\* The open, or the open in progress, of p has been counted.
Past == {"rdwait", "rsync", "wrwait", "wsync", "rwsync2", "alloc", "open", "cread"}
Reads(p) == mode[p] \in {1, 3} /\ pc[p] \in Past \cup {"rwsync1"}
Writes(p) == mode[p] \in {2, 3} /\ pc[p] \in Past

\* PIPE_READERS and PIPE_WRITERS count the files open for reading and writing
\* and the opens in progress that will become one: the release routines "keep
\* track of readers/writers" (pipe.c).  A count that is too high means that no
\* end of file and no EPIPE is ever reported again.
CountsExact ==
    /\ readers = Cardinality({p \in Procs : Reads(p)})
    /\ writers = Cardinality({p \in Procs : Writes(p)})

\* Every open file of the FIFO has its page: no read or write goes through a
\* null PIPE_BASE, although the page is allocated after a sleep and freed by
\* whoever is last.
OpenHasPage == \A p \in Procs : pc[p] \in {"open", "cread"} => base

\* The FIFO and its open files agree: both of these.
FilesAccounted == CountsExact /\ OpenHasPage

\* Bytes in the FIFO are only taken by a reader or dropped when the last user
\* leaves: an opener that returns late from __get_free_page does not reset a
\* ring that is in use.
DataKept ==
    [][data /\ ~data' => \/ \A p \in Procs : mode'[p] = 0
                         \/ \E p \in Procs : Transfer(p) \/ connect_read(p)]_fifo_vars

\* "when the open() code hasn't guaranteed a connection (O_NONBLOCK)": an open
\* that was allowed to block has met a writer when it returns, so reads on it
\* see end of file and do not wait for a writer again.  The code does not keep
\* to this: README, "What the code does otherwise".
BlockingOpenConnects ==
    \A p \in Procs : pc[p] = "open" /\ mode[p] = 1 /\ ~nonblock[p] => fop[p] = "read"

Syncing == {"rsync", "wsync", "rwsync1", "rwsync2"}

\* The waits on the openers counters always end: the two sides never wait for
\* each other, and an O_RDWR open never blocks for good.
SyncEnds == \A p \in Procs : (pc[p] \in Syncing) ~> (pc[p] \notin Syncing)

\* Two blocked openers meet: once a writer has arrived the readers that wait
\* for one all go on, even if the writer is in a hurry to leave; and conversely.
Rendezvous ==
    \A p \in Procs :
        /\ (pc[p] = "rdwait" /\ writers > 0) ~> (pc[p] \in {"alloc", "open"})
        /\ (pc[p] = "wrwait" /\ readers > 0) ~> (pc[p] \in {"alloc", "open"})

\* An open that need not wait for anybody new gets on: both of these.
OpensEnd == SyncEnds /\ Rendezvous

=============================================================================
