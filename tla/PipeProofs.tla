----------------------------- MODULE PipeProofs -----------------------------
(***************************************************************************)
(* Proofs about Pipe: type correctness, mutual exclusion of the copy       *)
(* loops, the absence of lost wakeups, the order of the bytes and the      *)
(* contract of write, for every number of processes, every buffer size     *)
(* and every set of requests.                                              *)
(*                                                                         *)
(* Proofs about Fifo, for every number of processes and every set of       *)
(* access modes: the counts of readers and writers are exact, an open file *)
(* has its page, and bytes in the ring are not dropped.                    *)
(***************************************************************************)
EXTENDS Pipe, Fifo, SequenceTheorems, FiniteSetTheorems, TLAPS

\* PIPE_READERS and PIPE_WRITERS count open files, not descriptors: each is 1
\* as long as some process still has the end open.
EndCounts ==
    /\ readers = IF \E p \in Procs : "r" \in holds[p] THEN 1 ELSE 0
    /\ writers = IF \E p \in Procs : "w" \in holds[p] THEN 1 ELSE 0

\* A call that waits still has bytes to move, and a waiting writer waits for
\* some space: the copy loop it enters when woken makes progress.
Wanting ==
    \A p \in Procs : /\ pc[p] \in {"rwait", "wwait"} => count[p] > 0
                     /\ pc[p] = "wwait" => free[p] > 0

\* The inductive invariant.
IInv == TypeOK /\ LockExclusion /\ EndCounts /\ Wanting /\ NoLostWakeup

USE PipeBufAssumption, CountsAssumption, HoldsAssumption DEF Ends

-----------------------------------------------------------------------------
(* The sizes of the copies.                                                *)

\* The least of three integers, as the two chunk computations take it.
LEMMA MinOfThree ==
    ASSUME NEW a \in Int, NEW b \in Int, NEW c \in Int
    PROVE  /\ Min({a, b, c}) \in {a, b, c}
           /\ Min({a, b, c}) <= a /\ Min({a, b, c}) <= b /\ Min({a, b, c}) <= c
<1>1. \E x \in {a, b, c} : \A y \in {a, b, c} : x <= y
  <2>1. CASE a <= b /\ a <= c
    BY <2>1
  <2>2. CASE b <= a /\ b <= c
    BY <2>2
  <2>3. CASE c <= a /\ c <= b
    BY <2>3
  <2> QED
    BY <2>1, <2>2, <2>3
<1>2. QED
  BY <1>1 DEF Min

\* A position taken modulo the page size lies in the page.
LEMMA ModBounds ==
    ASSUME NEW a \in Int, NEW b \in Nat \ {0}
    PROVE  a % b \in 0 .. b - 1
  OBVIOUS

\* A reader's chunk is not empty, stays inside the page and takes no more than
\* is asked for or present.
LEMMA ReadChunkBounds ==
    ASSUME TypeOK, NEW n \in Nat \ {0}, len > 0
    PROVE  /\ ReadChunk(n) \in 1 .. PIPE_BUF - start
           /\ ReadChunk(n) <= n /\ ReadChunk(n) <= len
<1> DEFINE m == Min({PIPE_BUF - start, n, len})
<1>1. PIPE_BUF - start \in Int /\ n \in Int /\ len \in Int /\ PIPE_BUF - start > 0
  BY DEF TypeOK
<1>2. /\ m \in {PIPE_BUF - start, n, len}
      /\ m <= PIPE_BUF - start /\ m <= n /\ m <= len
  BY <1>1, MinOfThree
<1> HIDE DEF m
<1>3. m \in 1 .. PIPE_BUF - start /\ m <= n /\ m <= len
  BY <1>1, <1>2
<1>4. QED
  BY <1>3 DEF ReadChunk, m

\* The same for a writer's chunk and the free space.
LEMMA WriteChunkBounds ==
    ASSUME TypeOK, NEW n \in Nat \ {0}, len < PIPE_BUF
    PROVE  /\ PIPE_END \in 0 .. PIPE_BUF - 1
           /\ WriteChunk(n) \in 1 .. PIPE_BUF - PIPE_END
           /\ WriteChunk(n) <= n /\ WriteChunk(n) <= PIPE_BUF - len
<1>1. PIPE_END \in 0 .. PIPE_BUF - 1
  BY DEF PIPE_END, TypeOK
<1> DEFINE m == Min({PIPE_BUF - PIPE_END, n, PIPE_FREE})
<1>2. PIPE_BUF - PIPE_END \in Int /\ n \in Int /\ PIPE_FREE \in Int /\ PIPE_FREE > 0
  BY <1>1 DEF TypeOK, PIPE_FREE
<1>3. /\ m \in {PIPE_BUF - PIPE_END, n, PIPE_FREE}
      /\ m <= PIPE_BUF - PIPE_END /\ m <= n /\ m <= PIPE_FREE
  BY <1>2, MinOfThree
<1> HIDE DEF m
<1>4. m \in 1 .. PIPE_BUF - PIPE_END /\ m <= n /\ m <= PIPE_FREE
  BY <1>1, <1>2, <1>3
<1>5. QED
  BY <1>1, <1>4 DEF WriteChunk, PIPE_FREE, m

\* The record of a process that copies nothing is a chunk.
LEMMA NoChunkType == NoChunk \in Chunks
  BY DEF NoChunk, Chunks

-----------------------------------------------------------------------------
(* The pieces the four handlers are built from preserve the invariant.     *)

\* The part of the state that no step of a read or a write changes.
Rest == /\ UNCHANGED <<readers, writers, holds>>
        /\ done' \in [Procs -> Nat]
        /\ nonblock' \in [Procs -> BOOLEAN]
        /\ calls' \in [Procs -> Nat]

\* The step of a call that was not copying and that returns at once.
LEMMA ReturnInv ==
    ASSUME IInv, NEW p \in Procs, NEW r \in Int, Return(p, r), ~Copying(p),
           UNCHANGED ring, asleep' = asleep \ {p}, Rest
    PROVE  IInv'
<1>1. TypeOK'
  BY NoChunkType DEF IInv, TypeOK, Return, Rest, ring, PCs
<1>2. LockExclusion' /\ EndCounts' /\ Wanting'
  BY DEF IInv, TypeOK, Return, Rest, ring, LockExclusion, EndCounts, Wanting, Copying
<1>3. NoLostWakeup'
  BY DEF IInv, TypeOK, Return, Rest, ring, NoLostWakeup, PIPE_FREE
<1>4. QED
  BY <1>1, <1>2, <1>3 DEF IInv

\* The step of a call that was not copying and that goes to sleep, for the
\* reason its while loop tests.
LEMMA SleepInv ==
    ASSUME IInv, NEW p \in Procs, NEW where \in {"rwait", "wwait"},
           NEW n \in Nat \ {0}, NEW f \in Nat, SleepOn(p, where, n, f, asleep),
           ~Copying(p), UNCHANGED ring, Rest,
           \/ where = "rwait" /\ (lock > 0 \/ (len = 0 /\ writers > 0))
           \/ where = "wwait" /\ f > 0 /\ readers > 0 /\ (lock > 0 \/ PIPE_FREE < f)
    PROVE  IInv'
<1>1. TypeOK'
  BY NoChunkType DEF IInv, TypeOK, SleepOn, Rest, ring, PCs
<1>2. /\ \A q \in Procs \ {p} : /\ pc'[q] = pc[q] /\ count'[q] = count[q]
                                 /\ free'[q] = free[q]
      /\ pc'[p] = where /\ count'[p] = n /\ free'[p] = f
  BY DEF IInv, TypeOK, SleepOn
<1>3. LockExclusion'
  BY <1>2 DEF IInv, Rest, ring, LockExclusion, Copying
<1>4. EndCounts' /\ Wanting'
  BY <1>2 DEF IInv, Rest, EndCounts, Wanting
<1>5. NoLostWakeup'
  <2>1. asleep' = asleep \cup {p} /\ asleep \in SUBSET Procs
    BY DEF SleepOn, IInv, TypeOK
  <2>2. UNCHANGED <<len, lock, readers, writers>>
    BY DEF ring, Rest
  <2> SUFFICES ASSUME NEW q \in asleep'
               PROVE  \/ pc'[q] = "rwait" /\ (lock > 0 \/ (len = 0 /\ writers > 0))
                      \/ pc'[q] = "wwait" /\ readers > 0 /\ (lock > 0 \/ PIPE_FREE < free'[q])
    BY <2>2 DEF NoLostWakeup, PIPE_FREE
  <2>3. CASE q = p
    BY <1>2, <2>3
  <2>4. CASE q # p
    BY <1>2, <2>1, <2>4 DEF IInv, NoLostWakeup
  <2>5. QED
    BY <2>3, <2>4
<1>6. QED
  BY <1>1, <1>3, <1>4, <1>5 DEF IInv

\* The start of one copy to user space: the lock is taken, or held already by p.
LEMMA TakeInv ==
    ASSUME IInv, NEW p \in Procs, NEW n \in Nat \ {0}, TakeChunk(p, n), len > 0,
           p \notin asleep, Rest, base' = base,
           \/ ~PIPE_LOCK /\ lock' = lock + 1
           \/ Copying(p) /\ lock' = lock
    PROVE  IInv'
<1> DEFINE c == ReadChunk(n)
<1>0. c \in 1 .. PIPE_BUF - start /\ c <= n /\ c <= len
  BY ReadChunkBounds DEF IInv
<1>1. /\ start' = (start + c) % PIPE_BUF /\ len' = len - c
      /\ count' = [count EXCEPT ![p] = n - c]
      /\ chunk' = [chunk EXCEPT ![p] = [at |-> start, chars |-> c]]
      /\ pc' = [pc EXCEPT ![p] = "rcopy"]
      /\ UNCHANGED <<asleep, sig, ret, free>>
  BY DEF TakeChunk
<1> HIDE DEF c
<1>2. [at |-> start, chars |-> c] \in Chunks
  BY <1>0 DEF IInv, TypeOK, Chunks
<1>3. start' \in 0 .. PIPE_BUF - 1 /\ len' \in 0 .. PIPE_BUF
  <2>1. (start + c) % PIPE_BUF \in 0 .. PIPE_BUF - 1
    <3>1. start + c \in Int
      BY <1>0 DEF IInv, TypeOK
    <3>2. QED
      BY <3>1, ModBounds
  <2>2. QED
    BY <1>0, <1>1, <2>1 DEF IInv, TypeOK
<1>4. lock' = 1 /\ \A q \in Procs : Copying(q)' <=> q = p
  <2>1. pc'[p] = "rcopy" /\ \A q \in Procs \ {p} : pc'[q] = pc[q]
    BY <1>1 DEF IInv, TypeOK
  <2>2. lock' = 1 /\ \A q \in Procs \ {p} : ~Copying(q)
    BY SMTT(20) DEF IInv, TypeOK, LockExclusion, PIPE_LOCK
  <2>3. QED
    BY <2>1, <2>2 DEF Copying
<1>5. TypeOK'
  <2>1. n - c \in Nat
    BY <1>0
  <2>2. QED
    BY <1>1, <1>2, <1>3, <1>4, <2>1 DEF IInv, TypeOK, Rest, PCs
<1>6. LockExclusion' /\ EndCounts' /\ Wanting'
  <2>1. LockExclusion'
    BY <1>4 DEF LockExclusion
  <2>2. EndCounts' /\ Wanting'
    BY <1>0, <1>1 DEF IInv, TypeOK, Rest, EndCounts, Wanting
  <2>3. QED
    BY <2>1, <2>2
<1>7. NoLostWakeup'
  <2> SUFFICES ASSUME NEW q \in asleep'
               PROVE  \/ pc'[q] = "rwait" /\ lock' > 0
                      \/ pc'[q] = "wwait" /\ readers' > 0 /\ lock' > 0
    BY DEF NoLostWakeup
  <2>1. q \in asleep /\ q \in Procs /\ q # p
    BY <1>1 DEF IInv, TypeOK
  <2>2. pc'[q] = pc[q] /\ readers' = readers
    BY <1>1, <2>1 DEF IInv, TypeOK, Rest
  <2>3. QED
    BY <1>4, <2>1, <2>2 DEF IInv, NoLostWakeup
<1>8. QED
  BY <1>5, <1>6, <1>7 DEF IInv

\* The start of one copy from user space.
LEMMA AddInv ==
    ASSUME IInv, NEW p \in Procs, NEW n \in Nat \ {0}, AddChunk(p, n),
           len < PIPE_BUF, p \notin asleep, Rest, DOMAIN base' = DOMAIN base,
           \/ ~PIPE_LOCK /\ lock' = lock + 1
           \/ Copying(p) /\ lock' = lock
    PROVE  IInv'
<1> DEFINE c == WriteChunk(n)
<1>0. PIPE_END \in 0 .. PIPE_BUF - 1 /\ c \in 1 .. PIPE_BUF - PIPE_END
      /\ c <= n /\ c <= PIPE_BUF - len
  BY WriteChunkBounds DEF IInv
<1>1. /\ len' = len + c
      /\ count' = [count EXCEPT ![p] = n - c]
      /\ chunk' = [chunk EXCEPT ![p] = [at |-> PIPE_END, chars |-> c]]
      /\ pc' = [pc EXCEPT ![p] = "wcopy"]
      /\ UNCHANGED <<start, asleep, sig, ret, free>>
  BY DEF AddChunk
<1> HIDE DEF c
<1>2. [at |-> PIPE_END, chars |-> c] \in Chunks
  BY <1>0 DEF Chunks
<1>3. len' \in 0 .. PIPE_BUF /\ n - c \in Nat
  BY <1>0, <1>1 DEF IInv, TypeOK
<1>4. lock' = 1 /\ \A q \in Procs : Copying(q)' <=> q = p
  <2>1. pc'[p] = "wcopy" /\ \A q \in Procs \ {p} : pc'[q] = pc[q]
    BY <1>1 DEF IInv, TypeOK
  <2>2. lock' = 1 /\ \A q \in Procs \ {p} : ~Copying(q)
    BY SMTT(20) DEF IInv, TypeOK, LockExclusion, PIPE_LOCK
  <2>3. QED
    BY <2>1, <2>2 DEF Copying
<1>5. TypeOK'
  BY <1>1, <1>2, <1>3, <1>4 DEF IInv, TypeOK, Rest, PCs
<1>6. LockExclusion'
  BY <1>4 DEF LockExclusion
<1>7. EndCounts' /\ Wanting'
  BY <1>1 DEF IInv, TypeOK, Rest, EndCounts, Wanting
<1>8. NoLostWakeup'
  <2> SUFFICES ASSUME NEW q \in asleep'
               PROVE  \/ pc'[q] = "rwait" /\ lock' > 0
                      \/ pc'[q] = "wwait" /\ readers' > 0 /\ lock' > 0
    BY DEF NoLostWakeup
  <2>1. q \in asleep /\ q \in Procs /\ q # p
    BY <1>1 DEF IInv, TypeOK
  <2>2. pc'[q] = pc[q] /\ readers' = readers
    BY <1>1, <2>1 DEF IInv, TypeOK, Rest
  <2>3. QED
    BY <1>4, <2>1, <2>2 DEF IInv, NoLostWakeup
<1>9. QED
  BY <1>5, <1>6, <1>7, <1>8 DEF IInv

\* The end of the last copy: the pipe is unlocked, every sleeper is woken, and
\* the call returns or, a writer of a full pipe, goes to sleep.
LEMMA UnlockInv ==
    ASSUME IInv, NEW p \in Procs, Copying(p), lock' = lock - 1, Rest,
           UNCHANGED <<start, len>>, DOMAIN base' = DOMAIN base,
           \/ \E r \in Int : Return(p, r) /\ asleep' = {}
           \/ /\ readers > 0 /\ PIPE_FREE = 0
              /\ \E n \in Nat \ {0} : SleepOn(p, "wwait", n, 1, {})
    PROVE  IInv'
<1>1. lock = 1 /\ \A q \in Procs \ {p} : ~Copying(q)
  BY DEF IInv, LockExclusion
<1>2. CASE \E r \in Int : Return(p, r) /\ asleep' = {}
  <2>1. PICK r \in Int : Return(p, r) /\ asleep' = {}
    BY <1>2
  <2>2. TypeOK'
    <3>1. /\ pc' \in [Procs -> PCs] /\ ret' \in [Procs -> Int]
          /\ asleep' \in SUBSET Procs /\ sig' \in SUBSET Procs
      BY <2>1 DEF IInv, TypeOK, Return, PCs
    <3>2. /\ count' \in [Procs -> Nat] /\ free' \in [Procs -> Nat]
          /\ chunk' \in [Procs -> Chunks]
      BY <2>1, NoChunkType DEF IInv, TypeOK, Return
    <3>3. /\ start' \in 0 .. PIPE_BUF - 1 /\ len' \in 0 .. PIPE_BUF /\ lock' \in Nat
          /\ DOMAIN base' = 0 .. PIPE_BUF - 1
      BY <1>1 DEF IInv, TypeOK
    <3>4. QED
      BY <3>1, <3>2, <3>3 DEF IInv, TypeOK, Rest
  <2>3. pc'[p] = "user" /\ \A q \in Procs \ {p} : /\ pc'[q] = pc[q]
            /\ count'[q] = count[q] /\ free'[q] = free[q]
    BY <2>1 DEF IInv, TypeOK, Return
  <2>4. LockExclusion'
    BY <1>1, <2>3 DEF LockExclusion, Copying
  <2>5. EndCounts' /\ Wanting' /\ NoLostWakeup'
    BY <2>1, <2>3 DEF IInv, Rest, EndCounts, Wanting, NoLostWakeup
  <2>6. QED
    BY <2>2, <2>4, <2>5 DEF IInv
<1>3. CASE /\ readers > 0 /\ PIPE_FREE = 0
           /\ \E n \in Nat \ {0} : SleepOn(p, "wwait", n, 1, {})
  <2>1. PICK n \in Nat \ {0} : SleepOn(p, "wwait", n, 1, {})
    BY <1>3
  <2>2. TypeOK'
    <3>1. /\ pc' \in [Procs -> PCs] /\ ret' \in [Procs -> Int]
          /\ asleep' \in SUBSET Procs /\ sig' \in SUBSET Procs
      BY <2>1, SMTT(20) DEF IInv, TypeOK, SleepOn, PCs
    <3>2. /\ count' \in [Procs -> Nat] /\ free' \in [Procs -> Nat]
          /\ chunk' \in [Procs -> Chunks]
      BY <2>1, NoChunkType DEF IInv, TypeOK, SleepOn
    <3>3. /\ start' \in 0 .. PIPE_BUF - 1 /\ len' \in 0 .. PIPE_BUF /\ lock' \in Nat
          /\ DOMAIN base' = 0 .. PIPE_BUF - 1
      BY <1>1 DEF IInv, TypeOK
    <3>4. QED
      BY <3>1, <3>2, <3>3 DEF IInv, TypeOK, Rest
  <2>3. /\ pc'[p] = "wwait" /\ count'[p] = n /\ free'[p] = 1
        /\ \A q \in Procs \ {p} : /\ pc'[q] = pc[q]
            /\ count'[q] = count[q] /\ free'[q] = free[q]
    BY <2>1 DEF IInv, TypeOK, SleepOn
  <2>4. LockExclusion'
    BY <1>1, <2>3 DEF LockExclusion, Copying
  <2>5. EndCounts' /\ Wanting'
    BY <2>3 DEF IInv, Rest, EndCounts, Wanting
  <2>6. NoLostWakeup'
    <3>1. asleep' = {p} /\ readers' > 0 /\ PIPE_FREE' = 0
      BY <1>3, <2>1 DEF SleepOn, Rest, PIPE_FREE
    <3>2. QED
      BY <2>3, <3>1 DEF NoLostWakeup
  <2>7. QED
    BY <2>2, <2>4, <2>5, <2>6 DEF IInv
<1>4. QED
  BY <1>2, <1>3

-----------------------------------------------------------------------------
(* One lemma per handler.                                                  *)

\* A new pipe satisfies the invariant.
LEMMA InitInv == Init => IInv
<1> SUFFICES ASSUME Init PROVE IInv
  OBVIOUS
<1>1. TypeOK
  BY NoChunkType DEF Init, TypeOK, PCs
<1>2. LockExclusion /\ EndCounts /\ Wanting /\ NoLostWakeup
  BY DEF Init, LockExclusion, Copying, EndCounts, Wanting, NoLostWakeup
<1>3. QED
  BY <1>1, <1>2 DEF IInv

\* A sleeper is inside pipe_read or pipe_write, at its interruptible_sleep_on.
LEMMA SleeperWaits ==
    ASSUME IInv, NEW p \in asleep
    PROVE  p \in Procs /\ pc[p] \in {"rwait", "wwait"}
  BY DEF IInv, TypeOK, NoLostWakeup

\* The blocking loop of pipe_read.
LEMMA ReadLoopInv ==
    ASSUME IInv, NEW p \in Procs, NEW n \in Nat \ {0}, ReadLoop(p, n),
           pc[p] \in {"user", "rwait"}, p \notin asleep, Rest
    PROVE  IInv'
<1>0. ~Copying(p)
  BY DEF Copying
<1>1. CASE Return(p, 0) /\ UNCHANGED <<ring, asleep>>
  BY <1>0, <1>1, ReturnInv
<1>2. CASE Return(p, ERESTARTSYS) /\ UNCHANGED asleep /\ UNCHANGED ring
  BY <1>0, <1>2, ReturnInv DEF ERESTARTSYS
<1>3. CASE /\ PIPE_LOCK \/ len = 0
           /\ ~(len = 0 /\ writers = 0)
           /\ SleepOn(p, "rwait", n, 0, asleep) /\ UNCHANGED ring
  <2>1. lock > 0 \/ (len = 0 /\ writers > 0)
    BY <1>3 DEF PIPE_LOCK, IInv, TypeOK
  <2>2. QED
    BY <1>0, <1>3, <2>1, SleepInv
<1>4. CASE ~PIPE_LOCK /\ len > 0 /\ lock' = lock + 1 /\ TakeChunk(p, n) /\ UNCHANGED base
  BY <1>4, TakeInv
<1>5. QED
  BY <1>1, <1>2, <1>3, <1>4 DEF ReadLoop

\* The start of pipe_read, up to its first copy, sleep or return.
LEMMA pipe_readInv ==
    ASSUME IInv, NEW p \in Procs, NEW n \in Counts, NEW nb \in BOOLEAN,
           pipe_read(p, n, nb)
    PROVE  IInv'
<1>1. Rest /\ n \in Nat \ {0} /\ pc[p] = "user"
  <2>1. /\ calls' = [calls EXCEPT ![p] = calls[p] + 1]
        /\ done' = [done EXCEPT ![p] = 0]
        /\ nonblock' = [nonblock EXCEPT ![p] = nb]
        /\ UNCHANGED <<readers, writers, holds>> /\ pc[p] = "user"
    BY DEF pipe_read
  <2>2. calls' \in [Procs -> Nat] /\ done' \in [Procs -> Nat]
    <3>1. calls[p] + 1 \in Nat
      BY SMTT(20) DEF IInv, TypeOK
    <3>2. QED
      BY <2>1, <3>1 DEF IInv, TypeOK
  <2>3. nonblock' \in [Procs -> BOOLEAN]
    BY <2>1, Zenon DEF IInv, TypeOK
  <2>4. QED
    BY <2>1, <2>2, <2>3 DEF Rest
<1>2. p \notin asleep /\ ~Copying(p)
  BY <1>1, SleeperWaits DEF Copying
<1>3. CASE nb /\ (PIPE_LOCK \/ len = 0)
  <2>1. PICK r \in Int : Return(p, r) /\ UNCHANGED <<ring, asleep>>
    BY <1>3 DEF pipe_read, EAGAIN
  <2>2. QED
    BY <1>1, <1>2, <2>1, ReturnInv
<1>4. CASE ~(nb /\ (PIPE_LOCK \/ len = 0))
  <2>1. ReadLoop(p, n)
    BY <1>4 DEF pipe_read
  <2>2. QED
    BY <1>1, <1>2, <2>1, ReadLoopInv
<1>5. QED
  BY <1>3, <1>4

\* A reader that was woken goes around its while loop again.
LEMMA ReadResumeInv ==
    ASSUME IInv, NEW p \in Procs, ReadResume(p)
    PROVE  IInv'
<1>1. Rest /\ count[p] \in Nat \ {0} /\ pc[p] = "rwait" /\ p \notin asleep
  BY SMTT(20) DEF ReadResume, Rest, IInv, TypeOK, Wanting
<1>2. ReadLoop(p, count[p])
  BY DEF ReadResume
<1>3. QED
  BY <1>1, <1>2, ReadLoopInv

\* pipe_read after a copy: the next chunk, or unlock, wake and return.
LEMMA ReadCopyInv ==
    ASSUME IInv, NEW p \in Procs, ReadCopy(p)
    PROVE  IInv'
<1>1. chunk[p].chars \in Nat /\ done[p] \in Nat /\ count[p] \in Nat
  BY DEF IInv, TypeOK, Chunks
<1>2. done' \in [Procs -> Nat]
  <2>1. done' = [done EXCEPT ![p] = done[p] + chunk[p].chars]
    BY DEF ReadCopy
  <2>2. done[p] + chunk[p].chars \in Nat
    BY <1>1
  <2>3. QED
    BY <2>1, <2>2 DEF IInv, TypeOK
<1>3. Rest /\ Copying(p) /\ base' = base /\ pc[p] = "rcopy"
  BY <1>2 DEF ReadCopy, Rest, IInv, TypeOK, Copying
<1>4. p \notin asleep
  BY <1>3, SleeperWaits
<1>5. CASE count[p] > 0 /\ len > 0
  <2>1. TakeChunk(p, count[p]) /\ lock' = lock /\ count[p] \in Nat \ {0}
    BY <1>1, <1>5 DEF ReadCopy
  <2>2. QED
    BY <1>3, <1>4, <1>5, <2>1, TakeInv
<1>6. CASE ~(count[p] > 0 /\ len > 0)
  <2>1. /\ lock' = lock - 1 /\ asleep' = {} /\ UNCHANGED <<start, len>>
        /\ Return(p, done[p] + chunk[p].chars)
    BY <1>6 DEF ReadCopy, WakeUp
  <2>2. done[p] + chunk[p].chars \in Int
    BY <1>1
  <2>3. QED
    BY <1>3, <2>1, <2>2, UnlockInv
<1>7. QED
  BY <1>5, <1>6

\* The body of the waiting loop of pipe_write, before the first byte or after
\* a woken writer found the pipe still too full.
LEMMA WriteWaitInv ==
    ASSUME IInv, NEW p \in Procs, NEW n \in Nat \ {0}, NEW f \in Nat \ {0},
           NEW w \in Nat, NEW nb \in BOOLEAN,
           WriteWait(p, n, f, w, nb, asleep), UNCHANGED ring,
           PIPE_FREE < f \/ PIPE_LOCK, ~Copying(p), p \notin asleep, Rest
    PROVE  IInv'
<1>1. CASE \E r \in Int : Return(p, r) /\ asleep' = asleep
  BY <1>1, ReturnInv
<1>2. CASE readers > 0 /\ SleepOn(p, "wwait", n, f, asleep)
  BY <1>2, SleepInv DEF PIPE_LOCK
<1>3. \A code \in {EPIPE, ERESTARTSYS, EAGAIN} : Result(w, code) \in Int
  BY DEF Result, EPIPE, ERESTARTSYS, EAGAIN
<1>4. QED
  BY <1>1, <1>2, <1>3 DEF WriteWait

\* The while loop of pipe_write, entered first or again.
LEMMA WriteLoopInv ==
    ASSUME IInv, NEW p \in Procs, NEW n \in Nat \ {0}, NEW f \in Nat \ {0},
           NEW w \in Nat, NEW nb \in BOOLEAN, WriteLoop(p, n, f, w, nb),
           pc[p] \in {"user", "wwait"}, p \notin asleep, Rest
    PROVE  IInv'
<1>0. ~Copying(p)
  BY DEF Copying
<1>1. CASE PIPE_FREE < f \/ PIPE_LOCK
  <2>1. WriteWait(p, n, f, w, nb, asleep) /\ UNCHANGED ring
    BY <1>1 DEF WriteLoop
  <2>2. QED
    BY <1>0, <1>1, <2>1, WriteWaitInv
<1>2. CASE ~(PIPE_FREE < f \/ PIPE_LOCK)
  <2>1. lock' = lock + 1 /\ AddChunk(p, n) /\ base' = base
    BY <1>2 DEF WriteLoop
  <2>2. len < PIPE_BUF
    BY <1>2 DEF PIPE_FREE, IInv, TypeOK
  <2>3. QED
    BY <1>2, <2>1, <2>2, AddInv
<1>3. QED
  BY <1>1, <1>2

\* The start of pipe_write, up to its first copy, sleep or return.
LEMMA pipe_writeInv ==
    ASSUME IInv, NEW p \in Procs, NEW n \in Counts, NEW nb \in BOOLEAN,
           pipe_write(p, n, nb)
    PROVE  IInv'
<1>1. Rest /\ n \in Nat \ {0} /\ pc[p] = "user"
  <2>1. /\ calls' = [calls EXCEPT ![p] = calls[p] + 1]
        /\ done' = [done EXCEPT ![p] = 0]
        /\ nonblock' = [nonblock EXCEPT ![p] = nb]
        /\ UNCHANGED <<readers, writers, holds>> /\ pc[p] = "user"
    BY DEF pipe_write
  <2>2. calls' \in [Procs -> Nat] /\ done' \in [Procs -> Nat]
    <3>1. calls[p] + 1 \in Nat
      BY SMTT(20) DEF IInv, TypeOK
    <3>2. QED
      BY <2>1, <3>1 DEF IInv, TypeOK
  <2>3. nonblock' \in [Procs -> BOOLEAN]
    BY <2>1, Zenon DEF IInv, TypeOK
  <2>4. QED
    BY <2>1, <2>2, <2>3 DEF Rest
<1>2. p \notin asleep /\ ~Copying(p)
  BY <1>1, SleeperWaits DEF Copying
<1>3. CASE readers = 0
  <2>1. Return(p, EPIPE) /\ UNCHANGED <<ring, asleep>>
    BY <1>3 DEF pipe_write
  <2>2. QED
    BY <1>1, <1>2, <2>1, ReturnInv DEF EPIPE
<1>4. CASE readers # 0
  <2>1. WriteLoop(p, n, FirstSpace(n), 0, nb)
    BY <1>4 DEF pipe_write
  <2>2. FirstSpace(n) \in Nat \ {0}
    BY <1>1 DEF FirstSpace
  <2>3. QED
    BY <1>1, <1>2, <2>1, <2>2, WriteLoopInv
<1>5. QED
  BY <1>3, <1>4

\* A writer that was woken looks for space again.
LEMMA WriteResumeInv ==
    ASSUME IInv, NEW p \in Procs, WriteResume(p)
    PROVE  IInv'
<1>1. /\ Rest /\ pc[p] = "wwait" /\ p \notin asleep
      /\ count[p] \in Nat \ {0} /\ free[p] \in Nat \ {0}
      /\ done[p] \in Nat /\ nonblock[p] \in BOOLEAN
  BY DEF WriteResume, Rest, IInv, TypeOK, Wanting
<1>2. WriteLoop(p, count[p], free[p], done[p], nonblock[p])
  BY DEF WriteResume
<1>3. QED
  BY <1>1, <1>2, WriteLoopInv

\* pipe_write after a copy: the next chunk, or unlock, wake and go on or return.
LEMMA WriteCopyInv ==
    ASSUME IInv, NEW p \in Procs, WriteCopy(p)
    PROVE  IInv'
<1>1. chunk[p].chars \in Nat /\ done[p] \in Nat /\ count[p] \in Nat
  BY DEF IInv, TypeOK, Chunks
<1>2. done' \in [Procs -> Nat] /\ DOMAIN base' = DOMAIN base
  <2>1. done' = [done EXCEPT ![p] = done[p] + chunk[p].chars]
    BY DEF WriteCopy
  <2>2. DOMAIN base' = DOMAIN base
    BY DEF WriteCopy
  <2>3. done \in [Procs -> Nat]
    BY DEF IInv, TypeOK
  <2>4. done[p] + chunk[p].chars \in Nat
    BY <1>1
  <2>5. QED
    BY <2>1, <2>2, <2>3, <2>4
<1>3. Rest /\ Copying(p) /\ pc[p] = "wcopy"
  BY <1>2 DEF WriteCopy, Rest, IInv, TypeOK, Copying
<1>4. p \notin asleep
  BY <1>3, SleeperWaits
<1>5. CASE count[p] > 0 /\ PIPE_FREE > 0 /\ AddChunk(p, count[p]) /\ UNCHANGED lock
  <2>1. len < PIPE_BUF /\ count[p] \in Nat \ {0}
    BY <1>1, <1>5 DEF PIPE_FREE, IInv, TypeOK
  <2>2. QED
    BY <1>2, <1>3, <1>4, <1>5, <2>1, AddInv
<1>6. CASE /\ lock' = lock - 1 /\ asleep' = {} /\ UNCHANGED <<start, len>>
           /\ Return(p, done[p] + chunk[p].chars)
  <2>1. done[p] + chunk[p].chars \in Int
    BY <1>1
  <2>2. QED
    BY <1>2, <1>3, <1>6, <2>1, UnlockInv
<1>7. CASE /\ count[p] > 0 /\ PIPE_FREE = 0 /\ lock' = lock - 1
           /\ WriteWait(p, count[p], 1, done[p] + chunk[p].chars, nonblock[p], {})
           /\ UNCHANGED <<start, len>>
  <2>1. CASE \E r \in Int : Return(p, r) /\ asleep' = {}
    BY <1>2, <1>3, <1>7, <2>1, UnlockInv
  <2>2. CASE readers > 0 /\ SleepOn(p, "wwait", count[p], 1, {})
    <3>1. count[p] \in Nat \ {0}
      BY <1>1, <1>7
    <3>2. QED
      BY <1>2, <1>3, <1>7, <2>2, <3>1, UnlockInv
  <2>3. \A code \in {EPIPE, ERESTARTSYS, EAGAIN} :
            Result(done[p] + chunk[p].chars, code) \in Int
    BY <1>1 DEF Result, EPIPE, ERESTARTSYS, EAGAIN
  <2>4. QED
    BY <1>7, <2>1, <2>2, <2>3 DEF WriteWait
<1>8. QED
  BY <1>5, <1>6, <1>7 DEF WriteCopy, WakeUp

\* Closing the last descriptor of an end wakes everybody.
LEMMA close_fpInv ==
    ASSUME IInv, NEW p \in Procs, NEW e \in Ends, close_fp(p, e)
    PROVE  IInv'
<1>1. /\ holds' = [holds EXCEPT ![p] = holds[p] \ {e}] /\ e \in holds[p]
      /\ UNCHANGED <<start, len, lock, base, pc, sig, count, done, free, chunk,
                     nonblock, ret, calls>>
  BY DEF close_fp, ring, local
<1>2. /\ holds' \in [Procs -> SUBSET Ends]
      /\ holds'[p] = holds[p] \ {e} /\ \A q \in Procs \ {p} : holds'[q] = holds[q]
  BY <1>1 DEF IInv, TypeOK
<1>3. CASE \E q \in Procs \ {p} : e \in holds[q]
  <2>1. UNCHANGED <<readers, writers, asleep>>
    BY <1>3 DEF close_fp
  <2>2. TypeOK' /\ LockExclusion' /\ Wanting' /\ NoLostWakeup'
    BY <1>1, <1>2, <2>1
       DEF IInv, TypeOK, LockExclusion, Copying, Wanting, NoLostWakeup, PIPE_FREE
  <2>3. EndCounts'
    BY <1>1, <1>2, <1>3, <2>1 DEF IInv, EndCounts
  <2>4. QED
    BY <2>2, <2>3 DEF IInv
<1>4. CASE ~\E q \in Procs \ {p} : e \in holds[q]
  <2>1. /\ readers' = IF e = "r" THEN readers - 1 ELSE readers
        /\ writers' = IF e = "w" THEN writers - 1 ELSE writers
        /\ asleep' = {}
    BY <1>4 DEF close_fp, WakeUp
  <2>2. /\ readers = IF \E q \in Procs : "r" \in holds[q] THEN 1 ELSE 0
        /\ writers = IF \E q \in Procs : "w" \in holds[q] THEN 1 ELSE 0
    BY DEF IInv, EndCounts
  <2>3. EndCounts' /\ readers' \in Nat /\ writers' \in Nat
    <3>1. CASE e = "r"
      BY <1>1, <1>2, <1>4, <2>1, <2>2, <3>1 DEF EndCounts
    <3>2. CASE e = "w"
      BY <1>1, <1>2, <1>4, <2>1, <2>2, <3>2 DEF EndCounts
    <3>3. QED
      BY <3>1, <3>2
  <2>4. TypeOK' /\ LockExclusion' /\ Wanting' /\ NoLostWakeup'
    BY <1>1, <1>2, <2>1, <2>3
       DEF IInv, TypeOK, LockExclusion, Copying, Wanting, NoLostWakeup
  <2>5. QED
    BY <2>3, <2>4 DEF IInv
<1>5. QED
  BY <1>3, <1>4

\* A signal only makes a sleeper runnable.
LEMMA send_sigInv ==
    ASSUME IInv, NEW p \in Procs, send_sig(p)
    PROVE  IInv'
  BY DEF send_sig, ring, local, IInv, TypeOK, LockExclusion, Copying, EndCounts,
         Wanting, NoLostWakeup, PIPE_FREE

-----------------------------------------------------------------------------
(* The theorems.                                                           *)

\* Every step of every process preserves the invariant.
LEMMA NextInv == IInv /\ [Next]_vars => IInv'
<1> SUFFICES ASSUME IInv, [Next]_vars PROVE IInv'
  OBVIOUS
<1>1. CASE Next
  BY <1>1, pipe_readInv, ReadResumeInv, ReadCopyInv, pipe_writeInv, WriteResumeInv,
     WriteCopyInv, close_fpInv, send_sigInv DEF Next, Proceed
<1>2. CASE UNCHANGED vars
  BY <1>2 DEF vars, IInv, TypeOK, LockExclusion, Copying, EndCounts, Wanting,
              NoLostWakeup, PIPE_FREE
<1>3. QED
  BY <1>1, <1>2

\* IInv holds in every state of every behaviour of a pipe.
LEMMA Invariance == Spec => []IInv
  BY InitInv, NextInv, PTL DEF Spec

\* The state of a pipe stays inside its bounds: in particular PIPE_START and
\* PIPE_LEN never leave the page and no counter becomes negative, whatever the
\* interleaving of reads, writes, closes and signals.
THEOREM TypeCorrect == Spec => []TypeOK
<1>1. IInv => TypeOK
  BY DEF IInv
<1>2. QED
  BY Invariance, <1>1, PTL

\* PIPE_LOCK is a mutual exclusion lock: at most one process is inside the
\* copy loops of pipe_read and pipe_write, across page faults.
THEOREM MutualExclusion == Spec => []LockExclusion
<1>1. IInv => LockExclusion
  BY DEF IInv
<1>2. QED
  BY Invariance, <1>1, PTL

\* No process sleeps on PIPE_WAIT without a reason: every change that could
\* let a reader or a writer go on wakes it.
THEOREM NoSleeperForgotten == Spec => []NoLostWakeup
<1>1. IInv => NoLostWakeup
  BY DEF IInv
<1>2. QED
  BY Invariance, <1>1, PTL

-----------------------------------------------------------------------------
(* The order of the bytes.                                                 *)

Bytes == [by : Procs \cup {"none"}, call : Nat, nr : Nat, of : Nat]
Pages == [0 .. PIPE_BUF - 1 -> Bytes]

\* A place in the page, and n bytes of page b from there on, around its end.
Place(x) == x % PIPE_BUF
Cells(b, at, n) == [i \in 1 .. n |-> b[Place(at + i - 1)]]
Cat(x, y) == x \o y

\* Where the copies in progress read and write: within the page, and what is
\* being written is the end of what PIPE_LEN counts.
Flight ==
    /\ base \in Pages /\ sent \in Seq(Bytes) /\ got \in Seq(Bytes)
    /\ \A p \in Procs : Copying(p) =>
           chunk[p].chars > 0 /\ chunk[p].at + chunk[p].chars <= PIPE_BUF
    /\ \A p \in Procs : pc[p] = "wcopy" =>
           /\ chunk[p].chars <= len
           /\ chunk[p].at = Place(start + (len - chunk[p].chars))

\* FifoOrder, by what is going on.
Order ==
    /\ lock = 0 => sent = Cat(got, Cells(base, start, len))
    /\ \A p \in Procs : pc[p] = "rcopy" =>
           sent = Cat(Cat(got, Cells(base, chunk[p].at, chunk[p].chars)), Cells(base, start, len))
    /\ \A p \in Procs : pc[p] = "wcopy" =>
           sent = Cat(got, Cells(base, start, len - chunk[p].chars))

OInv == IInv /\ Flight /\ Order

\* A position in the page, or one round further.
LEMMA Wrap ==
    ASSUME NEW x \in Nat, x < 2 * PIPE_BUF
    PROVE  /\ Place(x) \in 0 .. PIPE_BUF - 1
           /\ Place(x) = IF x < PIPE_BUF THEN x ELSE x - PIPE_BUF
<1>1. PIPE_BUF \in Nat \ {0}
  OBVIOUS
<1> DEFINE d == x \div PIPE_BUF
<1>2. d \in Int /\ x % PIPE_BUF \in 0 .. PIPE_BUF - 1 /\ x = PIPE_BUF * d + (x % PIPE_BUF)
  BY <1>1
<1> HIDE DEF d
<1>3. (d >= 2 => PIPE_BUF * d >= 2 * PIPE_BUF) /\ (d <= -1 => PIPE_BUF * d <= -PIPE_BUF)
  BY <1>1, <1>2
<1>4. d = 0 \/ d = 1
  BY <1>1, <1>2, <1>3
<1>5. CASE d = 0
  BY <1>1, <1>2, <1>5 DEF Place
<1>6. CASE d = 1
  BY <1>1, <1>2, <1>6 DEF Place
<1> QED
  BY <1>4, <1>5, <1>6

\* A function on 1 .. n is a sequence.
LEMMA FunctionIsSeq ==
    ASSUME NEW S, NEW n \in Nat, NEW f \in [1 .. n -> S]
    PROVE  f \in Seq(S) /\ Len(f) = n
<1>1. f \in Seq(S)
  BY SeqDef
<1>2. Len(f) \in Nat /\ DOMAIN f = 1 .. Len(f)
  BY <1>1, LenProperties
<1>3. 1 .. Len(f) = 1 .. n
  BY <1>2
<1>4. Len(f) = n
  <2>1. n \in 1 .. n \/ n = 0
    OBVIOUS
  <2>2. Len(f) \in 1 .. Len(f) \/ Len(f) = 0
    BY <1>2
  <2> QED
    BY <1>2, <1>3, <2>1, <2>2
<1> QED
  BY <1>1, <1>4

LEMMA CellsType ==
    ASSUME NEW b \in Pages, NEW at \in 0 .. PIPE_BUF - 1, NEW n \in 0 .. PIPE_BUF
    PROVE  /\ Cells(b, at, n) \in Seq(Bytes) /\ Len(Cells(b, at, n)) = n
           /\ \A i \in 1 .. n : Cells(b, at, n)[i] = b[Place(at + i - 1)]
<1>1. \A i \in 1 .. n : b[Place(at + i - 1)] \in Bytes
  <2> TAKE i \in 1 .. n
  <2>1. at + i - 1 \in Nat /\ at + i - 1 < 2 * PIPE_BUF
    OBVIOUS
  <2>2. Place(at + i - 1) \in 0 .. PIPE_BUF - 1
    BY <2>1, Wrap
  <2> QED
    BY <2>2 DEF Pages
<1>2. Cells(b, at, n) \in [1 .. n -> Bytes] /\ n \in Nat
  BY <1>1 DEF Cells
<1>3. Cells(b, at, n) \in Seq(Bytes) /\ Len(Cells(b, at, n)) = n
  BY <1>2, FunctionIsSeq
<1> QED
  BY <1>3 DEF Cells

\* Two sequences, one after the other.
LEMMA TwoParts ==
    ASSUME NEW S, NEW x \in Seq(S), NEW y \in Seq(S), NEW c \in Nat, NEW m \in Nat,
           Len(x) = c, Len(y) = m
    PROVE  /\ Cat(x, y) \in Seq(S) /\ Len(Cat(x, y)) = c + m
           /\ \A i \in 1 .. c + m : Cat(x, y)[i] = IF i <= c THEN x[i] ELSE y[i - c]
  BY ConcatProperties DEF Cat

LEMMA CatType ==
    ASSUME NEW S, NEW x \in Seq(S), NEW y \in Seq(S) PROVE Cat(x, y) \in Seq(S)
  BY ConcatProperties DEF Cat

LEMMA CatAssociative ==
    ASSUME NEW S, NEW x \in Seq(S), NEW y \in Seq(S), NEW z \in Seq(S)
    PROVE  Cat(Cat(x, y), z) = Cat(x, Cat(y, z))
  BY ConcatAssociative DEF Cat

\* What is taken from the front, and what is left.
LEMMA CellsSplit ==
    \A b \in Pages, at \in 0 .. PIPE_BUF - 1, n \in 0 .. PIPE_BUF, c, m, s \in Nat :
        n = c + m /\ s = Place(at + c)
            => Cells(b, at, n) = Cat(Cells(b, at, c), Cells(b, s, m))
<1> TAKE b \in Pages, at \in 0 .. PIPE_BUF - 1, n \in 0 .. PIPE_BUF, c, m, s \in Nat
<1> HAVE n = c + m /\ s = Place(at + c)
<1> DEFINE x == Cells(b, at, c)
           y == Cells(b, s, m)
           w == Cells(b, at, n)
<1>1. at + c \in Nat /\ at + c < 2 * PIPE_BUF
  OBVIOUS
<1>2. s \in 0 .. PIPE_BUF - 1 /\ s = IF at + c < PIPE_BUF THEN at + c ELSE at + c - PIPE_BUF
  BY <1>1, Wrap
<1>3. c \in 0 .. PIPE_BUF /\ m \in 0 .. PIPE_BUF
  OBVIOUS
<1>4. x \in Seq(Bytes) /\ Len(x) = c /\ \A i \in 1 .. c : x[i] = b[Place(at + i - 1)]
  BY <1>3, CellsType
<1>5. y \in Seq(Bytes) /\ Len(y) = m /\ \A i \in 1 .. m : y[i] = b[Place(s + i - 1)]
  BY <1>2, <1>3, CellsType
<1>6. w \in Seq(Bytes) /\ Len(w) = n /\ \A i \in 1 .. n : w[i] = b[Place(at + i - 1)]
  BY CellsType
<1> HIDE DEF x, y, w
<1>7. /\ Cat(x, y) \in Seq(Bytes) /\ Len(Cat(x, y)) = c + m
      /\ \A i \in 1 .. c + m : Cat(x, y)[i] = IF i <= c THEN x[i] ELSE y[i - c]
  <2>1. x \in Seq(Bytes) /\ Len(x) = c /\ y \in Seq(Bytes) /\ Len(y) = m
    BY <1>4, <1>5, Zenon
  <2> QED
    BY <2>1, TwoParts
<1>8. c + m = n
  OBVIOUS
<1>9. ASSUME NEW i \in 1 .. n PROVE w[i] = Cat(x, y)[i]
  <2>1. CASE i <= c
    <3>1. Cat(x, y)[i] = x[i]
      BY <1>4, <1>7, <1>8, <2>1
    <3>2. i \in 1 .. c
      BY <2>1
    <3> QED
      BY <1>4, <1>6, <3>1, <3>2
  <2>2. CASE i > c
    <3>0. i - c \in 1 .. m /\ i \in 1 .. c + m /\ ~(i <= c)
      BY <1>8, <2>2
    <3>1. Cat(x, y)[i] = y[i - c] /\ i - c \in 1 .. m
      BY <1>7, <3>0, Zenon
    <3>2. y[i - c] = b[Place(s + (i - c) - 1)]
      BY <1>5, <3>1
    <3>3. /\ s + (i - c) - 1 \in Nat /\ s + (i - c) - 1 < 2 * PIPE_BUF
          /\ at + i - 1 \in Nat /\ at + i - 1 < 2 * PIPE_BUF
      BY <1>2, <2>2
    <3>4. Place(s + (i - c) - 1) = IF s + (i - c) - 1 < PIPE_BUF THEN s + (i - c) - 1
                                   ELSE s + (i - c) - 1 - PIPE_BUF
      BY <3>3, Wrap
    <3>5. Place(at + i - 1) = IF at + i - 1 < PIPE_BUF THEN at + i - 1 ELSE at + i - 1 - PIPE_BUF
      BY <3>3, Wrap
    <3>6. Place(s + (i - c) - 1) = Place(at + i - 1)
      BY <1>2, <2>2, <3>4, <3>5
    <3> QED
      BY <1>6, <3>1, <3>2, <3>6
  <2>3. i <= c \/ i > c
    OBVIOUS
  <2> QED
    BY <2>1, <2>2, <2>3, Zenon
<1>10. w = Cat(x, y)
  BY <1>6, <1>7, <1>8, <1>9, SeqEqual
<1> QED
  BY <1>10 DEF x, y, w

\* Copying in leaves the m bytes ahead of it alone.
LEMMA CellsAhead ==
    ASSUME NEW b \in Pages, NEW d \in Pages, NEW at \in 0 .. PIPE_BUF - 1, NEW m \in Nat,
           NEW c \in Nat, m + c <= PIPE_BUF, NEW e, e = Place(at + m), e + c <= PIPE_BUF, c > 0,
           \A k \in 0 .. PIPE_BUF - 1 : k < e \/ k >= e + c => d[k] = b[k]
    PROVE  Cells(d, at, m) = Cells(b, at, m)
<1>0. at + m \in Nat /\ at + m < 2 * PIPE_BUF
  OBVIOUS
<1>1. e \in 0 .. PIPE_BUF - 1 /\ e = IF at + m < PIPE_BUF THEN at + m ELSE at + m - PIPE_BUF
  BY <1>0, Wrap
<1>2. ASSUME NEW i \in 1 .. m PROVE d[Place(at + i - 1)] = b[Place(at + i - 1)]
  <2>1. at + i - 1 \in Nat /\ at + i - 1 < 2 * PIPE_BUF
    OBVIOUS
  <2>2. PICK k : k = Place(at + i - 1)
    OBVIOUS
  <2>3. k \in 0 .. PIPE_BUF - 1 /\ k = IF at + i - 1 < PIPE_BUF THEN at + i - 1
                                      ELSE at + i - 1 - PIPE_BUF
    BY <2>1, <2>2, Wrap
  <2>4. k < e \/ k >= e + c
    BY <1>1, <2>1, <2>3
  <2> QED
    BY <2>2, <2>3, <2>4
<1> QED
  BY <1>2 DEF Cells

\* A step of a process outside the copy loops, which it does not enter.
LEMMA OutsideOrder ==
    ASSUME OInv, NEW p \in Procs, ~Copying(p), pc' = [pc EXCEPT ![p] = pc'[p]],
           pc'[p] \notin {"rcopy", "wcopy"}, chunk' = [chunk EXCEPT ![p] = chunk'[p]],
           UNCHANGED <<ring, sent, got>>
    PROVE  Flight' /\ Order'
<1>1. pc \in [Procs -> PCs] /\ chunk \in [Procs -> Chunks] /\ Flight /\ Order
  BY DEF OInv, IInv, TypeOK
<1>2. \A q \in Procs : q # p => pc'[q] = pc[q] /\ chunk'[q] = chunk[q]
  BY <1>1
<1>3. \A q \in Procs : pc'[q] \in {"rcopy", "wcopy"} => pc'[q] = pc[q] /\ chunk'[q] = chunk[q]
  BY <1>2
<1>4. UNCHANGED <<start, len, lock, base>>
  BY DEF ring
<1>5. Flight'
  BY <1>1, <1>3, <1>4 DEF Flight, Copying
<1>6. Order'
  BY <1>1, <1>3, <1>4 DEF Order
<1> QED
  BY <1>5, <1>6

\* The process in the copy loops has left them.
LEMMA IdleOrder ==
    ASSUME IInv', \A q \in Procs : pc'[q] \notin {"rcopy", "wcopy"}, base' \in Pages,
           sent' \in Seq(Bytes), got' \in Seq(Bytes), sent' = Cat(got', Cells(base', start', len'))
    PROVE  Flight' /\ Order'
  BY DEF Flight, Order, Copying

\* The next chunk to read is taken, by the only process in the copy loops.
LEMMA TakeOrder ==
    ASSUME IInv, IInv', NEW p \in Procs, NEW n \in Nat \ {0}, len > 0, TakeChunk(p, n),
           \A q \in Procs : q # p => ~Copying(q), base' = base, sent' = sent, base \in Pages,
           sent \in Seq(Bytes), got' \in Seq(Bytes), sent = Cat(got', Cells(base, start, len))
    PROVE  Flight' /\ Order'
<1>1. /\ pc \in [Procs -> PCs] /\ chunk \in [Procs -> Chunks]
      /\ start \in 0 .. PIPE_BUF - 1 /\ len \in 0 .. PIPE_BUF
  BY DEF IInv, TypeOK
<1>2. PICK c : c = ReadChunk(n)
  OBVIOUS
<1>3. c \in 1 .. PIPE_BUF - start /\ c <= len
  BY <1>2, ReadChunkBounds DEF IInv
<1>4. /\ start' = (start + c) % PIPE_BUF /\ len' = len - c
      /\ chunk' = [chunk EXCEPT ![p] = [at |-> start, chars |-> c]]
      /\ pc' = [pc EXCEPT ![p] = "rcopy"]
  BY <1>2 DEF TakeChunk
<1>5. /\ chunk'[p].at = start /\ chunk'[p].chars = c /\ pc'[p] = "rcopy"
      /\ \A q \in Procs : q # p => pc'[q] = pc[q] /\ pc[q] \notin {"rcopy", "wcopy"}
  BY <1>1, <1>4 DEF Copying
<1>6. lock' # 0
  BY <1>5 DEF IInv, LockExclusion, Copying
<1>7. Flight'
  <2>1. start + c <= PIPE_BUF /\ c > 0
    BY <1>1, <1>3
  <2> QED
    BY <1>5, <2>1 DEF Flight, Copying
<1>8. sent = Cat(Cat(got', Cells(base, start, c)), Cells(base, start', len'))
  <2>1. start' = Place(start + c) /\ c \in Nat /\ c <= len /\ c \in 0 .. PIPE_BUF
    BY <1>1, <1>3, <1>4 DEF Place
  <2>2. Cells(base, start, len) = Cat(Cells(base, start, c), Cells(base, start', len'))
    <3>1. len = c + len' /\ len' \in Nat /\ start' \in Nat
      BY <1>1, <1>3, <1>4 DEF IInv, TypeOK
    <3>2. len = c + len' /\ start' = Place(start + c)
      BY <2>1, <3>1
    <3>3. \A d, m, s \in Nat : len = d + m /\ s = Place(start + d)
              => Cells(base, start, len) = Cat(Cells(base, start, d), Cells(base, s, m))
      BY <1>1, CellsSplit
    <3> QED
      BY <2>1, <3>1, <3>2, <3>3
  <2>3. Cells(base, start, c) \in Seq(Bytes)
    BY <1>1, <2>1, CellsType
  <2>4. Cells(base, start', len') \in Seq(Bytes)
    <3>1. start' \in 0 .. PIPE_BUF - 1 /\ len' \in 0 .. PIPE_BUF
      BY DEF IInv, TypeOK
    <3> QED
      BY <3>1, CellsType
  <2>5. Cat(Cat(got', Cells(base, start, c)), Cells(base, start', len'))
           = Cat(got', Cat(Cells(base, start, c), Cells(base, start', len')))
    BY <2>3, <2>4, CatAssociative
  <2> QED
    BY <2>2, <2>5
<1>9. Order'
  <2>1. sent' = Cat(Cat(got', Cells(base', chunk'[p].at, chunk'[p].chars)), Cells(base', start', len'))
    BY <1>5, <1>8
  <2>2. \A q \in Procs : (pc'[q] = "rcopy" => q = p) /\ pc'[q] # "wcopy"
    BY <1>5
  <2> QED
    BY <1>6, <2>1, <2>2 DEF Order
<1> QED
  BY <1>7, <1>9

\* Room for the next chunk to write is taken, by the only process there.
LEMMA AddOrder ==
    ASSUME IInv, IInv', NEW p \in Procs, NEW n \in Nat \ {0}, len < PIPE_BUF, AddChunk(p, n),
           \A q \in Procs : q # p => ~Copying(q), got' = got, base' \in Pages,
           sent' \in Seq(Bytes), got \in Seq(Bytes), sent' = Cat(got, Cells(base', start, len))
    PROVE  Flight' /\ Order'
<1>1. /\ pc \in [Procs -> PCs] /\ chunk \in [Procs -> Chunks]
      /\ start \in 0 .. PIPE_BUF - 1 /\ len \in 0 .. PIPE_BUF
  BY DEF IInv, TypeOK
<1>2. PICK c : c = WriteChunk(n)
  OBVIOUS
<1>3. PIPE_END \in 0 .. PIPE_BUF - 1 /\ c \in 1 .. PIPE_BUF - PIPE_END /\ c <= PIPE_BUF - len
  BY <1>2, WriteChunkBounds DEF IInv
<1>4. /\ start' = start /\ len' = len + c
      /\ chunk' = [chunk EXCEPT ![p] = [at |-> PIPE_END, chars |-> c]]
      /\ pc' = [pc EXCEPT ![p] = "wcopy"]
  BY <1>2 DEF AddChunk
<1>5. /\ chunk'[p].at = PIPE_END /\ chunk'[p].chars = c /\ pc'[p] = "wcopy"
      /\ \A q \in Procs : q # p => pc'[q] = pc[q] /\ pc[q] \notin {"rcopy", "wcopy"}
  BY <1>1, <1>4 DEF Copying
<1>6. lock' # 0
  BY <1>5 DEF IInv, LockExclusion, Copying
<1>7. len' - c = len
  BY <1>1, <1>3, <1>4
<1>8. Flight'
  <2>1. PIPE_END + c <= PIPE_BUF /\ c > 0 /\ c <= len'
    BY <1>1, <1>3, <1>4
  <2>2. PIPE_END = Place(start' + (len' - c))
    BY <1>4, <1>7 DEF PIPE_END, Place
  <2> QED
    BY <1>5, <2>1, <2>2 DEF Flight, Copying
<1>9. Order'
  <2>1. sent' = Cat(got', Cells(base', start', len' - chunk'[p].chars))
    BY <1>4, <1>5, <1>7
  <2> QED
    BY <1>5, <1>6, <2>1 DEF Order
<1> QED
  BY <1>8, <1>9

\* No process but the one that may enter the copy loops is in them.
LEMMA Alone ==
    ASSUME IInv, NEW p \in Procs, Copying(p) \/ lock = 0
    PROVE  \A q \in Procs : q # p => ~Copying(q)
  BY DEF IInv, LockExclusion

\* A call that returns, or goes to sleep, without having been in the copy loops.
LEMMA ReturnOrder ==
    ASSUME OInv, NEW p \in Procs, NEW r, Return(p, r), ~Copying(p), UNCHANGED <<ring, sent, got>>
    PROVE  Flight' /\ Order'
<1>1. pc' = [pc EXCEPT ![p] = "user"] /\ chunk' = [chunk EXCEPT ![p] = NoChunk]
  BY DEF Return
<1>2. pc'[p] = "user" /\ chunk'[p] = NoChunk
  BY <1>1 DEF OInv, IInv, TypeOK
<1> QED
  BY <1>1, <1>2, OutsideOrder

LEMMA SleepOrder ==
    ASSUME OInv, NEW p \in Procs, NEW where \in {"rwait", "wwait"}, NEW n, NEW f, NEW q,
           SleepOn(p, where, n, f, q), ~Copying(p), UNCHANGED <<ring, sent, got>>
    PROVE  Flight' /\ Order'
<1>1. pc' = [pc EXCEPT ![p] = where] /\ chunk' = [chunk EXCEPT ![p] = NoChunk]
  BY DEF SleepOn
<1>2. pc'[p] = where /\ chunk'[p] = NoChunk
  BY <1>1 DEF OInv, IInv, TypeOK
<1> QED
  BY <1>1, <1>2, OutsideOrder

LEMMA ReadLoopOrder ==
    ASSUME OInv, IInv', NEW p \in Procs, NEW n \in Nat \ {0}, ReadLoop(p, n), ~Copying(p),
           UNCHANGED <<sent, got>>
    PROVE  Flight' /\ Order'
<1>0. pc \in [Procs -> PCs] /\ chunk \in [Procs -> Chunks] /\ lock \in Nat /\ IInv
  BY DEF OInv, IInv, TypeOK
<1>1. ASSUME NEW r, Return(p, r), UNCHANGED ring PROVE Flight' /\ Order'
  BY <1>1, ReturnOrder
<1>2. ASSUME SleepOn(p, "rwait", n, 0, asleep), UNCHANGED ring PROVE Flight' /\ Order'
  BY <1>2, SleepOrder
<1>3. ASSUME ~PIPE_LOCK, len > 0, TakeChunk(p, n), base' = base PROVE Flight' /\ Order'
  <2>1. lock = 0
    BY <1>0, <1>3 DEF PIPE_LOCK
  <2>2. \A q \in Procs : q # p => ~Copying(q)
    BY <1>0, <2>1, Alone
  <2>3. base \in Pages /\ sent \in Seq(Bytes) /\ got \in Seq(Bytes)
        /\ sent = Cat(got, Cells(base, start, len))
    BY <2>1 DEF OInv, Flight, Order
  <2> QED
    BY <1>0, <1>3, <2>2, <2>3, TakeOrder
<1> QED
  BY <1>1, <1>2, <1>3 DEF ReadLoop

LEMMA ReadCopyOrder ==
    ASSUME OInv, IInv', NEW p \in Procs, ReadCopy(p)
    PROVE  Flight' /\ Order'
<1>0. /\ pc \in [Procs -> PCs] /\ chunk \in [Procs -> Chunks] /\ count \in [Procs -> Nat]
      /\ start \in 0 .. PIPE_BUF - 1 /\ len \in 0 .. PIPE_BUF /\ IInv
  BY DEF OInv, IInv, TypeOK
<1>1. pc[p] = "rcopy" /\ Copying(p) /\ base' = base /\ sent' = sent
  BY DEF ReadCopy, Copying
<1>2. PICK at, c : at = chunk[p].at /\ c = chunk[p].chars
  OBVIOUS
<1>3. /\ at \in 0 .. PIPE_BUF - 1 /\ c \in 1 .. PIPE_BUF /\ at + c <= PIPE_BUF
      /\ base \in Pages /\ sent \in Seq(Bytes) /\ got \in Seq(Bytes)
  BY <1>0, <1>1, <1>2, SMTT(20) DEF OInv, Flight, Chunks
<1>4. got' = Cat(got, Cells(base, at, c))
  <2>1. got' = got \o [i \in 1 .. c |-> base[at + i - 1]]
    BY <1>2 DEF ReadCopy
  <2>2. ASSUME NEW i \in 1 .. c PROVE Place(at + i - 1) = at + i - 1
    <3>1. at + i - 1 \in Nat /\ at + i - 1 < PIPE_BUF /\ at + i - 1 < 2 * PIPE_BUF
      BY <1>3
    <3> QED
      BY <3>1, Wrap
  <2>3. [i \in 1 .. c |-> base[at + i - 1]] = Cells(base, at, c)
    BY <2>2 DEF Cells
  <2> QED
    BY <2>1, <2>3 DEF Cat
<1>5. got' \in Seq(Bytes) /\ sent = Cat(got', Cells(base, start, len))
  <2>0. base \in Pages /\ at \in 0 .. PIPE_BUF - 1 /\ c \in 0 .. PIPE_BUF
    BY <1>3
  <2>1. Cells(base, at, c) \in Seq(Bytes)
    BY <2>0, CellsType
  <2>2. sent = Cat(Cat(got, Cells(base, at, c)), Cells(base, start, len))
    BY <1>1, <1>2 DEF OInv, Order
  <2> QED
    BY <1>3, <1>4, <2>1, <2>2, CatType
<1>6. \A q \in Procs : q # p => ~Copying(q)
  BY <1>0, <1>1, Alone
<1>7. CASE count[p] > 0 /\ len > 0
  <2>1. TakeChunk(p, count[p]) /\ count[p] \in Nat \ {0}
    BY <1>0, <1>7 DEF ReadCopy
  <2> QED
    BY <1>0, <1>1, <1>3, <1>5, <1>6, <1>7, <2>1, TakeOrder
<1>8. CASE ~(count[p] > 0 /\ len > 0)
  <2>1. pc' = [pc EXCEPT ![p] = "user"] /\ UNCHANGED <<start, len>>
    BY <1>8 DEF ReadCopy, Return
  <2>2. \A q \in Procs : pc'[q] \notin {"rcopy", "wcopy"}
    BY <1>0, <1>6, <2>1 DEF Copying
  <2> QED
    BY <1>1, <1>3, <1>5, <2>1, <2>2, IdleOrder
<1> QED
  BY <1>7, <1>8

\* From the test of pipe_write's inner loop to the first copy.
LEMMA WriteLoopOrder ==
    ASSUME OInv, IInv', NEW p \in Procs, NEW n \in Nat \ {0}, NEW f \in Nat \ {0}, NEW w \in Nat,
           NEW nb \in BOOLEAN, WriteLoop(p, n, f, w, nb), ~Copying(p), UNCHANGED <<sent, got>>
    PROVE  Flight' /\ Order'
<1>0. pc \in [Procs -> PCs] /\ len \in 0 .. PIPE_BUF /\ lock \in Nat /\ IInv
  BY DEF OInv, IInv, TypeOK
<1>1. CASE PIPE_FREE < f \/ PIPE_LOCK
  <2>1. WriteWait(p, n, f, w, nb, asleep) /\ UNCHANGED ring
    BY <1>1 DEF WriteLoop
  <2>2. (\E r \in {Result(w, e) : e \in {EPIPE, ERESTARTSYS, EAGAIN}} : Return(p, r))
        \/ SleepOn(p, "wwait", n, f, asleep)
    BY <2>1, Zenon DEF WriteWait
  <2> QED
    BY <2>1, <2>2, ReturnOrder, SleepOrder
<1>2. CASE ~(PIPE_FREE < f \/ PIPE_LOCK)
  <2>1. AddChunk(p, n) /\ base' = base
    BY <1>2 DEF WriteLoop
  <2>2. len < PIPE_BUF /\ lock = 0
    BY <1>0, <1>2 DEF PIPE_FREE, PIPE_LOCK
  <2>3. \A q \in Procs : q # p => ~Copying(q)
    BY <1>0, <2>2, Alone
  <2>4. base \in Pages /\ sent \in Seq(Bytes) /\ got \in Seq(Bytes)
        /\ sent = Cat(got, Cells(base, start, len))
    BY <2>2 DEF OInv, Flight, Order
  <2> QED
    BY <1>0, <2>1, <2>2, <2>3, <2>4, AddOrder
<1> QED
  BY <1>1, <1>2

\* What the copy of a chunk puts into the page and at the end of sent.
LEMMA CopyIn ==
    ASSUME OInv, NEW p \in Procs, WriteCopy(p)
    PROVE  base' \in Pages /\ sent' \in Seq(Bytes) /\ sent' = Cat(got, Cells(base', start, len))
<1>0. /\ chunk \in [Procs -> Chunks] /\ count[p] \in Nat /\ done[p] \in Nat /\ calls[p] \in Nat
      /\ start \in 0 .. PIPE_BUF - 1 /\ len \in 0 .. PIPE_BUF
      /\ base \in Pages /\ sent \in Seq(Bytes) /\ got \in Seq(Bytes)
  BY DEF OInv, IInv, TypeOK, Flight
<1>1. PICK at, c : at = chunk[p].at /\ c = chunk[p].chars
  OBVIOUS
<1>2. /\ at \in 0 .. PIPE_BUF - 1 /\ c \in 1 .. PIPE_BUF /\ at + c <= PIPE_BUF
      /\ c <= len /\ at = Place(start + (len - c))
      /\ sent = Cat(got, Cells(base, start, len - c))
  <2>1. pc[p] = "wcopy" /\ chunk[p] \in Chunks
    BY <1>0 DEF WriteCopy
  <2> QED
    BY <1>0, <1>1, <2>1 DEF OInv, Flight, Order, Copying, Chunks
<1>3. PICK m \in Nat : m = len - c
  BY <1>0, <1>2
<1> DEFINE bytes == [i \in 1 .. c |-> Byte(p, done[p] + i, done[p] + c + count[p])]
<1>4. /\ base' = [k \in DOMAIN base |-> IF k \in at .. at + c - 1 THEN bytes[k - at + 1] ELSE base[k]]
      /\ sent' = Cat(sent, bytes)
  BY <1>1 DEF WriteCopy, Cat
<1>5. bytes \in [1 .. c -> Bytes]
  <2>0. c \in 1 .. PIPE_BUF /\ count[p] \in Nat /\ done[p] \in Nat
    BY <1>0, <1>2, Zenon
  <2>1. done[p] + c + count[p] \in Nat /\ \A i \in 1 .. c : done[p] + i \in Nat
    BY <2>0
  <2>2. \A i, n \in Nat : Byte(p, i, n) \in Bytes
    BY <1>0 DEF Byte, Bytes
  <2> QED
    BY <2>1, <2>2
<1>6. bytes \in Seq(Bytes)
  BY <1>2, <1>5, FunctionIsSeq
<1> HIDE DEF bytes
<1>7. /\ base' \in Pages
      /\ \A k \in 0 .. PIPE_BUF - 1 : k < at \/ k >= at + c => base'[k] = base[k]
      /\ \A i \in 1 .. c : base'[at + i - 1] = bytes[i]
  <2>1. DOMAIN base = 0 .. PIPE_BUF - 1 /\ \A k \in 0 .. PIPE_BUF - 1 : base[k] \in Bytes
    BY <1>0 DEF Pages
  <2>2. \A k \in 0 .. PIPE_BUF - 1 :
            base'[k] = IF k \in at .. at + c - 1 THEN bytes[k - at + 1] ELSE base[k]
    BY <1>4, <2>1
  <2>3. DOMAIN base' = 0 .. PIPE_BUF - 1
    BY <1>4, <2>1
  <2>4. \A k \in at .. at + c - 1 : bytes[k - at + 1] \in Bytes
    BY <1>2, <1>5
  <2>5. \A k \in 0 .. PIPE_BUF - 1 : base'[k] \in Bytes
    BY <2>1, <2>2, <2>4
  <2>6. base' \in Pages
    <3>1. base' = [k \in 0 .. PIPE_BUF - 1 |-> base'[k]]
      BY <1>4, <2>1, <2>3
    <3> QED
      BY <2>5, <3>1 DEF Pages
  <2>7. \A k \in 0 .. PIPE_BUF - 1 : k < at \/ k >= at + c => base'[k] = base[k]
    BY <1>2, <2>2
  <2>8. ASSUME NEW i \in 1 .. c PROVE base'[at + i - 1] = bytes[i]
    <3>1. at + i - 1 \in 0 .. PIPE_BUF - 1 /\ at + i - 1 \in at .. at + c - 1
          /\ (at + i - 1) - at + 1 = i
      BY <1>2
    <3> QED
      BY <2>2, <3>1
  <2> QED
    BY <2>6, <2>7, <2>8
<1>8. Cells(base', start, m) = Cells(base, start, m)
  <2>1. m + c <= PIPE_BUF /\ c \in Nat /\ c > 0
    BY <1>0, <1>2, <1>3, SMTT(20)
  <2>2. start \in 0 .. PIPE_BUF - 1 /\ base \in Pages /\ base' \in Pages
    BY <1>0, <1>7
  <2>3. at = Place(start + m) /\ at + c <= PIPE_BUF
    BY <1>0, <1>2, <1>3
  <2>4. \A k \in 0 .. PIPE_BUF - 1 : k < at \/ k >= at + c => base'[k] = base[k]
    BY <1>7
  <2> QED
    BY <2>1, <2>2, <2>3, <2>4, CellsAhead, SMTT(20)
<1>9. Cells(base', at, c) = bytes
  <2>1. ASSUME NEW i \in 1 .. c PROVE base'[Place(at + i - 1)] = bytes[i]
    <3>1. at + i - 1 \in Nat /\ at + i - 1 < PIPE_BUF /\ at + i - 1 < 2 * PIPE_BUF
      BY <1>2
    <3>2. Place(at + i - 1) = at + i - 1
      BY <3>1, Wrap
    <3> QED
      BY <1>7, <3>2
  <2>2. bytes = [i \in 1 .. c |-> bytes[i]]
    BY <1>5
  <2> QED
    BY <2>1, <2>2 DEF Cells
<1>10. Cells(base', start, len) = Cat(Cells(base', start, m), Cells(base', at, c))
  <2>1. \A d, k, s \in Nat : len = d + k /\ s = Place(start + d)
            => Cells(base', start, len) = Cat(Cells(base', start, d), Cells(base', s, k))
    BY <1>0, <1>7, CellsSplit
  <2>2. len = m + c /\ at = Place(start + m) /\ at \in Nat /\ c \in Nat
    BY <1>0, <1>2, <1>3
  <2> QED
    BY <1>3, <2>1, <2>2
<1>11. Cells(base, start, m) \in Seq(Bytes) /\ sent = Cat(got, Cells(base, start, m))
  <2>1. m \in 0 .. PIPE_BUF
    BY <1>0, <1>2, <1>3
  <2> QED
    BY <1>0, <1>2, <1>3, <2>1, CellsType
<1>12. sent' = Cat(got, Cells(base', start, len))
  <2>1. Cat(Cat(got, Cells(base, start, m)), bytes) = Cat(got, Cat(Cells(base, start, m), bytes))
    BY <1>0, <1>6, <1>11, CatAssociative
  <2> QED
    BY <1>4, <1>8, <1>9, <1>10, <1>11, <2>1
<1>13. sent' \in Seq(Bytes)
  BY <1>0, <1>4, <1>6, CatType
<1> QED
  BY <1>7, <1>12, <1>13

LEMMA WriteCopyOrder ==
    ASSUME OInv, IInv', NEW p \in Procs, WriteCopy(p)
    PROVE  Flight' /\ Order'
<1>0. /\ pc \in [Procs -> PCs] /\ count[p] \in Nat /\ len \in 0 .. PIPE_BUF /\ IInv
      /\ got \in Seq(Bytes)
  BY DEF OInv, IInv, TypeOK, Flight
<1>1. pc[p] = "wcopy" /\ Copying(p) /\ got' = got
  BY DEF WriteCopy, Copying
<1>2. base' \in Pages /\ sent' \in Seq(Bytes) /\ sent' = Cat(got, Cells(base', start, len))
  BY CopyIn
<1>3. \A q \in Procs : q # p => ~Copying(q)
  BY <1>0, <1>1, Alone
<1>4. CASE count[p] > 0 /\ PIPE_FREE > 0 /\ AddChunk(p, count[p])
  <2>1. len < PIPE_BUF /\ count[p] \in Nat \ {0}
    BY <1>0, <1>4 DEF PIPE_FREE
  <2> QED
    BY <1>0, <1>1, <1>2, <1>3, <1>4, <2>1, AddOrder
<1>5. CASE UNCHANGED <<start, len>> /\ \E where \in {"user", "wwait"} : pc' = [pc EXCEPT ![p] = where]
  <2>1. \A q \in Procs : pc'[q] \notin {"rcopy", "wcopy"}
    BY <1>0, <1>3, <1>5 DEF Copying
  <2>2. sent' = Cat(got', Cells(base', start', len')) /\ got' \in Seq(Bytes)
    BY <1>0, <1>1, <1>2, <1>5
  <2> QED
    BY <1>2, <2>1, <2>2, IdleOrder
<1>6. (count[p] > 0 /\ PIPE_FREE > 0 /\ AddChunk(p, count[p]))
      \/ (UNCHANGED <<start, len>> /\ \E where \in {"user", "wwait"} : pc' = [pc EXCEPT ![p] = where])
  BY DEF WriteCopy, WriteWait, Return, SleepOn
<1> QED
  BY <1>4, <1>5, <1>6

LEMMA pipe_readOrder ==
    ASSUME OInv, IInv', NEW p \in Procs, NEW n \in Counts, NEW nb \in BOOLEAN, pipe_read(p, n, nb)
    PROVE  Flight' /\ Order'
<1>1. n \in Nat \ {0} /\ ~Copying(p) /\ UNCHANGED <<sent, got>>
  BY DEF pipe_read, Copying
<1>2. CASE nb /\ (PIPE_LOCK \/ len = 0)
  BY <1>1, <1>2, ReturnOrder DEF pipe_read
<1>3. CASE ~(nb /\ (PIPE_LOCK \/ len = 0))
  <2>1. ReadLoop(p, n)
    BY <1>3 DEF pipe_read
  <2> QED
    BY <1>1, <2>1, ReadLoopOrder
<1> QED
  BY <1>2, <1>3

LEMMA pipe_writeOrder ==
    ASSUME OInv, IInv', NEW p \in Procs, NEW n \in Counts, NEW nb \in BOOLEAN, pipe_write(p, n, nb)
    PROVE  Flight' /\ Order'
<1>1. n \in Nat \ {0} /\ ~Copying(p) /\ UNCHANGED <<sent, got>>
  BY DEF pipe_write, Copying
<1>2. CASE readers = 0
  BY <1>1, <1>2, ReturnOrder DEF pipe_write
<1>3. CASE readers # 0
  <2>1. WriteLoop(p, n, FirstSpace(n), 0, nb)
    BY <1>3 DEF pipe_write
  <2>2. FirstSpace(n) \in Nat \ {0}
    BY <1>1 DEF FirstSpace
  <2> QED
    BY <1>1, <2>1, <2>2, WriteLoopOrder
<1> QED
  BY <1>2, <1>3

LEMMA ResumeOrder ==
    ASSUME OInv, IInv', NEW p \in Procs, ReadResume(p) \/ WriteResume(p)
    PROVE  Flight' /\ Order'
<1>0. /\ count[p] \in Nat /\ free[p] \in Nat /\ done[p] \in Nat /\ nonblock[p] \in BOOLEAN
      /\ pc[p] \in {"rwait", "wwait"} => count[p] > 0
      /\ pc[p] = "wwait" => free[p] > 0
  BY DEF OInv, IInv, TypeOK, Wanting
<1>1. CASE ReadResume(p)
  <2>1. ReadLoop(p, count[p]) /\ ~Copying(p) /\ count[p] \in Nat \ {0} /\ UNCHANGED <<sent, got>>
    BY <1>0, <1>1 DEF ReadResume, Copying
  <2> QED
    BY <2>1, ReadLoopOrder
<1>2. CASE WriteResume(p)
  <2>1. /\ WriteLoop(p, count[p], free[p], done[p], nonblock[p]) /\ ~Copying(p)
        /\ count[p] \in Nat \ {0} /\ free[p] \in Nat \ {0} /\ UNCHANGED <<sent, got>>
    BY <1>0, <1>2 DEF WriteResume, Copying
  <2> QED
    BY <1>0, <2>1, WriteLoopOrder
<1> QED
  BY <1>1, <1>2

\* A close or a signal does not touch the page or a copy.
LEMMA ElsewhereOrder ==
    ASSUME OInv, UNCHANGED <<ring, pc, chunk, sent, got>>
    PROVE  Flight' /\ Order'
<1>1. UNCHANGED <<start, len, lock, base>>
  BY DEF ring
<1> QED
  BY <1>1 DEF OInv, Flight, Order, Copying

LEMMA InitOrder == Init => OInv
<1> SUFFICES ASSUME Init PROVE OInv
  OBVIOUS
<1>1. IInv
  BY InitInv
<1>2. /\ start = 0 /\ len = 0 /\ sent = <<>> /\ got = <<>>
      /\ base = [i \in 0 .. PIPE_BUF-1 |-> NoByte] /\ \A p \in Procs : pc[p] = "user"
  BY DEF Init
<1>3. base \in Pages
  <2>1. NoByte \in Bytes
    BY DEF NoByte, Bytes
  <2> QED
    BY <1>2, <2>1 DEF Pages
<1>4. Cells(base, start, len) = <<>> /\ <<>> \in Seq(Bytes)
  <2>1. start \in 0 .. PIPE_BUF - 1 /\ len \in 0 .. PIPE_BUF
    BY <1>2
  <2>2. Cells(base, start, len) \in Seq(Bytes) /\ Len(Cells(base, start, len)) = 0
    BY <1>2, <1>3, <2>1, CellsType
  <2> QED
    BY <2>2, EmptySeq
<1>5. sent = Cat(got, Cells(base, start, len))
  BY <1>2, <1>4, ConcatEmptySeq DEF Cat
<1> QED
  BY <1>1, <1>2, <1>3, <1>4, <1>5 DEF OInv, Flight, Order, Copying

LEMMA NextOrder == OInv /\ [Next]_vars => OInv'
<1> SUFFICES ASSUME OInv, [Next]_vars PROVE OInv'
  OBVIOUS
<1>1. IInv'
  BY NextInv DEF OInv
<1>2. CASE Next
  <2>1. PICK p \in Procs :
           \/ \E n \in Counts, nb \in BOOLEAN : pipe_read(p, n, nb) \/ pipe_write(p, n, nb)
           \/ Proceed(p)
           \/ \E e \in Ends : close_fp(p, e)
           \/ send_sig(p)
    BY <1>2 DEF Next
  <2>2. CASE \E n \in Counts, nb \in BOOLEAN : pipe_read(p, n, nb) \/ pipe_write(p, n, nb)
    BY <1>1, <2>2, pipe_readOrder, pipe_writeOrder DEF OInv
  <2>3. CASE Proceed(p)
    BY <1>1, <2>3, ResumeOrder, ReadCopyOrder, WriteCopyOrder DEF Proceed, OInv
  <2>4. CASE (\E e \in Ends : close_fp(p, e)) \/ send_sig(p)
    <3>1. UNCHANGED <<ring, pc, chunk, sent, got>>
      BY <2>4 DEF close_fp, send_sig, local
    <3> QED
      BY <1>1, <3>1, ElsewhereOrder DEF OInv
  <2> QED
    BY <2>1, <2>2, <2>3, <2>4
<1>3. CASE UNCHANGED vars
  <2>1. UNCHANGED <<ring, pc, chunk, sent, got>>
    BY <1>3 DEF vars, ring
  <2> QED
    BY <1>1, <2>1, ElsewhereOrder DEF OInv
<1> QED
  BY <1>2, <1>3

\* The three cases of Order are FifoOrder.
LEMMA OrderIsFifo == OInv => FifoOrder
<1> SUFFICES ASSUME OInv PROVE FifoOrder
  OBVIOUS
<1> DEFINE C(at, n) == [i \in 1 .. n |-> base[(at + i - 1) % PIPE_BUF]]
           leaving  == {p \in Procs : pc[p] = "rcopy"}
           entering == {p \in Procs : pc[p] = "wcopy"}
           out == IF leaving = {} THEN <<>>
                  ELSE LET p == CHOOSE q \in leaving : TRUE
                       IN  C(chunk[p].at, chunk[p].chars)
           notyet == IF entering = {} THEN 0
                     ELSE chunk[CHOOSE q \in entering : TRUE].chars
<1>1. /\ IInv /\ Order /\ start \in 0 .. PIPE_BUF - 1 /\ len \in 0 .. PIPE_BUF
      /\ base \in Pages /\ got \in Seq(Bytes) /\ chunk \in [Procs -> Chunks]
  BY DEF OInv, IInv, TypeOK, Flight
<1>2. \A at, n : C(at, n) = Cells(base, at, n)
  BY DEF Cells, Place
<1>3. \A p, q \in Procs : Copying(p) /\ Copying(q) => p = q
  BY <1>1 DEF IInv, LockExclusion
<1>4. lock = 0 <=> leaving = {} /\ entering = {}
  BY <1>1 DEF IInv, LockExclusion, Copying
<1> SUFFICES sent = Cat(Cat(got, out), C(start, len - notyet))
  BY Zenon DEF FifoOrder, Cat
<1>5. CASE leaving = {} /\ entering = {}
  <2>1. out = <<>> /\ notyet = 0 /\ len - 0 = len
    BY <1>1, <1>5
  <2>2. Cat(got, <<>>) = got
    BY <1>1, ConcatEmptySeq DEF Cat
  <2>3. sent = Cat(got, Cells(base, start, len))
    BY <1>1, <1>4, <1>5 DEF Order
  <2> HIDE DEF C, out, notyet, leaving, entering
  <2>4. C(start, len - notyet) = Cells(base, start, len)
    BY <1>2, <2>1
  <2> QED
    BY <2>1, <2>2, <2>3, <2>4
<1>6. CASE leaving # {}
  <2>1. PICK p : p = CHOOSE q \in leaving : TRUE
    OBVIOUS
  <2>2. p \in Procs /\ pc[p] = "rcopy"
    BY <1>6, <2>1
  <2>3. entering = {}
    BY <1>3, <2>2 DEF Copying
  <2>4. out = C(chunk[p].at, chunk[p].chars) /\ notyet = 0 /\ len - 0 = len
    BY <1>1, <1>6, <2>1, <2>3
  <2>5. sent = Cat(Cat(got, Cells(base, chunk[p].at, chunk[p].chars)), Cells(base, start, len))
    BY <1>1, <2>2 DEF Order
  <2> HIDE DEF C, out, notyet, leaving, entering
  <2>6. C(start, len - notyet) = Cells(base, start, len)
    BY <1>2, <2>4
  <2>7. out = Cells(base, chunk[p].at, chunk[p].chars)
    BY <1>2, <2>4
  <2> QED
    BY <2>5, <2>6, <2>7
<1>7. CASE entering # {}
  <2>1. PICK p : p = CHOOSE q \in entering : TRUE
    OBVIOUS
  <2>2. p \in Procs /\ pc[p] = "wcopy"
    BY <1>7, <2>1
  <2>3. leaving = {}
    BY <1>3, <2>2 DEF Copying
  <2>4. out = <<>> /\ notyet = chunk[p].chars
    BY <1>7, <2>1, <2>3
  <2>5. Cat(got, <<>>) = got
    BY <1>1, ConcatEmptySeq DEF Cat
  <2>6. sent = Cat(got, Cells(base, start, len - chunk[p].chars))
    BY <1>1, <2>2 DEF Order
  <2> HIDE DEF C, out, notyet, leaving, entering
  <2>7. C(start, len - notyet) = Cells(base, start, len - chunk[p].chars)
    BY <1>2, <2>4
  <2> QED
    BY <2>4, <2>5, <2>6, <2>7
<1> QED
  BY <1>5, <1>6, <1>7, Zenon

\* OInv holds in every state of every behaviour of a pipe.
LEMMA OrderInvariance == Spec => []OInv
  BY InitOrder, NextOrder, PTL DEF Spec

\* Every byte stored in a pipe reaches a reader once, in the order it was
\* stored, for every number of readers and writers, however their copies are
\* cut at the end of the page and delayed by page faults.
THEOREM BytesStayInOrder == Spec => []FifoOrder
  BY OrderInvariance, OrderIsFifo, PTL

-----------------------------------------------------------------------------
(* What pipe_write promises its caller.                                    *)

SameCall(a, b) == a.by = b.by /\ a.call = b.call

\* The places in sent of the bytes of the current, or last, call of p; the
\* bytes p was asked to write.
Stored(p) == {k \in 1 .. Len(sent) : sent[k].by = p /\ sent[k].call = calls[p]}
Total(p) == done[p] + chunk[p].chars + count[p]

\* What pipe_write's local variables say of the bytes it stored.  A call that
\* has to be atomic waits for all of its space before its first byte, so that
\* from then on it never waits, and its bytes are the last ones of sent.
Account(p) ==
    /\ pc[p] \in {"rwait", "rcopy"} => Stored(p) = {}
    /\ pc[p] = "user" => Stored(p) = {} \/ ret[p] = Cardinality(Stored(p))
    /\ pc[p] \in {"wwait", "wcopy"} =>
           /\ Cardinality(Stored(p)) = done[p]
           /\ \A k \in Stored(p) : sent[k].of = Total(p)
    /\ pc[p] = "wwait" =>
           /\ chunk[p].chars = 0
           /\ Total(p) <= PIPE_BUF => done[p] = 0 /\ free[p] = count[p]
    /\ pc[p] = "wcopy" /\ Total(p) <= PIPE_BUF =>
           /\ Stored(p) = Len(sent) - done[p] + 1 .. Len(sent)
           /\ count[p] <= PIPE_BUF - len

\* Every byte is of a call that was made; an atomic call is being copied or
\* complete; and no other byte is between its bytes.
Known == \A k \in 1 .. Len(sent) : sent[k].by \in Procs /\ sent[k].call <= calls[sent[k].by]
Atomic(k) == k \in 1 .. Len(sent) /\ sent[k].of <= PIPE_BUF
Complete ==
    \A k \in 1 .. Len(sent) : Atomic(k) =>
        \/ pc[sent[k].by] = "wcopy" /\ sent[k].call = calls[sent[k].by]
        \/ \E j \in 1 .. Len(sent) : Atomic(j) /\ SameCall(sent[j], sent[k]) /\ sent[j].nr = sent[k].of
Contiguous ==
    \A i, k \in 1 .. Len(sent) : Atomic(i) /\ Atomic(k) /\ SameCall(sent[i], sent[k]) =>
        \A j \in i .. k : SameCall(sent[j], sent[i])

Ledger == (\A p \in Procs : Account(p)) /\ Known /\ Complete /\ Contiguous
WInv == OInv /\ Ledger

\* What WInv says of the variables of a process and of sent.
LEMMA LedgerTypes ==
    ASSUME WInv
    PROVE  /\ IInv /\ Flight /\ sent \in Seq(Bytes) /\ Len(sent) \in Nat
           /\ DOMAIN sent = 1 .. Len(sent)
           /\ \A q \in Procs : /\ done[q] \in Nat /\ count[q] \in Nat /\ free[q] \in Nat
                               /\ calls[q] \in Nat /\ chunk[q].chars \in 0 .. PIPE_BUF
           /\ len \in 0 .. PIPE_BUF /\ lock \in Nat
<1>1. IInv /\ Flight /\ sent \in Seq(Bytes)
  BY DEF WInv, OInv, Flight
<1>2. Len(sent) \in Nat /\ DOMAIN sent = 1 .. Len(sent)
  BY <1>1, LenProperties
<1>3. chunk \in [Procs -> Chunks]
  BY <1>1 DEF IInv, TypeOK
<1>4. \A q \in Procs : chunk[q].chars \in 0 .. PIPE_BUF
  BY <1>3 DEF Chunks
<1>5. /\ \A q \in Procs : done[q] \in Nat /\ count[q] \in Nat /\ free[q] \in Nat /\ calls[q] \in Nat
      /\ len \in 0 .. PIPE_BUF /\ lock \in Nat
  BY <1>1 DEF IInv, TypeOK
<1> QED
  BY <1>1, <1>2, <1>4, <1>5, Zenon

\* What p's call did does not concern the others.
Aside(p) ==
    \A q \in Procs : q # p =>
        /\ pc'[q] = pc[q] /\ ret'[q] = ret[q] /\ count'[q] = count[q] /\ free'[q] = free[q]
        /\ chunk'[q] = chunk[q] /\ done'[q] = done[q] /\ calls'[q] = calls[q]

LEMMA AccountKept ==
    ASSUME NEW q \in Procs, Account(q), Stored(q)' = Stored(q),
           \A k \in Stored(q) : sent'[k] = sent[k],
           pc'[q] = pc[q], ret'[q] = ret[q], count'[q] = count[q], free'[q] = free[q],
           chunk'[q] = chunk[q], done'[q] = done[q],
           pc[q] = "wcopy" => len' = len /\ Len(sent)' = Len(sent)
    PROVE  Account(q)'
<1>1. Total(q)' = Total(q)
  BY DEF Total
<1>2. PICK S : S = Stored(q)
  OBVIOUS
<1>3. Stored(q)' = S
  BY <1>2
<1>4. /\ pc'[q] \in {"rwait", "rcopy"} => S = {}
      /\ pc'[q] = "user" => S = {} \/ ret'[q] = Cardinality(S)
      /\ pc'[q] \in {"wwait", "wcopy"} =>
           Cardinality(S) = done'[q] /\ \A k \in S : sent'[k].of = Total(q)
  BY <1>2 DEF Account
<1>5. /\ pc'[q] = "wwait" =>
           chunk'[q].chars = 0 /\ (Total(q) <= PIPE_BUF => done'[q] = 0 /\ free'[q] = count'[q])
      /\ pc'[q] = "wcopy" /\ Total(q) <= PIPE_BUF =>
           S = Len(sent)' - done'[q] + 1 .. Len(sent)' /\ count'[q] <= PIPE_BUF - len'
  BY <1>2 DEF Account
<1> QED
  BY <1>1, <1>3, <1>4, <1>5 DEF Account

\* The accounts of the others, and the journal, when nothing is stored.
LEMMA OthersKept ==
    ASSUME WInv, NEW p \in Procs, Aside(p), sent' = sent, NEW q \in Procs, q # p,
           pc[q] = "wcopy" => len' = len
    PROVE  Account(q)'
<1>1. /\ pc'[q] = pc[q] /\ ret'[q] = ret[q] /\ count'[q] = count[q] /\ free'[q] = free[q]
      /\ chunk'[q] = chunk[q] /\ done'[q] = done[q] /\ calls'[q] = calls[q]
  BY DEF Aside
<1>2. Stored(q)' = Stored(q)
  BY <1>1 DEF Stored
<1>3. Account(q)
  BY DEF WInv, Ledger
<1> QED
  BY <1>1, <1>2, <1>3, AccountKept

LEMMA JournalKept ==
    ASSUME WInv, NEW p \in Procs, Aside(p), sent' = sent, pc[p] # "wcopy" \/ pc'[p] = "wcopy",
           calls'[p] = calls[p] \/ (calls'[p] = calls[p] + 1 /\ pc[p] = "user")
    PROVE  Known' /\ Complete' /\ Contiguous'
<1>0. Known /\ Complete /\ Contiguous /\ \A q \in Procs : calls[q] \in Nat
  BY LedgerTypes DEF WInv, Ledger
<1>1. \A k \in 1 .. Len(sent) : sent[k].by \in Procs /\ sent[k].call \in Nat
  <2>1. \A k \in 1 .. Len(sent) : sent[k] \in Bytes
    BY LedgerTypes
  <2> QED
    BY <1>0, <2>1 DEF Bytes, Known
<1>2. \A q \in Procs : calls'[q] >= calls[q] /\ calls'[q] \in Nat
  BY <1>0 DEF Aside
<1>3. Known'
  <2> SUFFICES ASSUME NEW k \in 1 .. Len(sent)
               PROVE  sent[k].by \in Procs /\ sent[k].call <= calls'[sent[k].by]
    BY DEF Known
  <2>1. PICK q \in Procs : q = sent[k].by
    BY <1>1
  <2>2. sent[k].call <= calls[q] /\ sent[k].call \in Nat
    BY <1>0, <1>1, <2>1 DEF Known
  <2>3. sent[k].call <= calls'[q]
    BY <1>0, <1>2, <2>2
  <2> QED
    BY <2>1, <2>3
<1>4. \A k : Atomic(k)' <=> Atomic(k)
  BY DEF Atomic
<1>5. \A q \in Procs : pc[q] = "wcopy" => pc'[q] = "wcopy" /\ calls'[q] = calls[q]
  <2> TAKE q \in Procs
  <2> HAVE pc[q] = "wcopy"
  <2>1. CASE q = p
    BY <2>1
  <2>2. CASE q # p
    BY <2>2 DEF Aside
  <2> QED
    BY <2>1, <2>2
<1>6. Complete'
  BY <1>0, <1>1, <1>4, <1>5 DEF Complete
<1>7. Contiguous'
  BY <1>0, <1>4 DEF Contiguous
<1> QED
  BY <1>3, <1>6, <1>7

\* A call that begins has stored nothing.
LEMMA NothingYet ==
    ASSUME WInv, NEW p \in Procs, sent' = sent, calls' = [calls EXCEPT ![p] = calls[p] + 1]
    PROVE  Stored(p)' = {}
<1>1. Known /\ calls[p] \in Nat /\ calls'[p] = calls[p] + 1
  BY LedgerTypes DEF WInv, Ledger, IInv, TypeOK
<1>2. ASSUME NEW k \in 1 .. Len(sent), sent[k].by = p, sent[k].call = calls[p] + 1 PROVE FALSE
  BY <1>1, <1>2 DEF Known
<1> QED
  BY <1>1, <1>2 DEF Stored

LEMMA StoredFinite ==
    ASSUME WInv, NEW p \in Procs PROVE IsFiniteSet(Stored(p))
<1>1. IsFiniteSet(1 .. Len(sent))
  BY LedgerTypes, FS_Interval
<1> QED
  BY <1>1, FS_Subset DEF Stored

\* The endings of a step, for the process that takes it.
Beside(p) ==
    \A q \in Procs : q # p =>
        /\ pc'[q] = pc[q] /\ ret'[q] = ret[q] /\ count'[q] = count[q] /\ free'[q] = free[q]
        /\ chunk'[q] = chunk[q]

LEMMA ReturnMoves ==
    ASSUME IInv, NEW p \in Procs, NEW r, Return(p, r)
    PROVE  Beside(p) /\ pc'[p] = "user" /\ ret'[p] = r
<1>1. pc \in [Procs -> PCs] /\ ret \in [Procs -> Int] /\ count \in [Procs -> Nat]
      /\ free \in [Procs -> Nat] /\ chunk \in [Procs -> Chunks]
  BY DEF IInv, TypeOK
<1> QED
  BY <1>1 DEF Return, Beside

LEMMA SleepMoves ==
    ASSUME IInv, NEW p \in Procs, NEW where, NEW n, NEW f, NEW s, SleepOn(p, where, n, f, s)
    PROVE  /\ Beside(p) /\ pc'[p] = where /\ count'[p] = n /\ free'[p] = f
           /\ chunk'[p].chars = 0
<1>1. pc \in [Procs -> PCs] /\ ret' = ret /\ count \in [Procs -> Nat]
      /\ free \in [Procs -> Nat] /\ chunk \in [Procs -> Chunks]
  BY DEF IInv, TypeOK, SleepOn
<1>2. Beside(p) /\ pc'[p] = where /\ count'[p] = n /\ free'[p] = f /\ chunk'[p] = NoChunk
  BY <1>1 DEF SleepOn, Beside
<1> QED
  BY <1>2 DEF NoChunk

LEMMA TakeMoves ==
    ASSUME IInv, NEW p \in Procs, NEW n, TakeChunk(p, n)
    PROVE  Beside(p) /\ pc'[p] = "rcopy"
<1>1. pc \in [Procs -> PCs] /\ UNCHANGED <<ret, free>> /\ count \in [Procs -> Nat]
      /\ chunk \in [Procs -> Chunks]
  BY DEF IInv, TypeOK, TakeChunk
<1> QED
  BY <1>1 DEF TakeChunk, Beside

LEMMA AddMoves ==
    ASSUME IInv, NEW p \in Procs, NEW n \in Nat \ {0}, AddChunk(p, n), len < PIPE_BUF
    PROVE  /\ Beside(p) /\ pc'[p] = "wcopy"
           /\ \E c \in Nat : /\ chunk'[p].chars = c /\ count'[p] = n - c /\ len' = len + c
                             /\ c <= n
<1>1. pc \in [Procs -> PCs] /\ UNCHANGED <<ret, free>> /\ count \in [Procs -> Nat]
      /\ chunk \in [Procs -> Chunks]
  BY DEF IInv, TypeOK, AddChunk
<1>2. PICK c : c = WriteChunk(n)
  OBVIOUS
<1>3. c \in Nat /\ c <= n
  BY <1>2, WriteChunkBounds DEF IInv
<1>4. /\ count' = [count EXCEPT ![p] = n - c] /\ pc' = [pc EXCEPT ![p] = "wcopy"]
      /\ chunk' = [chunk EXCEPT ![p] = [at |-> PIPE_END, chars |-> c]] /\ len' = len + c
  BY <1>2 DEF AddChunk
<1>5. Beside(p) /\ pc'[p] = "wcopy" /\ count'[p] = n - c
  BY <1>1, <1>4 DEF Beside
<1>6. chunk'[p].chars = c
  BY <1>1, <1>4
<1> QED
  BY <1>3, <1>4, <1>5, <1>6

\* A writer that has stored w bytes and has n left ends its call or waits.
LEMMA WriteWaitAccount ==
    ASSUME IInv, NEW p \in Procs, NEW n \in Nat \ {0}, NEW f \in Nat \ {0}, NEW w \in Nat,
           NEW nb \in BOOLEAN, NEW s, WriteWait(p, n, f, w, nb, s), done'[p] = w,
           NEW S, S = Stored(p)', IsFiniteSet(S), Cardinality(S) = w,
           \A k \in S : sent'[k].of = w + n, w + n <= PIPE_BUF => w = 0 /\ f = n
    PROVE  Account(p)' /\ Beside(p) /\ pc'[p] # "wcopy"
<1>1. ASSUME NEW code, Return(p, Result(w, code)) PROVE Account(p)' /\ Beside(p) /\ pc'[p] # "wcopy"
  <2>1. Beside(p) /\ pc'[p] = "user" /\ ret'[p] = Result(w, code)
    BY <1>1, ReturnMoves
  <2>2. S = {} \/ ret'[p] = Cardinality(S)
    <3>1. CASE w = 0
      BY <3>1, FS_EmptySet
    <3>2. CASE w # 0
      BY <2>1, <3>2 DEF Result
    <3> QED
      BY <3>1, <3>2
  <2> QED
    BY <2>1, <2>2 DEF Account
<1>2. ASSUME SleepOn(p, "wwait", n, f, s) PROVE Account(p)' /\ Beside(p) /\ pc'[p] # "wcopy"
  <2>1. /\ Beside(p) /\ pc'[p] = "wwait" /\ count'[p] = n /\ free'[p] = f /\ chunk'[p].chars = 0
    BY <1>2, SleepMoves
  <2>2. Total(p)' = w + n
    BY <2>1 DEF Total
  <2> QED
    BY <2>1, <2>2 DEF Account
<1> QED
  BY <1>1, <1>2 DEF WriteWait

\* ... or takes room for its next chunk.
LEMMA AddAccount ==
    ASSUME IInv, NEW p \in Procs, NEW n \in Nat \ {0}, NEW w \in Nat, AddChunk(p, n),
           len < PIPE_BUF, done'[p] = w, NEW S, S = Stored(p)', Cardinality(S) = w,
           \A k \in S : sent'[k].of = w + n,
           w + n <= PIPE_BUF => /\ n <= PIPE_BUF - len
                                /\ S = Len(sent)' - w + 1 .. Len(sent)'
    PROVE  Account(p)' /\ Beside(p) /\ pc'[p] = "wcopy"
<1>1. Beside(p) /\ pc'[p] = "wcopy"
  BY AddMoves
<1>2. PICK c \in Nat : chunk'[p].chars = c /\ count'[p] = n - c /\ len' = len + c /\ c <= n
  BY AddMoves
<1>3. Total(p)' = w + n
  BY <1>2 DEF Total
<1>4. w + n <= PIPE_BUF => count'[p] <= PIPE_BUF - len'
  <2>1. len \in Nat /\ PIPE_BUF \in Nat
    BY DEF IInv, TypeOK
  <2> QED
    BY <1>2, <2>1
<1> QED
  BY <1>1, <1>3, <1>4 DEF Account

\* A reader has stored nothing.
LEMMA ReadAccount ==
    ASSUME NEW p \in Procs, Stored(p)' = {}, pc'[p] \in {"user", "rwait", "rcopy"}
    PROVE  Account(p)'
  BY DEF Account

\* A step that stores nothing, by a process whose own account is right.
LEMMA StepLedger ==
    ASSUME WInv, NEW p \in Procs, Beside(p), sent' = sent, Account(p)',
           pc[p] # "wcopy" \/ pc'[p] = "wcopy",
           \A q \in Procs : q # p => done'[q] = done[q] /\ calls'[q] = calls[q],
           calls'[p] = calls[p] \/ (calls'[p] = calls[p] + 1 /\ pc[p] = "user"),
           len' = len \/ lock = 0 \/ Copying(p)
    PROVE  Ledger'
<1>1. Aside(p)
  BY DEF Aside, Beside
<1>2. ASSUME NEW q \in Procs, q # p, pc[q] = "wcopy" PROVE len' = len
  <2>1. IInv /\ Copying(q)
    BY <1>2, LedgerTypes DEF Copying
  <2> QED
    BY <1>2, <2>1, Alone
<1>3. \A q \in Procs : q # p => Account(q)'
  BY <1>1, <1>2, OthersKept
<1>4. Known' /\ Complete' /\ Contiguous'
  BY <1>1, JournalKept
<1> QED
  BY <1>3, <1>4 DEF Ledger

LEMMA ReadLoopLedger ==
    ASSUME WInv, NEW p \in Procs, NEW n, ReadLoop(p, n), Stored(p)' = {}
    PROVE  /\ Account(p)' /\ Beside(p) /\ (len' = len \/ lock = 0)
<1>0. IInv /\ lock \in Nat
  BY LedgerTypes
<1>1. ASSUME NEW r, Return(p, r) PROVE Account(p)' /\ Beside(p)
  BY <1>0, <1>1, ReturnMoves, ReadAccount
<1>2. ASSUME SleepOn(p, "rwait", n, 0, asleep) PROVE Account(p)' /\ Beside(p)
  BY <1>0, <1>2, SleepMoves, ReadAccount
<1>3. ASSUME TakeChunk(p, n) PROVE Account(p)' /\ Beside(p)
  BY <1>0, <1>3, TakeMoves, ReadAccount
<1>4. len' = len \/ lock = 0
  BY <1>0 DEF ReadLoop, ring, PIPE_LOCK
<1> QED
  BY <1>1, <1>2, <1>3, <1>4 DEF ReadLoop

LEMMA pipe_readLedger ==
    ASSUME WInv, NEW p \in Procs, NEW n \in Counts, NEW nb \in BOOLEAN, pipe_read(p, n, nb)
    PROVE  Ledger'
<1>0. /\ IInv /\ calls \in [Procs -> Nat] /\ done \in [Procs -> Nat]
      /\ calls' = [calls EXCEPT ![p] = calls[p] + 1] /\ done' = [done EXCEPT ![p] = 0]
      /\ sent' = sent /\ pc[p] = "user"
  BY LedgerTypes DEF IInv, TypeOK, pipe_read
<1>1. Stored(p)' = {}
  BY <1>0, NothingYet
<1>2. Account(p)' /\ Beside(p) /\ (len' = len \/ lock = 0)
  <2>1. CASE nb /\ (PIPE_LOCK \/ len = 0)
    <3>1. PICK r : Return(p, r)
      BY <2>1 DEF pipe_read
    <3>2. len' = len
      BY <2>1 DEF pipe_read, ring
    <3> QED
      BY <1>0, <1>1, <3>1, <3>2, ReturnMoves, ReadAccount
  <2>2. CASE ~(nb /\ (PIPE_LOCK \/ len = 0))
    <3>1. ReadLoop(p, n)
      BY <2>2 DEF pipe_read
    <3> QED
      BY <1>1, <3>1, ReadLoopLedger
  <2> QED
    BY <2>1, <2>2
<1>3. /\ \A q \in Procs : q # p => done'[q] = done[q] /\ calls'[q] = calls[q]
      /\ calls'[p] = calls[p] + 1
  BY <1>0
<1> QED
  BY <1>0, <1>2, <1>3, StepLedger

LEMMA ReadResumeLedger ==
    ASSUME WInv, NEW p \in Procs, ReadResume(p)
    PROVE  Ledger'
<1>1. pc[p] = "rwait" /\ ReadLoop(p, count[p]) /\ UNCHANGED <<done, calls, sent>>
  BY DEF ReadResume
<1>2. Stored(p) = {}
  BY <1>1 DEF WInv, Ledger, Account
<1>3. Stored(p)' = {}
  BY <1>1, <1>2 DEF Stored
<1>4. Account(p)' /\ Beside(p) /\ (len' = len \/ lock = 0)
  BY <1>1, <1>3, ReadLoopLedger
<1> QED
  BY <1>1, <1>4, StepLedger

LEMMA ReadCopyLedger ==
    ASSUME WInv, NEW p \in Procs, ReadCopy(p)
    PROVE  Ledger'
<1>0. IInv /\ done \in [Procs -> Nat]
  BY LedgerTypes DEF IInv, TypeOK
<1>1. /\ pc[p] = "rcopy" /\ Copying(p) /\ UNCHANGED <<calls, sent>>
      /\ done' = [done EXCEPT ![p] = done[p] + chunk[p].chars]
  BY DEF ReadCopy, Copying
<1>2. Stored(p) = {}
  BY <1>1 DEF WInv, Ledger, Account
<1>3. Stored(p)' = {}
  BY <1>1, <1>2 DEF Stored
<1>4. TakeChunk(p, count[p]) \/ Return(p, done[p] + chunk[p].chars)
  BY DEF ReadCopy
<1>5. Account(p)' /\ Beside(p)
  BY <1>0, <1>3, <1>4, TakeMoves, ReturnMoves, ReadAccount
<1>6. \A q \in Procs : q # p => done'[q] = done[q]
  BY <1>0, <1>1
<1> QED
  BY <1>1, <1>5, <1>6, StepLedger

\* A writer at the inner loop, with w bytes stored and n left.
LEMMA WriteLoopLedger ==
    ASSUME WInv, NEW p \in Procs, NEW n \in Nat \ {0}, NEW f \in Nat \ {0}, NEW w \in Nat,
           NEW nb \in BOOLEAN, WriteLoop(p, n, f, w, nb), sent' = sent, done'[p] = w,
           NEW S, S = Stored(p)', IsFiniteSet(S), Cardinality(S) = w,
           \A k \in S : sent'[k].of = w + n, w + n <= PIPE_BUF => w = 0 /\ f = n
    PROVE  Account(p)' /\ Beside(p) /\ (len' = len \/ lock = 0)
<1>0. IInv /\ lock \in Nat /\ len \in 0 .. PIPE_BUF /\ Len(sent) \in Nat
  BY LedgerTypes
<1>1. CASE PIPE_FREE < f \/ PIPE_LOCK
  <2>1. WriteWait(p, n, f, w, nb, asleep) /\ len' = len
    BY <1>1 DEF WriteLoop, ring
  <2> QED
    BY <1>0, <2>1, WriteWaitAccount
<1>2. CASE ~(PIPE_FREE < f \/ PIPE_LOCK)
  <2>1. AddChunk(p, n)
    BY <1>2 DEF WriteLoop
  <2>2. lock = 0 /\ len < PIPE_BUF /\ f <= PIPE_BUF - len
    BY <1>0, <1>2 DEF PIPE_LOCK, PIPE_FREE
  <2>3. w + n <= PIPE_BUF => n <= PIPE_BUF - len /\ S = Len(sent)' - w + 1 .. Len(sent)'
    <3> HAVE w + n <= PIPE_BUF
    <3>1. w = 0 /\ n <= PIPE_BUF - len
      BY <2>2
    <3>2. S = {}
      BY <3>1, FS_EmptySet
    <3>3. Len(sent)' - w + 1 .. Len(sent)' = {}
      BY <1>0, <3>1
    <3> QED
      BY <3>1, <3>2, <3>3
  <2> QED
    BY <1>0, <2>1, <2>2, <2>3, AddAccount
<1> QED
  BY <1>1, <1>2

LEMMA pipe_writeLedger ==
    ASSUME WInv, NEW p \in Procs, NEW n \in Counts, NEW nb \in BOOLEAN, pipe_write(p, n, nb)
    PROVE  Ledger'
<1>0. /\ IInv /\ calls \in [Procs -> Nat] /\ done \in [Procs -> Nat]
      /\ calls' = [calls EXCEPT ![p] = calls[p] + 1] /\ done' = [done EXCEPT ![p] = 0]
      /\ sent' = sent /\ pc[p] = "user" /\ n \in Nat \ {0}
  BY LedgerTypes DEF IInv, TypeOK, pipe_write
<1>1. Stored(p)' = {}
  BY <1>0, NothingYet
<1>2. /\ \A q \in Procs : q # p => done'[q] = done[q] /\ calls'[q] = calls[q]
      /\ calls'[p] = calls[p] + 1 /\ done'[p] = 0
  BY <1>0
<1>3. Account(p)' /\ Beside(p) /\ (len' = len \/ lock = 0)
  <2>1. CASE readers = 0
    <3>1. Return(p, EPIPE) /\ len' = len
      BY <2>1 DEF pipe_write, ring
    <3> QED
      BY <1>0, <1>1, <3>1, ReturnMoves, ReadAccount
  <2>2. CASE readers # 0
    <3>1. WriteLoop(p, n, FirstSpace(n), 0, nb)
      BY <2>2 DEF pipe_write
    <3>2. FirstSpace(n) \in Nat \ {0} /\ (0 + n <= PIPE_BUF => FirstSpace(n) = n)
      BY <1>0 DEF FirstSpace
    <3>3. PICK S : S = Stored(p)'
      OBVIOUS
    <3>4. IsFiniteSet(S) /\ Cardinality(S) = 0 /\ \A k \in S : sent'[k].of = 0 + n
      BY <1>1, <3>3, FS_EmptySet
    <3> QED
      BY <1>0, <1>2, <3>1, <3>2, <3>3, <3>4, WriteLoopLedger
  <2> QED
    BY <2>1, <2>2
<1> QED
  BY <1>0, <1>2, <1>3, StepLedger

LEMMA WriteResumeLedger ==
    ASSUME WInv, NEW p \in Procs, WriteResume(p)
    PROVE  Ledger'
<1>1. /\ pc[p] = "wwait" /\ WriteLoop(p, count[p], free[p], done[p], nonblock[p])
      /\ UNCHANGED <<done, calls, sent>>
  BY DEF WriteResume
<1>2. /\ IInv /\ count[p] \in Nat \ {0} /\ free[p] \in Nat \ {0} /\ done[p] \in Nat
      /\ nonblock[p] \in BOOLEAN
  <2>1. IInv
    BY LedgerTypes
  <2>2. nonblock[p] \in BOOLEAN
    BY <2>1 DEF IInv, TypeOK
  <2>3. count[p] \in Nat /\ free[p] \in Nat /\ done[p] \in Nat
    BY <2>1 DEF IInv, TypeOK
  <2>4. count[p] > 0 /\ free[p] > 0
    BY <1>1, <2>1 DEF IInv, Wanting
  <2> QED
    BY <2>1, <2>2, <2>3, <2>4
<1>3. chunk[p].chars = 0
  BY <1>1 DEF WInv, Ledger, Account
<1>4. PICK S : S = Stored(p)
  OBVIOUS
<1>5. S = Stored(p)' /\ IsFiniteSet(S)
  BY <1>1, <1>4, StoredFinite DEF Stored
<1>6. Total(p) = done[p] + count[p]
  BY <1>2, <1>3 DEF Total
<1>7. /\ Cardinality(S) = done[p] /\ \A k \in S : sent'[k].of = done[p] + count[p]
      /\ done[p] + count[p] <= PIPE_BUF => done[p] = 0 /\ free[p] = count[p]
  BY <1>1, <1>4, <1>6 DEF WInv, Ledger, Account
<1>8. Account(p)' /\ Beside(p) /\ (len' = len \/ lock = 0)
  BY <1>1, <1>2, <1>5, <1>7, WriteLoopLedger
<1> QED
  BY <1>1, <1>8, StepLedger

\* What WriteCopy appends to sent, byte by byte.
LEMMA Appended ==
    ASSUME WInv, NEW p \in Procs, WriteCopy(p)
    PROVE  /\ Len(sent') = Len(sent) + chunk[p].chars
           /\ \A k \in 1 .. Len(sent) : sent'[k] = sent[k]
           /\ \A k \in Len(sent) + 1 .. Len(sent) + chunk[p].chars :
                  /\ sent'[k].by = p /\ sent'[k].call = calls[p]
                  /\ sent'[k].nr = done[p] + (k - Len(sent)) /\ sent'[k].of = Total(p)
<1>0. /\ sent \in Seq(Bytes) /\ Len(sent) \in Nat /\ done[p] \in Nat /\ count[p] \in Nat
      /\ calls[p] \in Nat /\ chunk[p].chars \in 0 .. PIPE_BUF
  BY LedgerTypes
<1>1. PICK c, l : c = chunk[p].chars /\ l = Len(sent)
  OBVIOUS
<1>2. c \in Nat /\ l \in Nat
  BY <1>0, <1>1
<1> DEFINE bytes == [i \in 1 .. c |-> Byte(p, done[p] + i, done[p] + c + count[p])]
<1>3. sent' = Cat(sent, bytes)
  BY <1>1 DEF WriteCopy, Cat
<1>4. Total(p) = done[p] + c + count[p]
  BY <1>1 DEF Total
<1>5. bytes \in [1 .. c -> Bytes]
  <2>1. done[p] + c + count[p] \in Nat /\ \A i \in 1 .. c : done[p] + i \in Nat
    BY <1>0, <1>2, SMTT(20)
  <2>2. \A i, n \in Nat : Byte(p, i, n) \in Bytes
    BY <1>0 DEF Byte, Bytes
  <2> QED
    BY <2>1, <2>2
<1>6. bytes \in Seq(Bytes) /\ Len(bytes) = c
  BY <1>2, <1>5, FunctionIsSeq
<1>7. \A i \in 1 .. c : /\ bytes[i].by = p /\ bytes[i].call = calls[p]
                        /\ bytes[i].nr = done[p] + i /\ bytes[i].of = Total(p)
  BY <1>4 DEF Byte
<1> HIDE DEF bytes
<1>8. /\ Len(Cat(sent, bytes)) = l + c
      /\ \A i \in 1 .. l + c : Cat(sent, bytes)[i] = IF i <= l THEN sent[i] ELSE bytes[i - l]
  <2>1. Len(sent) = l
    BY <1>1
  <2> QED
    BY <1>0, <1>2, <1>6, <2>1, TwoParts
<1>9. ASSUME NEW k \in 1 .. l PROVE sent'[k] = sent[k]
  <2>1. k \in 1 .. l + c /\ k <= l
    BY <1>2
  <2> QED
    BY <1>3, <1>8, <2>1
<1>10. ASSUME NEW k \in l + 1 .. l + c
       PROVE  /\ sent'[k].by = p /\ sent'[k].call = calls[p]
              /\ sent'[k].nr = done[p] + (k - l) /\ sent'[k].of = Total(p)
  <2>1. k \in 1 .. l + c /\ ~(k <= l) /\ k - l \in 1 .. c
    BY <1>2
  <2>2. sent'[k] = bytes[k - l]
    BY <1>3, <1>8, <2>1
  <2> QED
    BY <1>7, <2>1, <2>2
<1> QED
  BY <1>1, <1>3, <1>8, <1>9, <1>10

\* The bytes of p's call, and their number, after the copy.
LEMMA StoredGrows ==
    ASSUME WInv, NEW p \in Procs, WriteCopy(p)
    PROVE  /\ Stored(p)' = Stored(p) \cup (Len(sent) + 1 .. Len(sent'))
           /\ IsFiniteSet(Stored(p)') /\ Cardinality(Stored(p)') = done[p] + chunk[p].chars
           /\ \A k \in Stored(p)' : sent'[k].of = Total(p)
           /\ \A q \in Procs : q # p => Stored(q)' = Stored(q)
<1>0. /\ Len(sent) \in Nat /\ chunk[p].chars \in Nat /\ done[p] \in Nat /\ calls' = calls
      /\ pc[p] = "wcopy"
  BY LedgerTypes DEF WriteCopy
<1>1. PICK c, l, S : c = chunk[p].chars /\ l = Len(sent) /\ S = Stored(p)
  OBVIOUS
<1>2. /\ Len(sent') = l + c /\ \A k \in 1 .. l : sent'[k] = sent[k]
      /\ \A k \in l + 1 .. l + c : sent'[k].by = p /\ sent'[k].call = calls[p] /\ sent'[k].of = Total(p)
  BY <1>1, Appended
<1>3. c \in Nat /\ l \in Nat /\ S \subseteq 1 .. l
  BY <1>0, <1>1 DEF Stored
<1>4. \A k : k \in 1 .. l + c <=> k \in 1 .. l \/ k \in l + 1 .. l + c
  BY <1>3
<1>5. Stored(p)' = S \cup (l + 1 .. l + c)
  BY <1>0, <1>1, <1>2, <1>4 DEF Stored
<1>6. ASSUME NEW q \in Procs, q # p PROVE Stored(q)' = Stored(q)
  BY <1>0, <1>1, <1>2, <1>4, <1>6 DEF Stored
<1>7. IsFiniteSet(S) /\ Cardinality(S) = done[p] /\ \A k \in S : sent[k].of = Total(p)
  BY <1>0, <1>1, StoredFinite DEF WInv, Ledger, Account
<1>8. IsFiniteSet(l + 1 .. l + c) /\ Cardinality(l + 1 .. l + c) = c
  <2>1. l + 1 \in Int /\ l + c \in Int
    BY <1>3
  <2>2. /\ IsFiniteSet(l + 1 .. l + c)
        /\ Cardinality(l + 1 .. l + c) = IF l + 1 > l + c THEN 0 ELSE (l + c) - (l + 1) + 1
    BY <2>1, FS_Interval
  <2> QED
    BY <1>3, <2>2
<1>9. S \cap (l + 1 .. l + c) = {} /\ Cardinality({}) = 0
  BY <1>3, FS_EmptySet
<1>10. /\ IsFiniteSet(S \cup (l + 1 .. l + c))
       /\ Cardinality(S \cup (l + 1 .. l + c)) = Cardinality(S) + Cardinality(l + 1 .. l + c)
                                               - Cardinality(S \cap (l + 1 .. l + c))
  BY <1>7, <1>8, FS_Union
<1>11. Cardinality(S \cup (l + 1 .. l + c)) = done[p] + c
  <2>1. Cardinality(S \cap (l + 1 .. l + c)) = 0
    BY <1>9
  <2>2. Cardinality(S \cup (l + 1 .. l + c)) = done[p] + c - 0
    BY <1>7, <1>8, <1>10, <2>1
  <2> QED
    BY <1>0, <1>3, <2>2
<1>12. \A k \in S \cup (l + 1 .. l + c) : sent'[k].of = Total(p)
  BY <1>2, <1>3, <1>7
<1> QED
  BY <1>1, <1>2, <1>5, <1>6, <1>10, <1>11, <1>12

\* The account of the writer after a copy.
LEMMA WriteCopyAccount ==
    ASSUME WInv, NEW p \in Procs, WriteCopy(p)
    PROVE  /\ Account(p)' /\ Beside(p)
           /\ pc'[p] = "wcopy" \/ count[p] = 0 \/ Total(p) > PIPE_BUF
<1>0. /\ IInv /\ done \in [Procs -> Nat] /\ count[p] \in Nat /\ len \in 0 .. PIPE_BUF
      /\ chunk[p].chars \in Nat /\ done[p] \in Nat /\ Len(sent) \in Nat /\ pc[p] = "wcopy"
  <2>1. /\ IInv /\ count[p] \in Nat /\ len \in 0 .. PIPE_BUF
        /\ chunk[p].chars \in Nat /\ done[p] \in Nat /\ Len(sent) \in Nat
    BY LedgerTypes
  <2>2. done \in [Procs -> Nat] /\ pc[p] = "wcopy"
    BY <2>1 DEF WriteCopy, IInv, TypeOK
  <2> QED
    BY <2>1, <2>2
<1>1. PICK w : w = done[p] + chunk[p].chars
  OBVIOUS
<1>2. w \in Nat /\ Total(p) = w + count[p] /\ Total(p) \in Nat
  BY <1>0, <1>1, SMTT(20) DEF Total
<1>3. done'[p] = w
  BY <1>0, <1>1 DEF WriteCopy
<1>4. PICK S : S = Stored(p)'
  OBVIOUS
<1>5. IsFiniteSet(S) /\ Cardinality(S) = w /\ \A k \in S : sent'[k].of = w + count[p]
  BY <1>1, <1>2, <1>4, StoredGrows
<1>6. Total(p) <= PIPE_BUF =>
          count[p] <= PIPE_BUF - len /\ S = Len(sent)' - w + 1 .. Len(sent)'
  <2> HAVE Total(p) <= PIPE_BUF
  <2>1. Stored(p) = Len(sent) - done[p] + 1 .. Len(sent) /\ count[p] <= PIPE_BUF - len
    BY <1>0 DEF WInv, Ledger, Account
  <2>2. S = Stored(p) \cup (Len(sent) + 1 .. Len(sent'))
    BY <1>4, StoredGrows
  <2>3. Len(sent') = Len(sent) + chunk[p].chars
    BY Appended
  <2>4. PICK l, d, c : l = Len(sent) /\ d = done[p] /\ c = chunk[p].chars
    OBVIOUS
  <2>5. l \in Nat /\ d \in Nat /\ c \in Nat /\ w = d + c
    BY <1>0, <1>1, <2>4
  <2>6. (l - d + 1 .. l) \cup (l + 1 .. l + c) = l + c - w + 1 .. l + c
    <3>1. l - d + 1 = l + c - w + 1
      BY <2>5
    <3>2. \A a \in Int : a <= l + 1 => (a .. l) \cup (l + 1 .. l + c) = a .. l + c
      BY <2>5
    <3>3. l - d + 1 \in Int /\ l - d + 1 <= l + 1
      BY <2>5
    <3> QED
      BY <3>1, <3>2, <3>3
  <2>7. S = (l - d + 1 .. l) \cup (l + 1 .. l + c) /\ Len(sent') = l + c
    BY <2>1, <2>2, <2>3, <2>4
  <2>8. S = Len(sent') - w + 1 .. Len(sent')
    <3>1. S = l + c - w + 1 .. l + c /\ Len(sent') = l + c
      BY <2>6, <2>7, Zenon
    <3>2. PICK m : m = Len(sent')
      OBVIOUS
    <3>3. m \in Nat /\ l + c = m
      BY <2>5, <3>1, <3>2
    <3>4. S = m - w + 1 .. m
      BY <2>5, <3>1, <3>3
    <3> QED
      BY <3>2, <3>4
  <2> QED
    BY <2>1, <2>8
<1>7. CASE count[p] > 0 /\ PIPE_FREE > 0 /\ AddChunk(p, count[p])
  <2>1. len < PIPE_BUF /\ count[p] \in Nat \ {0}
    BY <1>0, <1>7 DEF PIPE_FREE
  <2> QED
    BY <1>0, <1>2, <1>3, <1>4, <1>5, <1>6, <1>7, <2>1, AddAccount
<1>8. CASE count[p] = 0 /\ Return(p, done[p] + chunk[p].chars)
  <2>1. Beside(p) /\ pc'[p] = "user" /\ ret'[p] = w
    BY <1>0, <1>1, <1>8, ReturnMoves
  <2>2. Account(p)'
    BY <1>4, <1>5, <2>1 DEF Account
  <2> QED
    BY <1>8, <2>1, <2>2
<1>9. CASE /\ count[p] > 0 /\ PIPE_FREE = 0
           /\ WriteWait(p, count[p], 1, done[p] + chunk[p].chars, nonblock[p], {})
  <2>1. Total(p) > PIPE_BUF
    BY <1>0, <1>2, <1>6, <1>9 DEF PIPE_FREE
  <2>2. WriteWait(p, count[p], 1, w, nonblock[p], {}) /\ count[p] \in Nat \ {0}
    BY <1>0, <1>1, <1>9
  <2>3. ~(w + count[p] <= PIPE_BUF)
    BY <1>2, <2>1
  <2>4. nonblock[p] \in BOOLEAN
    BY <1>0 DEF IInv, TypeOK
  <2>5. Account(p)' /\ Beside(p)
    BY <1>0, <1>2, <1>3, <1>4, <1>5, <2>2, <2>3, <2>4, WriteWaitAccount
  <2> QED
    BY <2>1, <2>5
<1>10. \/ count[p] > 0 /\ PIPE_FREE > 0 /\ AddChunk(p, count[p])
       \/ count[p] = 0 /\ Return(p, done[p] + chunk[p].chars)
       \/ /\ count[p] > 0 /\ PIPE_FREE = 0
          /\ WriteWait(p, count[p], 1, done[p] + chunk[p].chars, nonblock[p], {})
  BY DEF WriteCopy
<1> QED
  BY <1>7, <1>8, <1>9, <1>10

\* The journal after a copy.
LEMMA WriteCopyJournal ==
    ASSUME WInv, NEW p \in Procs, WriteCopy(p)
    PROVE  Known' /\ Complete' /\ Contiguous'
<1>0. /\ Known /\ Complete /\ Contiguous /\ calls' = calls /\ pc[p] = "wcopy"
      /\ \A q \in Procs : calls[q] \in Nat
  BY LedgerTypes DEF WInv, Ledger, WriteCopy
<1>1. PICK c, l : c = chunk[p].chars /\ l = Len(sent)
  OBVIOUS
<1>2. c \in Nat \ {0} /\ l \in Nat /\ done[p] \in Nat /\ count[p] \in Nat
  <2>1. c > 0
    BY <1>0, <1>1, LedgerTypes DEF Flight, Copying
  <2> QED
    BY <1>1, <2>1, LedgerTypes
<1>3. /\ Len(sent') = l + c
      /\ \A k \in 1 .. l : sent'[k] = sent[k]
      /\ \A k \in l + 1 .. l + c :
             /\ sent'[k].by = p /\ sent'[k].call = calls[p]
             /\ sent'[k].nr = done[p] + (k - l) /\ sent'[k].of = Total(p)
  BY <1>1, Appended
<1>4. \A k : k \in 1 .. l + c <=> k \in 1 .. l \/ k \in l + 1 .. l + c
  BY <1>2
<1>5. /\ \A k \in 1 .. l : Atomic(k)' <=> Atomic(k)
      /\ \A k \in l + 1 .. l + c : Atomic(k)' <=> Total(p) <= PIPE_BUF
  BY <1>1, <1>3, <1>4 DEF Atomic
<1>6. Known'
  <2>1. \A k \in 1 .. l : sent'[k].by \in Procs /\ sent'[k].call <= calls[sent'[k].by]
    BY <1>0, <1>1, <1>3 DEF Known
  <2>2. \A k \in l + 1 .. l + c : sent'[k].by \in Procs /\ sent'[k].call <= calls[sent'[k].by]
    BY <1>0, <1>3
  <2> QED
    BY <1>0, <1>3, <1>4, <2>1, <2>2 DEF Known
<1>7. \A k \in 1 .. l : SameCall(sent[k], sent'[l + 1]) => k \in Stored(p) /\ sent[k].of = Total(p)
  <2> TAKE k \in 1 .. l
  <2> HAVE SameCall(sent[k], sent'[l + 1])
  <2>1. l + 1 \in l + 1 .. l + c
    BY <1>2
  <2>2. k \in Stored(p)
    BY <1>1, <1>3, <2>1 DEF SameCall, Stored
  <2> QED
    BY <1>0, <2>2 DEF WInv, Ledger, Account
<1>8. Complete'
  <2> SUFFICES ASSUME NEW k \in 1 .. l + c, Atomic(k)'
               PROVE  \/ pc'[sent'[k].by] = "wcopy" /\ sent'[k].call = calls[sent'[k].by]
                      \/ \E j \in 1 .. l + c : /\ Atomic(j)' /\ SameCall(sent'[j], sent'[k])
                                               /\ sent'[j].nr = sent'[k].of
    BY <1>0, <1>3 DEF Complete
  <2>1. CASE sent'[k].by = p /\ sent'[k].call = calls[p]
    <3>1. sent'[k].of = Total(p)
      <4>1. CASE k \in 1 .. l
        <5>1. sent'[k] = sent[k]
          BY <1>3, <4>1
        <5>2. k \in Stored(p)
          BY <1>1, <2>1, <4>1, <5>1 DEF Stored
        <5> QED
          BY <1>0, <5>1, <5>2 DEF WInv, Ledger, Account
      <4>2. CASE k \in l + 1 .. l + c
        BY <1>3, <4>2
      <4> QED
        BY <1>4, <4>1, <4>2
    <3>2. Total(p) <= PIPE_BUF
      BY <3>1 DEF Atomic
    <3>3. pc'[p] = "wcopy" \/ count[p] = 0
      <4>1. Total(p) \in Nat
        BY <1>1, <1>2, SMTT(20) DEF Total
      <4>2. pc'[p] = "wcopy" \/ count[p] = 0 \/ Total(p) > PIPE_BUF
        BY WriteCopyAccount
      <4> QED
        BY <3>2, <4>1, <4>2
    <3>4. CASE pc'[p] = "wcopy"
      BY <2>1, <3>4
    <3>5. CASE count[p] = 0
      <4>1. l + c \in l + 1 .. l + c /\ l + c \in 1 .. l + c
        BY <1>2
      <4>2. Total(p) = done[p] + c
        BY <1>1, <1>2, <3>5 DEF Total
      <4>3. sent'[l + c].nr = Total(p)
        <5>1. sent'[l + c].nr = done[p] + ((l + c) - l)
          BY <1>3, <4>1
        <5> QED
          BY <1>2, <4>2, <5>1
      <4>4. Atomic(l + c)' /\ SameCall(sent'[l + c], sent'[k])
        BY <1>3, <1>5, <2>1, <3>2, <4>1 DEF SameCall
      <4> QED
        BY <3>1, <4>1, <4>3, <4>4
    <3> QED
      BY <3>3, <3>4, <3>5
  <2>2. CASE ~(sent'[k].by = p /\ sent'[k].call = calls[p])
    <3>1. k \in 1 .. l /\ sent'[k] = sent[k] /\ Atomic(k)
      BY <1>3, <1>4, <1>5, <2>2
    <3>2. sent[k].by \in Procs
      BY <1>0, <1>1, <3>1 DEF Known
    <3>3. CASE pc[sent[k].by] = "wcopy" /\ sent[k].call = calls[sent[k].by]
      <4>1. sent[k].by # p
        BY <2>2, <3>1, <3>3
      <4>2. pc'[sent[k].by] = pc[sent[k].by]
        BY <3>2, <4>1, WriteCopyAccount DEF Beside
      <4> QED
        BY <3>1, <3>3, <4>2
    <3>4. CASE \E j \in 1 .. l : Atomic(j) /\ SameCall(sent[j], sent[k]) /\ sent[j].nr = sent[k].of
      BY <1>3, <1>4, <1>5, <3>1, <3>4
    <3> QED
      BY <1>0, <1>1, <3>1, <3>3, <3>4 DEF Complete
  <2> QED
    BY <2>1, <2>2
<1>9. Contiguous'
  <2> SUFFICES ASSUME NEW i \in 1 .. l + c, NEW k \in 1 .. l + c, Atomic(i)', Atomic(k)',
                      SameCall(sent'[i], sent'[k]), NEW j \in i .. k
               PROVE  SameCall(sent'[j], sent'[i])
    BY <1>3 DEF Contiguous
  <2>0. i <= j /\ j <= k /\ i \in Nat /\ j \in Nat /\ k \in Nat
    BY <1>2
  <2>1. CASE k \in 1 .. l
    <3>1. i \in 1 .. l /\ j \in 1 .. l
      BY <1>2, <2>0, <2>1
    <3>2. Atomic(i) /\ Atomic(k) /\ SameCall(sent[i], sent[k])
      BY <1>3, <1>5, <2>1, <3>1
    <3>3. SameCall(sent[j], sent[i])
      BY <1>0, <1>1, <2>1, <3>1, <3>2 DEF Contiguous
    <3> QED
      BY <1>3, <3>1, <3>3
  <2>2. CASE k \in l + 1 .. l + c /\ i \in l + 1 .. l + c
    <3>1. j \in l + 1 .. l + c
      BY <1>2, <2>0, <2>2
    <3> QED
      BY <1>3, <2>2, <3>1 DEF SameCall
  <2>3. CASE k \in l + 1 .. l + c /\ i \in 1 .. l
    <3>1. sent'[i].by = p /\ sent'[i].call = calls[p] /\ sent'[i] = sent[i]
      BY <1>3, <2>3 DEF SameCall
    <3>2. Total(p) <= PIPE_BUF /\ i \in Stored(p)
      BY <1>1, <1>5, <2>3, <3>1 DEF Stored
    <3>3. Stored(p) = l - done[p] + 1 .. l
      BY <1>0, <1>1, <3>2 DEF WInv, Ledger, Account
    <3>4. CASE j \in 1 .. l
      <4>1. j \in Stored(p)
        BY <1>2, <2>0, <3>2, <3>3, <3>4
      <4> QED
        BY <1>3, <3>1, <3>4, <4>1 DEF Stored, SameCall
    <3>5. CASE j \in l + 1 .. l + c
      BY <1>3, <3>1, <3>5 DEF SameCall
    <3>6. j \in 1 .. l \/ j \in l + 1 .. l + c
      BY <1>2, <2>0
    <3> QED
      BY <3>4, <3>5, <3>6
  <2> QED
    BY <1>4, <2>1, <2>2, <2>3
<1> QED
  BY <1>6, <1>8, <1>9

LEMMA WriteCopyLedger ==
    ASSUME WInv, NEW p \in Procs, WriteCopy(p)
    PROVE  Ledger'
<1>1. IInv /\ pc[p] = "wcopy" /\ done \in [Procs -> Nat] /\ \A k \in 1 .. Len(sent) : sent'[k] = sent[k]
  BY LedgerTypes, Appended DEF WriteCopy, IInv, TypeOK
<1>2. Copying(p)
  BY <1>1 DEF Copying
<1>3. ASSUME NEW q \in Procs, q # p PROVE Account(q)'
  <2>1. pc[q] # "wcopy"
    BY <1>1, <1>2, <1>3, Alone DEF Copying
  <2>2. Stored(q)' = Stored(q) /\ \A k \in Stored(q) : sent'[k] = sent[k]
    BY <1>1, <1>3, StoredGrows, ZenonT(40) DEF Stored
  <2>3. /\ pc'[q] = pc[q] /\ ret'[q] = ret[q] /\ count'[q] = count[q] /\ free'[q] = free[q]
        /\ chunk'[q] = chunk[q]
    BY <1>3, WriteCopyAccount DEF Beside
  <2>4. done'[q] = done[q] /\ Account(q)
    BY <1>1, <1>3 DEF WriteCopy, WInv, Ledger
  <2> QED
    BY <2>1, <2>2, <2>3, <2>4, AccountKept
<1>4. Account(p)' /\ Known' /\ Complete' /\ Contiguous'
  BY WriteCopyAccount, WriteCopyJournal
<1> QED
  BY <1>3, <1>4 DEF Ledger

\* A close or a signal concerns no call's account.
LEMMA ElsewhereLedger ==
    ASSUME WInv, UNCHANGED <<ring, pc, local, ret, calls, sent>>
    PROVE  Ledger'
<1>1. UNCHANGED <<len, pc, count, done, free, chunk, ret, calls, sent>>
  BY DEF ring, local
<1>2. \A q \in Procs : Stored(q)' = Stored(q)
  BY <1>1 DEF Stored
<1>3. \A q \in Procs : Account(q)'
  BY <1>1, <1>2, AccountKept DEF WInv, Ledger
<1>4. Known' /\ Complete' /\ Contiguous'
  BY <1>1 DEF WInv, Ledger, Known, Complete, Contiguous, Atomic
<1> QED
  BY <1>3, <1>4 DEF Ledger

LEMMA InitLedger == Init => WInv
<1> SUFFICES ASSUME Init PROVE WInv
  OBVIOUS
<1>1. OInv
  BY InitOrder
<1>2. Len(sent) = 0 /\ \A p \in Procs : pc[p] = "user"
  BY EmptySeq DEF Init
<1>3. 1 .. Len(sent) = {}
  BY <1>2
<1>4. \A p \in Procs : Stored(p) = {}
  BY <1>3 DEF Stored
<1>5. \A p \in Procs : Account(p)
  BY <1>2, <1>4 DEF Account
<1>6. Known /\ Complete /\ Contiguous
  BY <1>3 DEF Known, Complete, Contiguous
<1> QED
  BY <1>1, <1>5, <1>6 DEF WInv, Ledger

LEMMA NextLedger == WInv /\ [Next]_vars => WInv'
<1> SUFFICES ASSUME WInv, [Next]_vars PROVE WInv'
  OBVIOUS
<1>1. OInv'
  BY NextOrder DEF WInv
<1>2. CASE Next
  <2>1. PICK p \in Procs :
           \/ \E n \in Counts, nb \in BOOLEAN : pipe_read(p, n, nb) \/ pipe_write(p, n, nb)
           \/ Proceed(p)
           \/ \E e \in Ends : close_fp(p, e)
           \/ send_sig(p)
    BY <1>2 DEF Next
  <2>2. CASE \E n \in Counts, nb \in BOOLEAN : pipe_read(p, n, nb) \/ pipe_write(p, n, nb)
    BY <1>1, <2>2, pipe_readLedger, pipe_writeLedger DEF WInv
  <2>3. CASE Proceed(p)
    BY <1>1, <2>3, ReadResumeLedger, ReadCopyLedger, WriteResumeLedger, WriteCopyLedger
       DEF Proceed, WInv
  <2>4. CASE (\E e \in Ends : close_fp(p, e)) \/ send_sig(p)
    <3>1. UNCHANGED <<ring, pc, local, ret, calls, sent>>
      BY <2>4 DEF close_fp, send_sig
    <3> QED
      BY <1>1, <3>1, ElsewhereLedger DEF WInv
  <2> QED
    BY <2>1, <2>2, <2>3, <2>4
<1>3. CASE UNCHANGED vars
  <2>1. UNCHANGED <<ring, pc, local, ret, calls, sent>>
    BY <1>3 DEF vars, ring, local
  <2> QED
    BY <1>1, <2>1, ElsewhereLedger DEF WInv
<1> QED
  BY <1>2, <1>3

\* The ledger keeps the contract.
LEMMA LedgerIsContract == WInv => WriteContract
<1> SUFFICES ASSUME WInv PROVE WriteContract
  OBVIOUS
<1>0. /\ DOMAIN sent = 1 .. Len(sent) /\ Complete /\ Contiguous
      /\ \A p \in Procs : Account(p)
  BY LedgerTypes DEF WInv, Ledger
<1>1. AtomicWrites
  <2>1. \A k : k \in {m \in DOMAIN sent : sent[m].of <= PIPE_BUF} <=> Atomic(k)
    BY <1>0 DEF Atomic
  <2>2. \A k : Atomic(k) => k \in 1 .. Len(sent)
    BY DEF Atomic
  <2>3. \A i, k : Atomic(i) /\ Atomic(k) /\ SameCall(sent[i], sent[k]) =>
            \A j \in i .. k : SameCall(sent[j], sent[i])
    BY <1>0, <2>2 DEF Contiguous
  <2>4. \A k : Atomic(k) => \/ pc[sent[k].by] = "wcopy"
                            \/ \E j : Atomic(j) /\ SameCall(sent[j], sent[k]) /\ sent[j].nr = sent[k].of
    BY <1>0, <2>2 DEF Complete
  <2> QED
    BY <2>1, <2>3, <2>4 DEF AtomicWrites, SameCall
<1>2. WriteResult
  <2> SUFFICES ASSUME NEW p \in Procs, pc[p] = "user",
                      Cardinality({k \in DOMAIN sent : sent[k].by = p /\ sent[k].call = calls[p]}) > 0
               PROVE  ret[p] = Cardinality({k \in DOMAIN sent :
                                                sent[k].by = p /\ sent[k].call = calls[p]})
    BY DEF WriteResult
  <2>1. {k \in DOMAIN sent : sent[k].by = p /\ sent[k].call = calls[p]} = Stored(p)
    BY <1>0 DEF Stored
  <2>2. Stored(p) = {} \/ ret[p] = Cardinality(Stored(p))
    BY <1>0 DEF Account
  <2>3. Cardinality(Stored(p)) > 0 /\ Cardinality({}) = 0
    BY <2>1, FS_EmptySet
  <2>4. Stored(p) # {}
    BY <2>3
  <2> QED
    BY <2>1, <2>2, <2>4
<1> QED
  BY <1>1, <1>2 DEF WriteContract

\* A write of at most PIPE_BUF bytes is stored in one piece and whole, whatever
\* other processes do meanwhile, and the value every write returns is the
\* number of bytes it left in the pipe.
THEOREM WritesKeepContract == Spec => []WriteContract
<1>1. Spec => []WInv
  BY InitLedger, NextLedger, PTL DEF Spec
<1>2. QED
  BY <1>1, LedgerIsContract, PTL

-----------------------------------------------------------------------------
(* Named pipes.                                                            *)

USE ProcsAssumption, ModesAssumption

FifoPlaces == Past \cup {"user", "opening", "rwsync1"}

FifoTypes ==
    /\ readers \in Int /\ writers \in Int
    /\ base \in BOOLEAN /\ data \in BOOLEAN
    /\ pc \in [Procs -> FifoPlaces]
    /\ mode \in [Procs -> 0 .. 3]
    /\ err \in [Procs -> BOOLEAN]

\* Whoever is in fifo_open or has the FIFO open holds the inode, in the mode
\* that belongs to the place where it is.
ModeOfPlace ==
    \A p \in Procs :
        /\ pc[p] = "user" <=> mode[p] = 0
        /\ pc[p] \in {"rdwait", "rsync"} => mode[p] = 1
        /\ pc[p] \in {"wrwait", "wsync"} => mode[p] = 2
        /\ pc[p] \in {"rwsync1", "rwsync2"} => mode[p] = 3

\* There are no bytes without a page.
DataHasPage == data => base

\* The part of the invariant that holds with and without memory.
PageInv == FifoTypes /\ ModeOfPlace /\ OpenHasPage /\ DataHasPage

\* The inductive invariant.
FifoInv == PageInv /\ CountsExact

-----------------------------------------------------------------------------
(* Counting.                                                               *)

Bit(b) == IF b THEN 1 ELSE 0

\* Whether a process at place x in mode m is counted.
AsReader(x, m) == m \in {1, 3} /\ x \in Past \cup {"rwsync1"}
AsWriter(x, m) == m \in {2, 3} /\ x \in Past

\* One process goes from one place to another, in a mode that may change.
Moves(p, x, m) ==
    /\ pc' = [pc EXCEPT ![p] = x]
    /\ mode' = [mode EXCEPT ![p] = m]

\* The counts follow the process.
Counted(p, x, m) ==
    /\ readers' = readers - Bit(Reads(p)) + Bit(AsReader(x, m))
    /\ writers' = writers - Bit(Writes(p)) + Bit(AsWriter(x, m))

\* One element is taken out of a set and put in, or not, again.
LEMMA CountOne ==
    ASSUME NEW S, NEW T, NEW p, IsFiniteSet(S), S \ {p} = T \ {p}, IsFiniteSet(T)
    PROVE  Cardinality(T) = Cardinality(S) - Bit(p \in S) + Bit(p \in T)
<1>1. /\ Cardinality(S \ {p}) = Cardinality(S) - Bit(p \in S)
      /\ Cardinality(T \ {p}) = Cardinality(T) - Bit(p \in T)
  <2>1. /\ Cardinality(S \ {p}) = IF p \in S THEN Cardinality(S) - 1 ELSE Cardinality(S)
        /\ Cardinality(T \ {p}) = IF p \in T THEN Cardinality(T) - 1 ELSE Cardinality(T)
    BY FS_RemoveElement, Zenon
  <2>2. Cardinality(S) \in Nat /\ Cardinality(T) \in Nat
    BY FS_CardinalityType
  <2> QED
    BY <2>1, <2>2 DEF Bit
<1>2. Cardinality(S) \in Nat /\ Cardinality(T) \in Nat
  BY FS_CardinalityType
<1>3. Cardinality(S \ {p}) = Cardinality(T \ {p})
  BY Zenon
<1> QED
  BY <1>1, <1>2, <1>3 DEF Bit

\* Counts that follow a moving process stay exact.
LEMMA CountsFollow ==
    ASSUME FifoTypes, CountsExact, NEW p \in Procs, NEW x, NEW m, Moves(p, x, m), Counted(p, x, m)
    PROVE  CountsExact'
<1> DEFINE R == {q \in Procs : Reads(q)}
           W == {q \in Procs : Writes(q)}
           R2 == {q \in Procs : Reads(q)'}
           W2 == {q \in Procs : Writes(q)'}
<1>1. IsFiniteSet(R) /\ IsFiniteSet(W) /\ IsFiniteSet(R2) /\ IsFiniteSet(W2)
  BY FS_Subset
<1>2. R \ {p} = R2 \ {p} /\ W \ {p} = W2 \ {p}
  BY DEF FifoTypes, Moves, Reads, Writes
<1>3. /\ (p \in R2) = AsReader(x, m) /\ (p \in W2) = AsWriter(x, m)
      /\ (p \in R) = Reads(p) /\ (p \in W) = Writes(p)
  BY DEF FifoTypes, Moves, Reads, Writes, AsReader, AsWriter
<1>4. /\ Cardinality(R2) = Cardinality(R) - Bit(p \in R) + Bit(p \in R2)
      /\ Cardinality(W2) = Cardinality(W) - Bit(p \in W) + Bit(p \in W2)
  BY <1>1, <1>2, CountOne
<1> HIDE DEF R, W, R2, W2
<1>5. readers' = Cardinality(R2) /\ writers' = Cardinality(W2)
  BY <1>3, <1>4 DEF Counted, CountsExact, R, W
<1> QED
  BY <1>5 DEF CountsExact, R2, W2

-----------------------------------------------------------------------------
(* The pieces that the handlers are built from.                            *)

\* A process that goes to a place, or leaves, without touching the page.
LEMMA MovePage ==
    ASSUME PageInv, NEW p \in Procs, NEW x \in FifoPlaces, NEW m \in 0 .. 3, Moves(p, x, m),
           x = "user" <=> m = 0,
           x \in {"rdwait", "rsync"} => m = 1,
           x \in {"wrwait", "wsync"} => m = 2,
           x \in {"rwsync1", "rwsync2"} => m = 3,
           x \in {"open", "cread"} => base',
           base' = base, data' \in BOOLEAN, data' => base',
           readers' \in Int, writers' \in Int, err' \in [Procs -> BOOLEAN]
    PROVE  PageInv'
<1>1. FifoTypes'
  BY DEF PageInv, FifoTypes, Moves
<1>2. ModeOfPlace'
  BY DEF PageInv, FifoTypes, Moves, ModeOfPlace
<1>3. OpenHasPage' /\ DataHasPage'
  BY DEF PageInv, FifoTypes, Moves, OpenHasPage, DataHasPage
<1> QED
  BY <1>1, <1>2, <1>3 DEF PageInv

\* The last iput may free the page: then nobody has the FIFO open.
LEMMA IputPage ==
    ASSUME PageInv, NEW p \in Procs, Moves(p, "user", 0), iput(p),
           readers' \in Int, writers' \in Int, err' \in [Procs -> BOOLEAN]
    PROVE  PageInv'
<1>1. FifoTypes'
  <2>1. base' \in BOOLEAN /\ data' \in BOOLEAN
    BY DEF PageInv, FifoTypes, iput
  <2>2. pc' \in [Procs -> FifoPlaces] /\ mode' \in [Procs -> 0 .. 3]
    BY DEF PageInv, FifoTypes, Moves, FifoPlaces
  <2> QED
    BY <2>1, <2>2 DEF FifoTypes
<1>2. ModeOfPlace'
  BY DEF PageInv, FifoTypes, Moves, ModeOfPlace
<1>3. OpenHasPage' /\ DataHasPage'
  <2>1. ASSUME NEW q \in Procs, pc'[q] \in {"open", "cread"} PROVE base'
    <3>1. q # p /\ pc[q] \in {"open", "cread"} /\ mode[q] # 0
      BY <2>1 DEF PageInv, FifoTypes, Moves, ModeOfPlace
    <3>2. OthersIn(p) /\ base
      BY <3>1 DEF OthersIn, PageInv, OpenHasPage
    <3> QED
      BY <3>2 DEF iput
  <2>2. DataHasPage'
    BY DEF iput, PageInv, DataHasPage
  <2> QED
    BY <2>1, <2>2 DEF OpenHasPage
<1> QED
  BY <1>1, <1>2, <1>3 DEF PageInv

\* What SleepOn, Opened and Fail are moves to.
LEMMA FifoSleepOnMoves ==
    ASSUME PageInv, NEW p \in Procs, NEW x \in FifoPlaces, NEW q, FifoSleepOn(p, x, q)
    PROVE  Moves(p, x, mode[p]) /\ UNCHANGED <<base, data>>
  BY DEF PageInv, FifoTypes, FifoSleepOn, Moves

LEMMA OpenedMoves ==
    ASSUME PageInv, NEW p \in Procs, NEW q, Opened(p, q)
    PROVE  \E x \in {"open", "alloc"} :
              Moves(p, x, mode[p]) /\ (x = "open" => base) /\ UNCHANGED <<base, data>>
  BY DEF PageInv, FifoTypes, Opened, Moves

LEMMA FailMoves ==
    ASSUME NEW p \in Procs, Fail(p)
    PROVE  Moves(p, "user", 0) /\ iput(p)
  BY DEF Fail, Moves

\* What a step of the kernel preserves.
Kept == PageInv' /\ (CountsExact => CountsExact')

\* A step that moves one process, counts it, and leaves the page alone.
LEMMA MoveKept ==
    ASSUME PageInv, NEW p \in Procs, NEW x \in FifoPlaces, NEW m \in 0 .. 3,
           Moves(p, x, m), Counted(p, x, m),
           x = "user" <=> m = 0,
           x \in {"rdwait", "rsync"} => m = 1,
           x \in {"wrwait", "wsync"} => m = 2,
           x \in {"rwsync1", "rwsync2"} => m = 3,
           x \in {"open", "cread"} => base,
           UNCHANGED <<base, data>>, err' \in [Procs -> BOOLEAN]
    PROVE  Kept
<1>1. readers' \in Int /\ writers' \in Int
  BY DEF Counted, Bit, PageInv, FifoTypes
<1>2. PageInv'
  <2>1. base' = base /\ data' \in BOOLEAN /\ (data' => base') /\ (x \in {"open", "cread"} => base')
    BY DEF PageInv, FifoTypes, DataHasPage
  <2> QED
    BY <1>1, <2>1, MovePage
<1>3. CountsExact => CountsExact'
  BY CountsFollow DEF PageInv
<1> QED
  BY <1>2, <1>3 DEF Kept

\* A step that ends with iput, counted as it must be.
LEMMA IputKept ==
    ASSUME PageInv, NEW p \in Procs, Moves(p, "user", 0), iput(p), Counted(p, "user", 0),
           err' \in [Procs -> BOOLEAN]
    PROVE  Kept
<1>1. readers' \in Int /\ writers' \in Int
  BY DEF Counted, Bit, PageInv, FifoTypes
<1> QED
  BY <1>1, IputPage, CountsFollow DEF PageInv, Kept

\* A blocked or finished open in mode m, from a place where r and w say
\* whether it was counted.
LEMMA FifoSleepOnKept ==
    ASSUME PageInv, NEW p \in Procs, NEW x \in FifoPlaces, NEW q, FifoSleepOn(p, x, q),
           x \in {"rdwait", "rsync"} => mode[p] = 1,
           x \in {"wrwait", "wsync"} => mode[p] = 2,
           x \in {"rwsync1", "rwsync2"} => mode[p] = 3,
           x \notin {"user", "open", "cread"}, mode[p] # 0,
           Counted(p, x, mode[p]), err' \in [Procs -> BOOLEAN]
    PROVE  Kept
<1>1. Moves(p, x, mode[p]) /\ UNCHANGED <<base, data>>
  BY FifoSleepOnMoves
<1>2. mode[p] \in 0 .. 3
  BY DEF PageInv, FifoTypes
<1> QED
  BY <1>1, <1>2, MoveKept

LEMMA OpenedKept ==
    ASSUME PageInv, NEW p \in Procs, NEW q, Opened(p, q), mode[p] # 0,
           Counted(p, "open", mode[p]), err' \in [Procs -> BOOLEAN]
    PROVE  Kept
<1>1. PICK x \in {"open", "alloc"} :
          Moves(p, x, mode[p]) /\ (x = "open" => base) /\ UNCHANGED <<base, data>>
  BY OpenedMoves
<1>2. mode[p] \in 0 .. 3 /\ x \in FifoPlaces /\ x \notin {"user", "cread"}
  BY DEF PageInv, FifoTypes, FifoPlaces, Past
<1>3. Counted(p, x, mode[p])
  BY DEF Counted, AsReader, AsWriter, Past
<1>4. x \notin {"rdwait", "rsync", "wrwait", "wsync", "rwsync1", "rwsync2"}
  OBVIOUS
<1> QED
  BY <1>1, <1>2, <1>3, <1>4, MoveKept

LEMMA FailKept ==
    ASSUME PageInv, NEW p \in Procs, Fail(p), Counted(p, "user", 0), err' \in [Procs -> BOOLEAN]
    PROVE  Kept
  BY FailMoves, IputKept

-----------------------------------------------------------------------------
(* One lemma for each handler.                                             *)

\* The end of an O_RDONLY open, which has been counted in r.
LEMMA ReadSyncKept ==
    ASSUME PageInv, NEW p \in Procs, NEW q, NEW e \in BOOLEAN,
           mode[p] = 1, UNCHANGED writers, err' \in [Procs -> BOOLEAN],
           ReadSync(p, q, readers - Bit(Reads(p)) + 1, e)
    PROVE  Kept
<1> DEFINE r == readers - Bit(Reads(p)) + 1
<1>0. readers \in Int /\ writers \in Int /\ r \in Int /\ ~Writes(p)
  BY DEF PageInv, FifoTypes, Bit, Writes
<1>1. CASE wrop > 0 /\ FifoSleepOn(p, "rsync", q) /\ readers' = r
  <2>1. Counted(p, "rsync", mode[p])
    BY <1>0, <1>1 DEF Counted, AsReader, AsWriter, Past, Bit
  <2>2. "rsync" \in FifoPlaces
    BY DEF FifoPlaces, Past
  <2> QED
    BY <1>1, <2>1, <2>2, FifoSleepOnKept
<1>2. CASE e /\ readers' = Uncount(r) /\ Fail(p)
  <2>1. Counted(p, "user", 0)
    BY <1>0, <1>2 DEF Counted, AsReader, AsWriter, Past, Bit, Uncount
  <2> QED
    BY <1>2, <2>1, FailKept
<1>3. CASE readers' = r /\ Opened(p, q)
  <2>1. Counted(p, "open", mode[p])
    BY <1>0, <1>3 DEF Counted, AsReader, AsWriter, Past, Bit
  <2> QED
    BY <1>3, <2>1, OpenedKept
<1> QED
  BY <1>1, <1>2, <1>3 DEF ReadSync

\* The same for O_WRONLY.
LEMMA WriteSyncKept ==
    ASSUME PageInv, NEW p \in Procs, NEW q, NEW e \in BOOLEAN,
           mode[p] = 2, UNCHANGED readers, err' \in [Procs -> BOOLEAN],
           WriteSync(p, q, writers - Bit(Writes(p)) + 1, e)
    PROVE  Kept
<1> DEFINE w == writers - Bit(Writes(p)) + 1
<1>0. readers \in Int /\ writers \in Int /\ w \in Int /\ ~Reads(p)
  BY DEF PageInv, FifoTypes, Bit, Reads
<1>1. CASE writers' = w /\ FifoSleepOn(p, "wsync", q)
  <2>1. Counted(p, "wsync", mode[p])
    BY <1>0, <1>1 DEF Counted, AsReader, AsWriter, Past, Bit
  <2>2. "wsync" \in FifoPlaces
    BY DEF FifoPlaces, Past
  <2> QED
    BY <1>1, <2>1, <2>2, FifoSleepOnKept
<1>2. CASE e /\ writers' = Uncount(w) /\ Fail(p)
  <2>1. Counted(p, "user", 0)
    BY <1>0, <1>2 DEF Counted, AsReader, AsWriter, Past, Bit, Uncount
  <2> QED
    BY <1>2, <2>1, FailKept
<1>3. CASE writers' = w /\ Opened(p, q)
  <2>1. Counted(p, "open", mode[p])
    BY <1>0, <1>3 DEF Counted, AsReader, AsWriter, Past, Bit
  <2> QED
    BY <1>3, <2>1, OpenedKept
<1> QED
  BY <1>1, <1>2, <1>3 DEF WriteSync

LEMMA fifo_open_readKept ==
    ASSUME PageInv, NEW p \in Procs, fifo_open_read(p)
    PROVE  Kept
<1>0. /\ pc[p] = "opening" /\ mode[p] = 1 /\ ~Reads(p) /\ ~Writes(p)
      /\ readers \in Int /\ writers \in Int /\ UNCHANGED writers
  BY DEF fifo_open_read, Reads, Writes, Past, PageInv, FifoTypes
<1>1. err' \in [Procs -> BOOLEAN] /\ err'[p] \in BOOLEAN
  <2>1. (~nonblock[p] /\ writers = 0 /\ p \in sig) \in BOOLEAN
    OBVIOUS
  <2> QED
    BY <2>1 DEF fifo_open_read, PageInv, FifoTypes
<1>2. CASE ~nonblock[p] /\ writers = 0 /\ p \notin sig
  <2>1. readers' = readers + 1 /\ FifoSleepOn(p, "rdwait", Arrive(readers))
    BY <1>2 DEF fifo_open_read
  <2>2. Counted(p, "rdwait", mode[p])
    BY <1>0, <2>1 DEF Counted, AsReader, AsWriter, Past, Bit
  <2>3. "rdwait" \in FifoPlaces
    BY DEF FifoPlaces, Past
  <2> QED
    BY <1>0, <1>1, <2>1, <2>2, <2>3, FifoSleepOnKept
<1>3. CASE ~(~nonblock[p] /\ writers = 0 /\ p \notin sig)
  <2>1. ReadSync(p, Arrive(readers), readers + 1, err'[p])
    BY <1>3 DEF fifo_open_read
  <2>2. readers + 1 = readers - Bit(Reads(p)) + 1
    BY <1>0 DEF Bit
  <2> QED
    BY <1>0, <1>1, <2>1, <2>2, ReadSyncKept
<1> QED
  BY <1>2, <1>3

LEMMA OpenReadWaitKept ==
    ASSUME PageInv, NEW p \in Procs, OpenReadWait(p)
    PROVE  Kept
<1>0. /\ pc[p] = "rdwait" /\ mode[p] = 1 /\ Reads(p) /\ ~Writes(p)
      /\ readers \in Int /\ writers \in Int /\ UNCHANGED writers
  BY DEF OpenReadWait, Reads, Writes, Past, PageInv, FifoTypes, ModeOfPlace
<1>1. CASE writers = 0 /\ p \notin sig
  <2>1. UNCHANGED <<readers, err>> /\ FifoSleepOn(p, "rdwait", asleep)
    BY <1>1 DEF OpenReadWait
  <2>2. Counted(p, "rdwait", mode[p])
    BY <1>0, <2>1 DEF Counted, AsReader, AsWriter, Past, Bit
  <2>3. "rdwait" \in FifoPlaces /\ err' \in [Procs -> BOOLEAN]
    BY <2>1 DEF FifoPlaces, Past, PageInv, FifoTypes
  <2> QED
    BY <1>0, <2>1, <2>2, <2>3, FifoSleepOnKept
<1>2. CASE ~(writers = 0 /\ p \notin sig)
  <2>1. ReadSync(p, Leave(rdop), readers, writers = 0) /\ err' \in [Procs -> BOOLEAN]
    BY <1>2 DEF OpenReadWait, PageInv, FifoTypes
  <2>2. readers = readers - Bit(Reads(p)) + 1 /\ (writers = 0) \in BOOLEAN
    BY <1>0 DEF Bit
  <2> QED
    BY <1>0, <2>1, <2>2, ReadSyncKept
<1> QED
  BY <1>1, <1>2

LEMMA ReadSyncResumeKept ==
    ASSUME PageInv, NEW p \in Procs, ReadSyncResume(p)
    PROVE  Kept
<1>1. /\ mode[p] = 1 /\ Reads(p) /\ readers \in Int /\ UNCHANGED <<writers, err>>
      /\ ReadSync(p, asleep, readers, err[p])
      /\ err' \in [Procs -> BOOLEAN] /\ err[p] \in BOOLEAN
  BY DEF ReadSyncResume, Reads, Past, PageInv, FifoTypes, ModeOfPlace
<1>2. readers = readers - Bit(Reads(p)) + 1
  BY <1>1 DEF Bit
<1> QED
  BY <1>1, <1>2, ReadSyncKept

LEMMA fifo_open_writeKept ==
    ASSUME PageInv, NEW p \in Procs, fifo_open_write(p)
    PROVE  Kept
<1>0. /\ pc[p] = "opening" /\ mode[p] = 2 /\ ~Reads(p) /\ ~Writes(p)
      /\ readers \in Int /\ writers \in Int /\ UNCHANGED readers
  BY DEF fifo_open_write, Reads, Writes, Past, PageInv, FifoTypes
<1>1. CASE nonblock[p] /\ readers = 0
  <2>1. Fail(p) /\ UNCHANGED <<writers, err>>
    BY <1>1 DEF fifo_open_write
  <2>2. Counted(p, "user", 0) /\ err' \in [Procs -> BOOLEAN]
    BY <1>0, <2>1 DEF Counted, AsReader, AsWriter, Past, Bit, PageInv, FifoTypes
  <2> QED
    BY <2>1, <2>2, FailKept
<1>2. CASE ~(nonblock[p] /\ readers = 0)
  <2>1. err' \in [Procs -> BOOLEAN] /\ err'[p] \in BOOLEAN
    <3>1. (readers = 0 /\ p \in sig) \in BOOLEAN
      OBVIOUS
    <3>2. err' = [err EXCEPT ![p] = readers = 0 /\ p \in sig]
      BY <1>2 DEF fifo_open_write
    <3> QED
      BY <3>1, <3>2 DEF PageInv, FifoTypes
  <2>2. CASE readers = 0 /\ p \notin sig
    <3>1. writers' = writers + 1 /\ FifoSleepOn(p, "wrwait", Arrive(writers))
      BY <1>2, <2>2 DEF fifo_open_write
    <3>2. Counted(p, "wrwait", mode[p])
      BY <1>0, <3>1 DEF Counted, AsReader, AsWriter, Past, Bit
    <3>3. "wrwait" \in FifoPlaces
      BY DEF FifoPlaces, Past
    <3> QED
      BY <1>0, <2>1, <3>1, <3>2, <3>3, FifoSleepOnKept
  <2>3. CASE ~(readers = 0 /\ p \notin sig)
    <3>1. WriteSync(p, Arrive(writers), writers + 1, err'[p])
      BY <1>2, <2>3 DEF fifo_open_write
    <3>2. writers + 1 = writers - Bit(Writes(p)) + 1
      BY <1>0 DEF Bit
    <3> QED
      BY <1>0, <2>1, <3>1, <3>2, WriteSyncKept
  <2> QED
    BY <2>2, <2>3
<1> QED
  BY <1>1, <1>2

LEMMA OpenWriteWaitKept ==
    ASSUME PageInv, NEW p \in Procs, OpenWriteWait(p)
    PROVE  Kept
<1>0. /\ pc[p] = "wrwait" /\ mode[p] = 2 /\ ~Reads(p) /\ Writes(p)
      /\ readers \in Int /\ writers \in Int /\ UNCHANGED readers
  BY DEF OpenWriteWait, Reads, Writes, Past, PageInv, FifoTypes, ModeOfPlace
<1>1. CASE readers = 0 /\ p \notin sig
  <2>1. UNCHANGED <<writers, err>> /\ FifoSleepOn(p, "wrwait", asleep)
    BY <1>1 DEF OpenWriteWait
  <2>2. Counted(p, "wrwait", mode[p])
    BY <1>0, <2>1 DEF Counted, AsReader, AsWriter, Past, Bit
  <2>3. "wrwait" \in FifoPlaces /\ err' \in [Procs -> BOOLEAN]
    BY <2>1 DEF FifoPlaces, Past, PageInv, FifoTypes
  <2> QED
    BY <1>0, <2>1, <2>2, <2>3, FifoSleepOnKept
<1>2. CASE ~(readers = 0 /\ p \notin sig)
  <2>1. WriteSync(p, Leave(wrop), writers, readers = 0) /\ err' \in [Procs -> BOOLEAN]
    BY <1>2 DEF OpenWriteWait, PageInv, FifoTypes
  <2>2. writers = writers - Bit(Writes(p)) + 1 /\ (readers = 0) \in BOOLEAN
    BY <1>0 DEF Bit
  <2> QED
    BY <1>0, <2>1, <2>2, WriteSyncKept
<1> QED
  BY <1>1, <1>2

LEMMA WriteSyncResumeKept ==
    ASSUME PageInv, NEW p \in Procs, WriteSyncResume(p)
    PROVE  Kept
<1>1. /\ mode[p] = 2 /\ Writes(p) /\ writers \in Int /\ UNCHANGED <<readers, err>>
      /\ WriteSync(p, asleep, writers, err[p])
      /\ err' \in [Procs -> BOOLEAN] /\ err[p] \in BOOLEAN
  BY DEF WriteSyncResume, Writes, Past, PageInv, FifoTypes, ModeOfPlace
<1>2. writers = writers - Bit(Writes(p)) + 1
  BY <1>1 DEF Bit
<1> QED
  BY <1>1, <1>2, WriteSyncKept

\* An O_RDWR open is counted as a reader when it begins, as a writer between
\* its two loops.
LEMMA RdwrSyncKept ==
    ASSUME PageInv, NEW p \in Procs, NEW q, mode[p] = 3, ~Writes(p),
           readers' = readers - Bit(Reads(p)) + 1, UNCHANGED err, RdwrSync(p, q)
    PROVE  Kept
<1>0. readers \in Int /\ writers \in Int /\ err' \in [Procs -> BOOLEAN]
  BY DEF PageInv, FifoTypes
<1>1. CASE wrop > 0
  <2>1. FifoSleepOn(p, "rwsync1", q) /\ UNCHANGED writers
    BY <1>1 DEF RdwrSync
  <2>2. Counted(p, "rwsync1", mode[p])
    BY <1>0, <2>1 DEF Counted, AsReader, AsWriter, Past, Bit
  <2>3. "rwsync1" \in FifoPlaces
    BY DEF FifoPlaces
  <2> QED
    BY <1>0, <2>1, <2>2, <2>3, FifoSleepOnKept
<1>2. CASE ~(wrop > 0)
  <2>1. PICK q2 : /\ writers' = writers + 1
                  /\ IF rdop > 0 THEN FifoSleepOn(p, "rwsync2", q2) ELSE Opened(p, q2)
    BY <1>2 DEF RdwrSync
  <2>2. Counted(p, "rwsync2", mode[p]) /\ Counted(p, "open", mode[p])
    BY <1>0, <2>1 DEF Counted, AsReader, AsWriter, Past, Bit
  <2>3. "rwsync2" \in FifoPlaces
    BY DEF FifoPlaces, Past
  <2> QED
    BY <1>0, <2>1, <2>2, <2>3, FifoSleepOnKept, OpenedKept
<1> QED
  BY <1>1, <1>2

LEMMA fifo_open_rdwrKept ==
    ASSUME PageInv, NEW p \in Procs, fifo_open_rdwr(p)
    PROVE  Kept
<1>1. /\ mode[p] = 3 /\ ~Reads(p) /\ ~Writes(p) /\ readers \in Int
      /\ readers' = readers + 1 /\ RdwrSync(p, Arrive(readers)) /\ UNCHANGED err
  BY DEF fifo_open_rdwr, Reads, Writes, Past, PageInv, FifoTypes
<1>2. readers' = readers - Bit(Reads(p)) + 1
  BY <1>1 DEF Bit
<1> QED
  BY <1>1, <1>2, RdwrSyncKept

LEMMA RdwrSyncResumeKept ==
    ASSUME PageInv, NEW p \in Procs, RdwrSyncResume(p)
    PROVE  Kept
<1>0. UNCHANGED <<readers, err>> /\ readers \in Int /\ writers \in Int /\ err' \in [Procs -> BOOLEAN]
  BY DEF RdwrSyncResume, PageInv, FifoTypes
<1>1. CASE pc[p] = "rwsync1" /\ RdwrSync(p, asleep)
  <2>1. mode[p] = 3 /\ Reads(p) /\ ~Writes(p)
    BY <1>1 DEF PageInv, FifoTypes, ModeOfPlace, Reads, Writes, Past
  <2>2. readers' = readers - Bit(Reads(p)) + 1
    BY <1>0, <2>1 DEF Bit
  <2> QED
    BY <1>0, <1>1, <2>1, <2>2, RdwrSyncKept
<1>2. CASE /\ pc[p] = "rwsync2" /\ UNCHANGED writers
           /\ IF rdop > 0 THEN FifoSleepOn(p, "rwsync2", asleep) ELSE Opened(p, asleep)
  <2>1. mode[p] = 3 /\ Reads(p) /\ Writes(p)
    BY <1>2 DEF PageInv, FifoTypes, ModeOfPlace, Reads, Writes, Past
  <2>2. Counted(p, "rwsync2", mode[p]) /\ Counted(p, "open", mode[p])
    BY <1>0, <1>2, <2>1 DEF Counted, AsReader, AsWriter, Past, Bit
  <2>3. "rwsync2" \in FifoPlaces
    BY DEF FifoPlaces, Past
  <2> QED
    BY <1>0, <1>2, <2>1, <2>2, <2>3, FifoSleepOnKept, OpenedKept
<1> QED
  BY <1>1, <1>2 DEF RdwrSyncResume

\* The page arrives, or another opener has brought one, or there is none to be
\* had: then the count is not taken back.
LEMMA GetPageKept ==
    ASSUME PageInv, NEW p \in Procs, GetPage(p)
    PROVE  PageInv' /\ (~OutOfMemory => Kept)
<1>0. /\ pc[p] = "alloc" /\ mode[p] # 0
      /\ UNCHANGED <<readers, writers, err>> /\ err' \in [Procs -> BOOLEAN]
      /\ readers' \in Int /\ writers' \in Int
  BY DEF GetPage, PageInv, FifoTypes, ModeOfPlace
<1>1. CASE /\ IF BaseIsSet THEN UNCHANGED <<base, data>> ELSE base' = TRUE /\ data' = FALSE
           /\ pc' = [pc EXCEPT ![p] = "open"]
           /\ UNCHANGED mode
  <2>1. Moves(p, "open", mode[p]) /\ Counted(p, "open", mode[p])
    BY <1>0, <1>1 DEF Moves, Counted, AsReader, AsWriter, Reads, Writes, Past, Bit, PageInv, FifoTypes
  <2>2. base' = TRUE /\ data' \in BOOLEAN
    BY <1>1 DEF BaseIsSet, PageInv, FifoTypes
  <2>3. PageInv'
    <3>1. FifoTypes'
      BY <1>0, <2>1, <2>2 DEF PageInv, FifoTypes, Moves, FifoPlaces, Past
    <3>2. ModeOfPlace'
      BY <1>0, <2>1 DEF PageInv, FifoTypes, Moves, ModeOfPlace
    <3> QED
      BY <2>2, <3>1, <3>2 DEF PageInv, OpenHasPage, DataHasPage
  <2>4. CountsExact => CountsExact'
    BY <2>1, CountsFollow DEF PageInv
  <2> QED
    BY <2>3, <2>4 DEF Kept
<1>2. CASE OutOfMemory /\ Fail(p)
  <2>1. PageInv'
    BY <1>0, <1>2, FailMoves, IputPage
  <2> QED
    BY <1>2, <2>1
<1> QED
  BY <1>1, <1>2 DEF GetPage

LEMMA fifo_closeKept ==
    ASSUME PageInv, NEW p \in Procs, fifo_close(p)
    PROVE  Kept
<1>1. /\ pc[p] = "open" /\ mode[p] \in 1 .. 3
      /\ Moves(p, "user", 0) /\ iput(p) /\ err' \in [Procs -> BOOLEAN]
  BY DEF fifo_close, Moves, PageInv, FifoTypes, ModeOfPlace
<1>2. Counted(p, "user", 0)
  BY <1>1 DEF fifo_close, Release, Counted, AsReader, AsWriter, Reads, Writes, Past, Bit, PageInv, FifoTypes
<1> QED
  BY <1>1, <1>2, IputKept

\* A call that only moves bytes stays where it is.
LEMMA TransferKept ==
    ASSUME PageInv, NEW p \in Procs, Transfer(p)
    PROVE  Kept
<1>1. base /\ data' \in BOOLEAN /\ UNCHANGED <<readers, writers, base, pc, mode, err>>
  BY DEF Transfer, PageInv, OpenHasPage
<1>2. PageInv'
  BY <1>1 DEF PageInv, FifoTypes, ModeOfPlace, OpenHasPage, DataHasPage
<1>3. CountsExact => CountsExact'
  BY <1>1 DEF CountsExact, Reads, Writes
<1> QED
  BY <1>2, <1>3 DEF Kept

LEMMA connect_readKept ==
    ASSUME PageInv, NEW p \in Procs, connect_read(p)
    PROVE  Kept
<1>0. /\ pc[p] \in {"open", "cread"} /\ base /\ UNCHANGED <<readers, writers, base, mode, err>>
      /\ readers' \in Int /\ writers' \in Int /\ err' \in [Procs -> BOOLEAN]
      /\ mode[p] \in 1 .. 3
  BY DEF connect_read, PageInv, FifoTypes, OpenHasPage, ModeOfPlace
<1>1. PICK x \in {"open", "cread"} : pc' = [pc EXCEPT ![p] = x] /\ (data' = FALSE \/ data' = data)
  BY DEF connect_read
<1>2. Moves(p, x, mode[p]) /\ Counted(p, x, mode[p])
  BY <1>0, <1>1 DEF Moves, Counted, AsReader, AsWriter, Reads, Writes, Past, Bit, PageInv, FifoTypes
<1>3. data' \in BOOLEAN /\ x \in FifoPlaces
  BY <1>1 DEF PageInv, FifoTypes, FifoPlaces, Past
<1>4. PageInv'
  BY <1>0, <1>1, <1>2, <1>3, MovePage
<1>5. CountsExact => CountsExact'
  BY <1>2, CountsFollow DEF PageInv
<1> QED
  BY <1>4, <1>5 DEF Kept

LEMMA do_openKept ==
    ASSUME PageInv, NEW p \in Procs, NEW m \in Modes[p], NEW nb \in BOOLEAN, do_open(p, m, nb)
    PROVE  Kept
<1>1. /\ m \in 1 .. 3 /\ "opening" \in FifoPlaces
      /\ Moves(p, "opening", m) /\ UNCHANGED <<readers, writers, base, data>>
      /\ err' \in [Procs -> BOOLEAN]
  BY DEF do_open, Moves, FifoPlaces, PageInv, FifoTypes
<1>2. Counted(p, "opening", m)
  BY <1>1 DEF do_open, Counted, AsReader, AsWriter, Reads, Writes, Past, Bit, PageInv, FifoTypes
<1> QED
  BY <1>1, <1>2, MoveKept

\* Steps that change neither the counts, the page, nor where anybody is.
LEMMA IdleKept ==
    ASSUME PageInv, UNCHANGED <<readers, writers, base, data, pc, mode, err>>
    PROVE  Kept
<1>1. PageInv'
  BY DEF PageInv, FifoTypes, ModeOfPlace, OpenHasPage, DataHasPage
<1>2. CountsExact => CountsExact'
  BY DEF CountsExact, Reads, Writes
<1> QED
  BY <1>1, <1>2 DEF Kept

-----------------------------------------------------------------------------
(* The theorems.                                                           *)

LEMMA FifoInitInv == init_fifo => FifoInv
<1> SUFFICES ASSUME init_fifo PROVE FifoInv
  OBVIOUS
<1>1. PageInv
  <2>1. base = FALSE /\ data = FALSE /\ base \in BOOLEAN /\ data \in BOOLEAN
    BY DEF init_fifo
  <2>2. FifoTypes
    BY <2>1 DEF init_fifo, FifoTypes, FifoPlaces
  <2>3. ModeOfPlace
    BY DEF init_fifo, ModeOfPlace
  <2>4. OpenHasPage /\ DataHasPage
    BY <2>1 DEF init_fifo, OpenHasPage, DataHasPage
  <2> QED
    BY <2>2, <2>3, <2>4 DEF PageInv
<1>2. {p \in Procs : Reads(p)} = {} /\ {p \in Procs : Writes(p)} = {}
  BY DEF init_fifo, Reads, Writes
<1>3. CountsExact
  BY <1>2, FS_EmptySet DEF init_fifo, CountsExact
<1> QED
  BY <1>1, <1>3 DEF FifoInv

LEMMA FifoNextKept ==
    ASSUME PageInv, [FifoNext]_fifo_vars
    PROVE  PageInv' /\ (~OutOfMemory => Kept)
<1>1. CASE UNCHANGED fifo_vars
  BY <1>1, IdleKept DEF fifo_vars, Kept
<1>2. ASSUME NEW p \in Procs, FifoProceed(p)
      PROVE  PageInv' /\ (~OutOfMemory => Kept)
  <2>1. CASE GetPage(p)
    BY <2>1, GetPageKept
  <2>2. CASE ~GetPage(p)
    BY <1>2, <2>2, fifo_open_readKept, OpenReadWaitKept, ReadSyncResumeKept,
       fifo_open_writeKept, OpenWriteWaitKept, WriteSyncResumeKept,
       fifo_open_rdwrKept, RdwrSyncResumeKept DEF FifoProceed, Kept
  <2> QED
    BY <2>1, <2>2
<1>3. ASSUME NEW p \in Procs,
             \/ \E m \in Modes[p], nb \in BOOLEAN : do_open(p, m, nb)
             \/ Transfer(p) \/ connect_read(p) \/ fifo_close(p)
      PROVE  Kept
  BY <1>3, do_openKept, TransferKept, connect_readKept, fifo_closeKept
<1>4. ASSUME NEW p \in Procs, fifo_send_sig(p) PROVE Kept
  BY <1>4, IdleKept DEF fifo_send_sig
<1> QED
  BY <1>1, <1>2, <1>3, <1>4 DEF FifoNext, Kept

\* Every open file of the FIFO has its page, also when memory is short: the
\* page that fifo_open allocates after a sleep, and that the last iput frees,
\* is there for as long as anybody can read or write.
THEOREM PageStays == FifoSpec => []OpenHasPage
<1>1. init_fifo => PageInv
  BY FifoInitInv DEF FifoInv
<1>2. PageInv /\ [FifoNext]_fifo_vars => PageInv'
  BY FifoNextKept
<1>3. PageInv => OpenHasPage
  BY DEF PageInv
<1> QED
  BY <1>1, <1>2, <1>3, PTL DEF FifoSpec

\* With memory enough, PIPE_READERS and PIPE_WRITERS are at all times the
\* numbers of readers and writers: no interleaving of opens that block, are
\* interrupted, or refused with -ENXIO, and of closes, leaves one too many, so
\* that end of file and EPIPE are reported when they should be.
THEOREM CountsStayExact == ~OutOfMemory /\ FifoSpec => []FilesAccounted
<1> SUFFICES ASSUME ~OutOfMemory PROVE FifoSpec => []FilesAccounted
  OBVIOUS
<1>1. init_fifo => FifoInv
  BY FifoInitInv
<1>2. FifoInv /\ [FifoNext]_fifo_vars => FifoInv'
  BY FifoNextKept DEF FifoInv, Kept
<1>3. FifoInv => FilesAccounted
  BY DEF FifoInv, PageInv, FilesAccounted
<1> QED
  BY <1>1, <1>2, <1>3, PTL DEF FifoSpec

\* Where the pieces of an open leave the bytes of the ring alone.
LEMMA SyncKeepsData ==
    ASSUME PageInv, NEW p \in Procs, FifoProceed(p), data, ~data'
    PROVE  Fail(p) \/ GetPage(p)
  BY DEF FifoProceed, fifo_open_read, OpenReadWait, ReadSyncResume, ReadSync, fifo_open_write,
         OpenWriteWait, WriteSyncResume, WriteSync, fifo_open_rdwr, RdwrSyncResume, RdwrSync,
         FifoSleepOn, Opened

\* Bytes in the ring are dropped only by a reader that takes them, or with the
\* last user: an opener that comes back late from __get_free_page never resets
\* a ring that is in use.
THEOREM DataStays == FifoSpec => DataKept
<1>1. init_fifo => PageInv
  BY FifoInitInv DEF FifoInv
<1>2. PageInv /\ [FifoNext]_fifo_vars => PageInv'
  BY FifoNextKept
<1> DEFINE Drop == data /\ ~data' => \/ \A p \in Procs : mode'[p] = 0
                                     \/ \E p \in Procs : Transfer(p) \/ connect_read(p)
<1>3. ASSUME NEW p \in Procs, PageInv, Moves(p, "user", 0), iput(p), data, ~data'
      PROVE  \A q \in Procs : mode'[q] = 0
  BY <1>3 DEF Moves, iput, OthersIn, PageInv, FifoTypes
<1>4. PageInv /\ [FifoNext]_fifo_vars => [Drop]_fifo_vars
  <2> SUFFICES ASSUME PageInv, FifoNext, data, ~data',
                      ~\E p \in Procs : Transfer(p) \/ connect_read(p)
               PROVE  \A p \in Procs : mode'[p] = 0
    BY DEF fifo_vars
  <2>1. ASSUME NEW p \in Procs, FifoProceed(p) PROVE \A q \in Procs : mode'[q] = 0
    <3>1. ~GetPage(p) \/ Fail(p)
      BY DEF GetPage, BaseIsSet, PageInv, DataHasPage
    <3> QED
      BY <1>3, <2>1, <3>1, SyncKeepsData, FailMoves
  <2>2. ASSUME NEW p \in Procs, fifo_close(p) PROVE \A q \in Procs : mode'[q] = 0
    <3>1. Moves(p, "user", 0) /\ iput(p)
      BY <2>2 DEF fifo_close, Moves
    <3> QED
      BY <1>3, <3>1
  <2> QED
    BY <2>1, <2>2 DEF FifoNext, do_open, fifo_send_sig
<1> QED
  BY <1>1, <1>2, <1>4, PTL DEF FifoSpec, DataKept

=============================================================================
