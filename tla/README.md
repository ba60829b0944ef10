# Linux 1.0 kernel: TLA+ specifications

TLA+ models of the core of the kernel under `src/Linux1.0`, the TLC runs that
check them on small instances, and TLAPS proofs of the properties that matter
most. Every definition is translated from the C (or assembler) source;
`PROJECT.json` gives the lines for each.

The kernel is a single-processor kernel that is not preempted in kernel mode. So
the unit of atomicity in all modules is *the code between two points where the
process may lose the processor*: a sleep on a wait queue, a copy to or from user
space (it may page-fault), an allocation of memory, a block read. Code that
interrupts can enter is split further, at the places where interrupts are
enabled.

## 1. Inventory

| Part | State | Operations | What is hard | What makes it correct |
|---|---|---|---|---|
| Scheduler (`kernel/sched.c`, `itimer.c`, `sys_call.S`) | task states, counters, `need_resched`, `itimer_ticks`, `itimer_next`, interval timers | `schedule`, `do_timer`, `wake_up`, `setitimer`, `nice` | interrupts inside `schedule`; signals and timeouts only leave marks; three copies of the elapsed time | nobody starves; every mark ends the sleep; alarms are neither early, lost nor late |
| Kernel timers (`kernel/sched.c`, `irq.c`) | `next_timer` with relative times, `timer_table`, `bh_active` | `add_timer`, `del_timer`, `do_timer`, `timer_bh` | calls run with interrupts on while the list changes | the list is one countdown per timer; what expired is called |
| Pipes (`fs/pipe.c`) | ring buffer, `PIPE_LOCK`, reader and writer counts, one wait queue | `pipe_read`, `pipe_write`, close | copies sleep while the ring is locked; one queue for four reasons | exclusion, order, atomic short writes, no lost wakeup |
| FIFOs (`fs/fifo.c`) | the same, plus openers counters, page | `fifo_open` (three modes), close, `connect_read` | mutual waits of openers, signals, page allocated after a sleep | openers meet, counts are exact, bytes in use are not reset |
| Record locks (`fs/locks.c`) | `i_flock` list, table of 64 entries, `fl_wait` queues | `F_SETLK`, `F_SETLKW`, removal at close | merge and split, table full, overflow of offsets, waiters on entries that change | list means what POSIX promises byte by byte; waiters follow the locks |
| Inode cache (`fs/inode.c`) | table, buckets, `i_count`, `i_lock`, `i_dirt`, `nr_free_inodes`, two wait queues | `iget`, `iput`, `get_empty_inode`, `clear_inode`, read and write back, sync, invalidate | every operation sleeps in the middle; references taken and dropped across sleeps | one copy per number, exact references, no change lost, sleepers woken |
| Block requests (`drivers/block/ll_rw_blk.c`, `blk.h`) | the queue of a disk, 64 requests, `b_lock`, `wait_for_request`, the plug | `ll_rw_block`, `make_request`, `add_request`, `end_request` | the interrupt works on the queue that processes sort into; waits for a free request with a buffer locked | every lock has an owner, nothing starves, the plug comes off (it may not: section 5, item 7) |
| Buffer cache (`fs/buffer.c`) | hash table, free list, `b_count`, `b_dirt`, `b_uptodate`, `buffer_wait` | `getblk`, `bread`, `breada`, `brelse`, `sync_buffers`, `shrink_buffers` | every operation sleeps in the middle; the list changes under the loops | one buffer per block, exact references, fsync means on the disk |
| System V IPC (`ipc/`) | identifiers with sequence numbers, values, queues, undo lists | `semop`, `semctl`, `sem_exit`, `msgsnd`, `msgrcv`, removal | removal while others sleep; undo at exit, which may sleep as well | undo accounts for everything, removed sets report it and are freed once |
| Processes and signals (`kernel/fork.c`, `exit.c`, `signal.c`, `ptrace.c`) | task table, family links, pending signals | `fork`, `exit`, `wait4`, `kill`, `ptrace` | exit of parent and child at once; two parents per task | the links are a tree, each zombie is reaped, `wait4` is woken |
| TCP (`net/inet/tcp.c`, `timer.c`, `ip.c`) | send, write and receive queues, windows, one timer per socket | `tcp_write`, `tcp_read`, `tcp_rcv`, `tcp_ack`, `tcp_data`, `net_timer` | losses, reordering, retransmission, zero windows | the stream is whole and in order and arrives |
| Semaphores (`sched.h`, `__down`) | count, wait queue | `down`, `up` | wakeup between test and sleep | exclusion, no lost wakeup |
| Memory (`mm/`) | page counts, swap map, free lists | faults, copy-on-write, swap | swapping from inside an allocation | pages are freed once, and not while in use |
| `select`, names, mounting, files | tables and counts | the system calls | several queues at once; sleeps in path walks | wakeups, exact counts |
| Other networking (`net/`) | sockets, connection states, routes | connecting, closing, UDP, ARP, Unix sockets | half open connections, timers | connection state machine |
| Drivers, disk layouts, `exec`, boot, FPU emulator | — | — | hardware, layout | — |

How they interact: processes sleep on wait queues and are woken by other
processes and by interrupts; `wake_up` only makes runnable, `schedule` decides.
`do_timer` runs the clock for the scheduler and marks the bottom half for the
timers. `iput` is the end of pipes and FIFOs (it frees their page and wakes
their queue), `close_fp` removes record locks, `do_exit` ends in `sem_exit`. The
buffer cache puts its buffers into the request queue, and the interrupt that
ends a request unlocks them; the inode cache reads and writes through it. TCP
lives between system calls, packets and the kernel timer of the socket. The fairness that the other
modules assume (a runnable process gets the processor) is what `Scheduler` shows.

The full list of parts, with the reason for each one that is not modelled, is in
`PROJECT.json` under `components`; what is hard to test is under `hazards`, at
the line where it bites.

## 2. Modules

| Module | What it is | State and actions in the code's terms |
|---|---|---|
| `Pipe` | `fs/pipe.c` | `start`, `len`, `lock`, `readers`, `writers`, `base` are the `PIPE_*` fields; `pipe_read` and `pipe_write` are the calls up to their first sleep, `ReadResume`/`WriteResume` the loop after a sleep, `ReadCopy`/`WriteCopy` the rest after a copy; `close_fp`, `send_sig` |
| `PipeProofs` | proofs about `Pipe` and `Fifo` | |
| `Fifo` | `fs/fifo.c`, `connect_read`, parts of `do_open` and `iput` | `fifo_open_read`, `_write`, `_rdwr` for the three modes, `*Wait` and `*SyncResume` for the loops after a sleep, `GetPage`, `fifo_close` (`close_fp`) |
| `PipeInode` | the fields of the inode that `Pipe` and `Fifo` both use (`pipe_fs_i.h`) | declarations only; names of `Fifo` that `Pipe` has too begin with `fifo_`, `Fifo` or `Open` |
| `FileLocks` | `fs/locks.c` | `i_flock` is a sequence of entries with their waiters; `lock_it` is built from one operator per branch of its loop; `fcntl_setlk`, `SetlkResume`, `fcntl_remove_locks` |
| `ByteLocks` | abstract specification of record locks | `held[owner][byte]` |
| `FileLocksProofs` | proofs about `FileLocks` | |
| `TimerList` | the two kinds of kernel timers | `list` with relative `expires`; `add_timer`, `del_timer`, `do_timer_lists` (what `do_timer` does to them), `do_bottom_half`, `timer_bh` in its stretches with interrupts off, `SetSlot`/`ClearSlot` for users of `timer_table` |
| `Alarms` | abstract specification of the timer list | one countdown per timer |
| `Scheduler` | `schedule` and what it depends on | `EnterSchedule`, `ClearResched`, `Walk`, `Pick` are the stretches of `schedule()` between which interrupts matter; `do_timer`, `wake_up`, `send_sig`, `setitimer`, `sys_nice`, `sys_idle`, `ret_from_sys_call`, `Sleep` |
| `SchedulerProofs` | proofs about `Scheduler` and `TimerList` | |
| `InodeCache` | `fs/inode.c` over the operations of `fs/minix` | `inode[s]` are the fields of an inode in memory, `proc[p]` the place and the local variables of a process; `Iget*`, `Empty*`, `Iput*` are the pieces of `__iget`, `get_empty_inode`, `iput`; `current` is the process that runs and has not reached a point where it may sleep |
| `InodeStore` | abstract specification of the inode cache | one content per inode number |
| `InodeCacheProofs` | proofs about `InodeCache` and that it implements `InodeStore` | |
| `BlockQueue` | `ll_rw_blk.c`, `blk.h`, `__wait_on_buffer` | `buf[b]` are the fields of a buffer head, `queue` the requests from `current_request` on; `make_request`, `make_request_loop`, `Unplug` are `ll_rw_block` between its sleeps, `Transfer` and `end_request` the interrupts; `proc` and `current` as in `InodeCache` |
| `BlockIO` | `BlockQueue` under any use | `Read` and `Write` hand buffers to `ll_rw_block`, `Change` and `Recycle` stand for the users of the buffers |
| `BufferCache` | `fs/buffer.c` on `BlockQueue` | `free_list`, `buffer_wait`; `GetHashTable`, `Getblk*` are the pieces of `getblk`, `Sync*` of `sync_buffers`, `Shrink*` and `TryToFree` of `shrink_buffers`; `pending` and `owed` are history |
| `BlockStore` | abstract specification of the buffer cache | one content per block |
| `BufferCacheProofs` | proofs about `BufferCache` and the queue below it | |
| `SysVSem` | the semaphores of `ipc/sem.c` | `semary`, `sem_seq`, `semval`, `undo` are the fields, `semun` the undo entries with the set whose list each is in; `semop` and `SemopResume` the call before and after a sleep, `semctl` and `Set` SETVAL and SETALL before and after the copy of the values, `freeary` and `FreearyLoop` IPC_RMID, `sem_exit` and `Exit*` the undo at exit; `base` and `astray` are history |
| `SysVSemProofs` | proofs about `SysVSem` | |
| `Process` | family, exit, wait and ptrace | `fam` holds the five pointers of every task; `do_exit` and `Zombie` are the two halves of `do_exit`, `Scan`, `Report`, `Reap` the pieces of `wait4`, the `PTRACE_*` actions the requests of `sys_ptrace` |
| `ProcessProofs` | proofs about `Process` | |
| `TcpStream` | data transfer of TCP | `snd` and `rcv` are the two sockets, `toR` and `toS` the network; `tcp_write`, `tcp_read`, `net_timer` and `AckTimer` act on a socket, `ArriveR` (`tcp_rcv`, `tcp_data`) and `ArriveS` (`tcp_ack`) take a packet in, `Lose` drops one; `rqueue` is the receive queue in its order: `Insert` is the walk from its tail, `Passed` the walk of the reader, `Discard` what a full buffer throws out |
| `TcpStreamProofs` | proofs about `TcpStream` | |
| `MC*` | instances for TLC | |

`BufferCache` and `BlockIO` both extend `BlockQueue`: the queue is checked alone,
with several buffers per call and under fairness, and again below the cache that
uses it.

Definitions whose names end in `_bug`, or that are introduced by "Mutant:", are
deliberate errors: put in the place of the definition they follow the name of,
each makes one property fail. They are part of no specification.

### Abstractions

* *Wait queues* are sets of sleeping processes; `wake_up` empties them. That is
  what the code does: it makes every process of the queue runnable, and each
  tests its condition again.
* *Signals* are one bit: something unblocked is pending. A process that has left
  its call has handled it.
* *Bytes* in `Pipe` carry their call and position, nothing else. `sent` and
  `got` are history variables, as are `left` in `Scheduler` and
  `added` in `TimerList`; no action's guard depends on them.
* *jiffies* appears as distance to a deadline, so its wrap-around after 497 days
  is outside the models.
* *The free list* of inodes is a set: `get_empty_inode` may take any clean unused
  inode where the code takes the first. Its branches for a locked or a dirty
  unused inode are not actions because they are dead code; `UnusedClean` is the
  invariant that says so.
* *Offsets* in `FileLocks` wrap at `OFFSET_MAX` as `off_t` does.
* *The disk* moves the first buffer of the queue and then ends it, as `read_intr`
  and `do_hd_request` do. A request's sector is the block of its first buffer.
  The plug's `cmd` is never initialised in the code, so it is either command.
* *`BufferCache` is explored with fewer interrupts*: where the running process's
  step commutes with an interrupt, the interrupt comes before the step or later
  (`Quiet`). Free pages come and go as they like, so `getblk` may grow the cache
  or not.
* *Undo values* of semaphores are a function with 0 for "no entry"; that an entry
  is in the list of a set is in `semun`. A set stays in the model after its
  removal, so that a process that comes back to it finds out (or not).
* *Three latches* record that the code has got into one of the races of section 5:
  `stale` of `InodeCache` (a lookup found an inode that `iput` was releasing, or
  came for a number that was free), `snatched` of `Process` (somebody attached to
  a task that a sleeping `fork` or `wait4` had in hand) and `astray` of `SysVSem`
  (an undo entry went into the list of a wrong set). No guard depends on them: the
  race is in the model, the properties are stated up to it, and what it leads to
  is a property of its own, which is violated (section 5).
* *Signals in `Process`* are the four that matter to the family: SIGKILL, SIGCHLD,
  SIGCONT, SIGSTOP, with default actions. init waits and does nothing else.
* *A segment* of TCP is one byte, known by its number, and the window counts
  segments. Sequence numbers do not wrap. The round-trip estimate and
  the lengths of timeouts are left out: a timer that is set may fire at any time,
  and "out for longer than rto" is a choice. A packet that comes while a call
  holds the socket (the backlog) is one that comes later. A duplicate on the
  network is one packet; the sender makes duplicates itself.

## 3. Runs

Several properties are conjunctions of named parts; each part has its own
comment in the module.

| Run | Instance | Properties | What it shows |
|---|---|---|---|
| `pipe` | 3 processes (writer, reader, both), ring of 2, counts 1 to 3, fair | `LockExclusion` `NoLostWakeup` `FifoOrder` `WriteContract` `HangupReleases` | the ring is used by one process at a time and delivers bytes in order, short writes in one piece; hanging up ends every blocked call |
| `fifo_open` | reader, writer, and one of any mode, fair | `FilesAccounted` `DataKept` `OpensEnd` | the opening protocol: counts, page, mutual waits |
| `locks` | 2 tasks, 3 bytes below `OFFSET_MAX`, table of 3 | `ListCanonical` `SleepersAnchored` `ImplementsByteLocks` | the list implements the byte-wise specification, also with the table full; sleepers follow the entries |
| `timers` | 3 timers, 1 slot, delays 0 to 2, fair | `ImplementsAlarms` `DueIsCalled` | relative times are right through every insertion, deletion and deferred call, and what is due is called |
| `sched_fair` | 2 tasks and the idle task, fair | `TasksRun` | the fairness other modules assume |
| `sched_alarm` | 2 tasks, one with interval timers up to 2 ticks | `AlarmExact` `AlarmPrompt` `AlarmNotLost` | interval timers are exact |
| `inodes` | 3 processes, 2 numbers in 2 buckets, table limit 2 with room for 3, up to the first stale lookup | `Accounting` `UniqueInCore` `HandleStays` `SleepersWoken` `ImplementsStore` | the cache does not show: one copy per number, exact references, nothing lost |
| `requests` | 2 processes, 3 buffers, 3 requests, runs of up to 2 buffers, reads and writes, fair | `LockHasOwner` `NoStarvation` | every lock has one owner, the elevator starves nobody |
| `buffers` | 2 processes, 2 blocks, 1 or 2 buffers, 2 requests, failing reads | `RefsExact` `FsyncDurable` `ImplementsStore` | the cache does not show: one buffer per block, exact references, fsync is durable |
| `sem` | 2 processes, 1 slot, 1 semaphore of value 0 or 1, 2 sets after each other, fair | `UndoBalance` `NoLostWakeup` `NoUseAfterFree` `RemovalEnds` | undo, wakeups and removal under sleepers |
| `proc` | init, 2 tasks of a user, 1 debugger, up to the first attach to a task in hand | `AuditPtree` `OrphansAdopted` `NoLostWakeup` `NoUseAfterFree` | the family stays a tree through every interleaving of fork, exit, wait and ptrace |
| `tcp` | 4 segments, window up to 3, congestion window 2, a buffer of 3 packets, 2 packets each way, fair | `NothingForgotten` `QueueReadable` `TimerSet` `WindowKept` `Delivered` | reliable delivery over loss, reordering and a full buffer, with windows that close |

### Bounds, and why they are enough

* *Pipe*: a ring of 2 with counts of 1, 2 and 3 has writes that fit in part and
  exactly, writes that go in several chunks, and the wrap-around; three processes
  are the least with two on the same end and one on the other. `MaxCalls` only makes the
  history finite. The proofs have no bounds.
* *Fifo*: with three openers each side can arrive first, leave early, and find a
  third party. Nothing is bounded but the processes.
* *FileLocks*: an owner's request meets at most two of its entries in an
  interesting way (left and right neighbour) plus one of another owner; a table of
  3 is full in reach, also between the two allocations of a split. `Inner`
  regions stop short of `OFFSET_MAX` (section 5).
* *Timers*: three entries have a head, a middle and an end. One slot is enough
  because slots do not influence each other and the scan can be past it or not.
  Delays of 0, 1, 2 are "at once", "next" and "later".
* *Scheduler*: two tasks and the idle task show preemption, starvation and a
  second `schedule()` in the same tick. `MaxDelay` bounds the ticks during one
  passage through `schedule()` and to the next one; the code does not bound it,
  but one tick already separates the three places where the time is kept.
  `Never` is above every value reached, as `~0` is.
* *Inodes*: three processes are needed for a holder, a last `iput` and a
  search; room for a third inode because the limit is tested before a sleep
  and can be passed. A page holds one inode instead of a dozen, so that growth,
  exhaustion and recycling all happen. Processes, inodes and contents are
  symmetric: no action or property names one of them. The run does not check
  for deadlock, because the code really may stop (section 5). The constraint
  `NotStale` stops where a lookup was stale: all properties are true from there
  on by their wording, so nothing that could violate one is cut off.
* *Requests*: three blocks in a row give requests that join in front, behind and
  not at all; of three requests two are for writes, and a read can find all
  taken, so that processes sleep for a request, for a locked buffer and with the
  disk plugged. With two requests the plug can be left on for ever (section 5,
  item 7).
* *Buffers*: fewer buffers than the processes want at once, so that buffers are
  recycled, written back for reuse and waited for; `MinBuffers` keeps the last
  one, where the kernel would have hundreds. Only reads fail: after a failed
  write the code clears `b_uptodate` and the change is lost. Processes,
  buffers and contents are symmetric.
* *Semaphores*: with one slot a removed set's slot is reused at once, which is
  the case identifiers have to tell apart. `MaxSeq` allows two sets, `MaxAdj`
  one outstanding operation per entry. The operations are take with undo, "wait
  for zero and increment" with undo, and a plain increment: both queues and an
  operation list of two are in use. Identifiers of sets that are gone, or not
  made yet, are used as well; the constraint `OneAstray` allows one undo entry at a
  time in the list of a wrong set. Two processes are a sleeper or an exit and
  somebody who changes or removes the set; for any number the three invariants
  are proved. `DecrementedOnce`: section 5.
* *Processes*: two tasks and a debugger are the least for a child whose parent
  and tracer differ and die in either order. Tasks of the user are symmetric.
  Any task can be attached to. The constraint `NotSnatched` stops where it was a
  task that a sleeping `fork` or `wait4` had in hand; the properties are true from
  there on by their wording. kill sends SIGSTOP and SIGCONT; tasks die
  by exit and by PTRACE_KILL.
* *TCP*: the receive queue gets segments at its front, in its middle and at its
  end; a buffer of three packets has segments thrown out again, and a full
  buffer and a closed window beside unread segments; the fourth segment needs
  the window to open again. Two packets each way can overtake one another.
  `MaxSeq` only ends the stream. Once the window has seemed to shrink, `Delivered`
  says nothing more, and the constraint `Followed` follows one packet at a time.

### Fairness

* `Pipe`, `Fifo`, `FileLocks`: weak fairness of what the kernel does for a
  runnable process (`Proceed`, `SetlkResume`). `sched_fair` shows it of
  `schedule()`. Nothing is assumed about processes in user mode: they may never
  call, close or signal.
* `TimerList`: the clock keeps interrupting, a marked bottom half is entered on
  the way out of an interrupt, and timer functions return. That the list's
  functions do not add timers without delay for ever is *not* assumed;
  `DueSlotIsCalled` has it as its premise.
* `Scheduler`: the clock interrupts, `schedule()` runs to its end, interrupts
  and system calls end in `ret_from_sys_call`, the idle task calls `sys_idle`. No
  task has to sleep or call anything.
* `BlockIO`: the disk goes on with its work, and a process in the kernel that can
  run does. Nobody has to make calls.
* `SysVSem`: weak fairness of what the kernel does for a process inside a call
  (`Proceed`); a sleeper that nobody wakes may sleep for ever.
* `TcpStream`: timers that are set fire, and the application reads when it can.
  The network may lose any packet, but not every copy of what is sent again and
  again: strong fairness of the arrival of acknowledgements, and of the segment
  or probe that the sender's timer repeats. The two are written with their
  enabling condition spelled out, which is the same formula and far faster to
  check. Nobody has to write.
* `InodeCache`, `BufferCache` and `Process` have no fairness; their properties are safety
  properties, the wakeups in the form "nobody sleeps without a process that will
  wake it" or "without a reason".

## 4. Proofs

All for every value of the constants that satisfies the named `ASSUME`s (the sizes
are positive naturals, the sets are what they are said to be).

* `PipeProofs`: `TypeCorrect`, `MutualExclusion`, `NoSleeperForgotten`,
  `BytesStayInOrder`, `WritesKeepContract`. The inductive invariant of the first
  three is `TypeOK /\ LockExclusion /\ EndCounts /\ Wanting /\ NoLostWakeup`.
  `NoLostWakeup` alone is not inductive: its reasons mention
  `PIPE_READERS` and `PIPE_WRITERS`, which `EndCounts` ties to the descriptors that
  are still open, and that a woken process has something to do when it enters the
  copy loop needs `Wanting` (a waiting call still wants bytes, and a waiting
  writer some room). `LockExclusion` is needed because every wakeup by
  the process that unlocks relies on there being only one. The sizes of the
  copies are bounded in lemmas of their own (`ReadChunkBounds`,
  `WriteChunkBounds`), which is what keeps `PIPE_LEN` inside the page.
  The order of the bytes adds `Flight` (which piece of the ring a copy that
  sleeps has in hand) and `Order` (what was sent is what was received, then the
  piece in flight, then the ring); the contract of `write` adds `Ledger`, which
  says which bytes of which call stand where in what was sent.
* `PipeProofs`, on `Fifo`: `PageStays`, `CountsStayExact`, `DataStays`. `PageInv` has the
  types, the mode that each place of `fifo_open` implies, and that an open file
  and waiting bytes have their page; `CountsExact` needs the hypothesis that
  memory does not run out (section 5, item 6).
* `SchedulerProofs`: `TypeCorrect`, `AlarmsExact`, `AlarmsNotEarly`,
  `AlarmsPrompt`, `AlarmsNotLost`. The inductive invariant is `TypeOK /\ AlarmExact
  /\ SliceBound`; `SliceBound` says how many ticks may have passed since the last
  walk, given what is left of the slice of the running task. It is needed because
  `itimer_next` can be forgotten: then only the end of the slice brings
  `schedule()` on. `ReloadsBound` replaces the reload loop by the least number
  of periods, whose existence comes from the well-ordering of the naturals.
* `SchedulerProofs`, on `TimerList`: `TimersImplementAlarms`, the refinement of `Alarms`,
  for every set of timers. The invariant (`ListInv`) asserts sums `S` of the
  relative times (`Counted`), the same timers in the list and in `added`, and
  that timers with equal sums stand in the list in the order in which they were
  added (`InTurn`): the abstract call takes the oldest ended timer, the code the
  head. The sums are carried from state to state, because a recursive definition
  cannot be unfolded for every length; `SumOfIs` and `CarryIs` then show, by an
  induction over places that rests on the least element of a set of naturals,
  that the sums of `del_timer` and the carry of `add_timer` are these. `PlaceFits`
  says where `add_timer` stops, `AddKeeps`, `DropKeeps` and `TickKeeps` what the
  three changes of the list do to all countdowns.
* `InodeCacheProofs`: `CacheInvariant`, `CountsStayRight`, `InCoreOnce`,
  `FoundStays`, `SleepersStayCovered`, `CacheImplementsStore`. The invariant says
  for each place where a process can sleep what it may rely on afterwards
  (`Standing`), which inodes are one process's alone (`Apart`), what an inode in
  memory is like (`Slot`), where a number that a name leads to is to be found
  (`Number`), and that `updating` counts the processes that look for room
  (`Updates`); the counts are sums over processes. For the refinement, each
  action leaves contents, names and holders alone, or is one step of
  `InodeStore`: the return of `__iget` is `Get`, the entry of `iput` is `Put`, and
  so on. Names may be removed while lookups sleep; the invariant is `stale \/ ...`, and the
  lemmas show that only the two steps that set `stale` can break the rest
  (section 5, item 5).
* `BufferCacheProofs`: `BufferInvariant`, `CountsStayExact`, `LocksStayOwned`,
  `BlocksStayUnique`, `LoopsStayOnList`, whichever commands may fail, and
  `CacheImplementsStore`. `Stage`
  says which local variables are in use at each place of a process, `InList` and
  `Found` what it may rely on of the buffers it points at, `Runs` that a place
  where a process cannot sleep is held by the running one; that is what makes it
  safe to use what was found before the sleep. The references of `RefsExact` keep
  a buffer from being recycled, `Blank` says what a buffer that is not in use is
  like, so that freeing and growing lose nothing, and `BlockOnce` needs all
  of these, because `getblk` looks again after each sleep. `Owned` is
  `LockHasOwner` without cardinalities: a buffer is at one spot of the queue or
  in the hands of one process in `make_request_loop`. The lemmas about the list
  and the queue (removing, moving, inserting at any place, joining at either end)
  come first. `CacheImplementsStore` rests on `Data` besides: a clean buffer that
  is not under way holds what the disk has (`Faithful`), what is in the queue to be
  written is up to date and what is to be read is not, a process in
  `make_request_loop` has something to do with its buffer (`Asks`), one in the file
  system has a buffer that is up to date, and a block that went over is the same
  on both sides or was changed again (`Carried`). Each step then leaves what every
  block shows as it is (`Unseen`), or is a `Read`, `Change` or `Release` of
  `BlockStore`. The hypothesis `"WRITE" \notin Failing` is that of the run: a write that
  fails loses the change (section 5, item 8); reads may fail.
* `SysVSemProofs`: `SemaphoreInvariant`, `UndoStaysBalanced`, `NoWakeupIsLost`,
  `NothingFreedIsUsed`. `Structure` holds the types and which identifiers are
  live, old or being made: a process that comes back from a sleep knows its
  set by an identifier that no other set gets. `Lists` says which undo entries are
  in which list: as long as none is astray, a process has an undo value that is
  not 0 only with an entry in the list of that set, or while it sleeps in the
  undo of it. That is what makes the clearing of SETVAL, which goes along the list
  of the set, reach every value it must. `Fresh` says that a set begins
  with zeros, `UndoBalance` is a sum over all processes, and `Sleepers` gives every
  sleeper its reason.
* `TcpStreamProofs`: `StreamInvariant`, `QueueStaysReadable`, `NothingIsForgotten`,
  `TimerStaysSet`, `WindowIsKept`. `SenderOK` relates `send_seq`, `write_seq`,
  `rcv_ack_seq` and `sent_seq` with the two queues (each is a run of numbers, and
  together they hold all that is not acknowledged) and says when the timer must
  be set to what; `ReceiverOK` does the same for `acked_seq`, the receive queue and
  the window: the queue is sorted, holds what is acknowledged and not read in one
  run, and never the next segment without an acknowledgement. The lemmas on
  `Insert`, `AckedTo` and `Discard` say what the walks of `tcp_data` do to such a queue.
  `Packets` and `Acks` say that what is on its way was written.
* `ProcessProofs`: `ProcessInvariant`, `FamilyIsATree`, `NobodyIsOrphaned`,
  `WaitersAreWoken`, `NothingInHandIsFreed`. `Tree` gives every task in a sibling
  list its place there, counted from the oldest; the places are bound by an
  existential quantifier, so the model has no variable for them. With them
  "the list ends", "no task is in two lists" and "`p_ysptr` undoes `p_osptr`" are
  facts about neighbours, and `REMOVE_LINKS` and `SET_LINKS` renumber one list.
  `Parents` says that both parents of a task have not died (`Able`) and that the
  original one is not past `forget_original_parent`; `Fostered` that a task is in a
  list other than its original parent's or init's only while it is traced or that
  parent is dying, which is why the two loops of `do_exit` reach every child.
  `Forking`, `Reaping` and `Reporting` say what a task that sleeps in `fork` or
  `wait4` has in hand, `Waiting` that a sleeper in `wait4` has nothing to report
  (a pending signal does not matter), `Control` and `InitOnlyWaits` where tasks
  can be. The loops over children (`InheritAll`, `Offspring`) are recursive
  functions; what they return comes from an induction over the number of rounds.
  `PTRACE_ATTACH` may take any task, a zombie too; the invariant is `snatched \/ ...`, and an
  attach to a zombie that nobody has in hand keeps it (section 5, item 10).

* `FileLocksProofs`: `SleepersStayAnchored`, `ListStaysCanonical`,
  `ListImplementsByteLocks`, `LocksExclude`. The inductive invariant `Queues` says
  that the wait queues of the entries partition the sleepers (`Sound`) and that
  nobody waits for an entry of its own (`Apart`). The work is in `lock_it`: the
  waiters of the group are at every round of its loop either still in a queue of
  the entries passed so far or woken (`LoopSound`), by induction over the rounds
  with one case per branch, and what comes after the loop moves no waiter but to
  the right part of a split entry. Nothing is assumed of the requests or of the
  size of the table, so the first theorem also covers the lists that item 2 of
  section 5 leaves out of order.

  The other three are under the hypothesis `RegionsInner`, which the run satisfies:
  every request ends before `OFFSET_MAX`. It is what item 2 of section 5 calls for.
  Their invariant is `Tidy`: besides `Queues`, the entries of an owner follow each
  other in order (`Neat`), there are at most `NR_FILE_LOCKS` of them and requests
  that sleep are inside too. After k rounds of the loop (`Shaped`) the group that was
  passed is m entries before the caller's range as they were, at most one entry
  that has become the caller's, and the entries from place h on as they were; the
  caller has swallowed those in between, and what it grew by was of its own type
  (`Fills`). `left` and `right` are the entries on the edges that stick out.
  `FinishSettles` shows that cutting, splitting and inserting then leave a group in
  order that covers the caller's range with its type and every other byte as
  before (`Settles`), or, when the table is full, the old group: the loop has changed
  nothing if an entry is still needed. With that each step is an `Unlock` or a
  `Lock` of `ByteLocks` or leaves `Held` as it is (`MovesImplement`).

Sums over finite sets (`UndoBalance`, the counts of the caches) and the few
inductions over numbers use the induction theorems of the library with the set
of numbers or sets that have the property in place of an operator.

Theorems and runs: `LockExclusion`, `NoLostWakeup`, `FifoOrder` and `WriteContract` of
`Pipe`, `FilesAccounted` and `DataKept` of `Fifo`, `SleepersAnchored`,
`ListCanonical` and `ImplementsByteLocks` of `FileLocks`, `AlarmExact`, `AlarmPrompt` and
`AlarmNotLost` of `Scheduler`, `Accounting`, `UniqueInCore`, `HandleStays`,
`SleepersWoken` and `ImplementsStore` of `InodeCache`, `RefsExact`,
`LockHasOwner` and `ImplementsStore` of `BufferCache`, `UndoBalance`, `NoLostWakeup` and `NoUseAfterFree` of
`SysVSem`, `AuditPtree`, `OrphansAdopted`, `NoLostWakeup` and `NoUseAfterFree` of
`Process`, `ImplementsAlarms` of `TimerList`, and `QueueReadable`, `NothingForgotten`, `TimerSet` and `WindowKept` of
`TcpStream` are also properties of runs: TLC shows them on an instance, the
proofs for all.

Only model-checked: everything under fairness (`HangupReleases`, `OpensEnd`,
`DueIsCalled`, `TasksRun`, `NoStarvation`, `RemovalEnds`, `Delivered`), which
is beyond the prover;
`LockHasOwner` under `BlockIO`, where calls have several buffers and a plug (the
theorem is about the same queue under `BufferCache`);
`FsyncDurable` of `BufferCache`, which depends on how many buffers there are: a pass
of `sync_buffers` makes `2 * nr_buffers` steps along the list while `shrink_buffers`
and `getblk` may move the very buffer at which it sleeps, so with many buffers
nothing in the code says that it has met each dirty one.

## 5. What the code does otherwise

Places where the code does not do what one would expect, or what its own comments
say. Each is kept out of the runs by a named constant, an assumption or the wording
of a property, and listed as a hazard in `PROJECT.json`; the remark in brackets
says how to see it with TLC.

1. *A blocking open of a FIFO can return unconnected* (`fs/fifo.c:42`). The
   writer that ended the reader's wait may have closed before the reader runs
   again. The comment at `fs/pipe.c:203` has this for `O_NONBLOCK` only. Such a
   reader waits for another writer instead of seeing end of file.
   (`tlc -config MCFifo_connect.cfg MCFifo`: `BlockingOpenConnects` is violated.)
2. *Locks to the end of the file are not merged* (`fs/locks.c:323`): `fl_end + 1`
   overflows for `OFFSET_MAX`, although "We merge adjacent locks whenever
   possible" (line 272). (`tlc -config
   MCFileLocks_eof.cfg MCFileLocks`: `ListCanonical` is violated in two requests.)
3. *A lock that is cut or split wakes nobody* (`fs/locks.c:414`), although
   somebody may wait for just that part. (`NoLostWakeup` of `FileLocks`.)
4. *`iput` frees an unlinked inode without a wakeup* (`fs/inode.c:394`): it wakes
   `inode_wait`, sleeps in `put_inode`, and `clear_inode` is silent. With the wait
   for `h->updating` (`fs/inode.c:577`) this can stop every process that looks up
   an inode of the bucket. `IputWakesSleepers` is therefore stated for the inodes
   that `iput` leaves in the cache, and the run does not check for deadlock.
5. *A lookup can find an inode that is being deleted* (`fs/minix/inode.c:24`), if
   it has read the name before the unlink. `clear_inode` wipes it out while the
   lookup waits for it, and `__iget` reports "inode changed from under us. Tell
   Linus" (`fs/inode.c:562`). (`tlc -config MCInodeCache_stale.cfg
   MCInodeCache`: `NotFromUnderUs` is violated.)
   The properties of the cache are stated up to the first such lookup.
6. *`fifo_open` returns `-ENOMEM` with its count taken* (`fs/fifo.c:108`).
   (`OutOfMemory = TRUE`: `CountsExact` is violated.)
7. *The plug can block itself* (`ll_rw_blk.c:284` and `:394`): a process that has
   plugged an idle disk sleeps for a locked buffer or a free request, which only
   the plugged disk could provide. Another process has to fill the queue behind
   the plug meanwhile. The comment at line 394 says that the plug only holds the
   disk "until we have shoved all of the blocks into the queue". (`tlc
   -config MCBlockIO_plug.cfg MCBlockIO`: `PlugComesOff` is violated.) With the 64 requests of the kernel
   this needs as many pending.
8. *References dropped without a wakeup* (`fs/buffer.c:93`, `:150`, `:660`):
   `__wait_on_buffer`, `sync_buffers` and `breada` only decrement `b_count`,
   `brelse` alone wakes `buffer_wait`. And a write that fails leaves a clean
   buffer that a later fsync does not report (`fs/buffer.c:138`).
9. *Two decrements of one semaphore in one call* are each tested against the old
   value (`ipc/sem.c:466`), so that the value can wrap below 0. The assumption
   `DecrementedOnce` excludes such calls. *An undo entry can be in the list of a
   wrong set* (`ipc/sem.c:440`): semop links it into the set that has the slot
   before it looks at the sequence number (line 445). `sem_exit` then frees an
   entry that is in the list of a living set (line 533) or reports "sem_exit undo
   list error" (line 541). (`tlc -config MCSysVSem_astray.cfg
   MCSysVSem`: `EntryFound` is violated.)
   *semctl may read a freed set* (`ipc/sem.c:308`): it sleeps in the copy of its
   values (lines 271, 286), is on no queue meanwhile, and `freeary` does not wait
   for it. What the freed memory holds is not modelled: `Set` takes effect only if
   its set is there. Further, `kmalloc` in `newary` may sleep while the code holds
   on to a key (`ipc/sem.c:107`); the model has no keys.
10. *A zombie can be attached to* (`kernel/ptrace.c:257`) while a `wait4` that has
    it in hand sleeps in `put_fs_long` (`kernel/exit.c:571`): it then changes its
    list, and both parents may free it; `release` would panic ("trying to release
    non-existent task", `kernel/exit.c:109`). (`tlc -config
    MCProcess_snatch.cfg MCProcess`: `ReleaseFinds` is violated.) In the same place a stop report is
    lost if the child stops again while the first one is written (`exit.c:557`).
    Also seen and not modelled: SIGCONT to a zombie zeroes its `exit_code`
    (`exit.c:69`), the loop of `do_exit` that gives children to init dereferences
    init's `p_cptr` even if it is NULL (`exit.c:466`), and a parent with
    SA_NOCLDSTOP that waits with WUNTRACED is not woken (`signal.c:367`).
11. *A TCP probe can stay without an answer* (`tcp.c:3903`). An old acknowledgement
    that overtakes a window update makes the window seem to shrink; a segment
    already sent goes back to the write queue with `sent_seq` unchanged. If its copy
    is lost, the probe's number lies inside the receiver's window and is
    accepted silently, although "This should cause the other end to send an ack"
    (line 3900): nothing ever moves again. (`Delivered` without `shrunk`: 15 states.)
    With data in both directions `cleanup_rbuf` can also turn the probe timer into
    TIME_WRITE (`tcp.c:1311`); the model has data in one direction only.

## 6. What is not modelled, and the plan

Not modelled for good: hardware protocols of drivers (more than half of the
source), layouts on disk, the FPU emulator, boot, formatting. Not modelled inside
the parts above: `select` on pipes, `F_GETLK` (it changes nothing), virtual and
profiling timers, accounting and load average in `do_timer`, mount points in
`__iget`, pages shared between buffers and processes, message queues and shared
memory, signal handlers and process groups, set-up and close of TCP connections.

Next, in this order:

1. `Semaphore` (`down`, `up`, `__down`): exclusion and no lost wakeup, proved.
2. Message queues (`ipc/msg.c`), on the pattern of `SysVSem`.
3. The connection states of `tcp.c` (open, close, both at once) around
   `TcpStream`, and Unix domain sockets on the pattern of `Fifo` and `Pipe`.
4. `select`, page counts in `mm/`, mount points.

Proofs to come: under which limit on the number of moves `FsyncDurable` of
`BufferCache` holds for any number of buffers (`Data`, and how far a pass of
`sync_buffers` has come round the list while others move it).
