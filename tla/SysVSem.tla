------------------------------ MODULE SysVSem -------------------------------
(***************************************************************************)
(* System V semaphores (ipc/sem.c): semop with its sleeps and undo values, *)
(* SETVAL, SETALL and IPC_RMID of semctl, sem_exit, and the part of semget *)
(* that makes a set.  A set is known by its identifier seq * SEMMNI + slot *)
(* and stays in memory after its removal until freeary lets it go.  An     *)
(* undo entry is in two lists: that of its process and that of a set.      *)
(*                                                                         *)
(* A step is the code between two sleeps.  A process stays on the queue it *)
(* slept on until it runs again: asleep says who still has to be woken.    *)
(***************************************************************************)
EXTENDS Integers, Sequences, FiniteSets, FiniteSetsExt, Functions

CONSTANTS
    Procs,    \* processes
    SEMMNI,   \* slots for sets
    Sems,     \* semaphores of a set
    SEMVMX,   \* largest value
    Sops,     \* the lists of operations that processes ask for
    MaxSeq,   \* bound: sets are made until sem_seq is as large
    MaxAdj    \* bound: no semadj beyond this in either direction

\* One operation; IPC_NOWAIT is left out, its calls change nothing when they
\* would sleep.
Sop == [num : Sems, op : Int, undo : BOOLEAN]

ASSUME SEMMNIAssumption == SEMMNI \in Nat \ {0}
ASSUME SEMVMXAssumption == SEMVMX \in Nat \ {0}
ASSUME MaxSeqAssumption == MaxSeq \in Nat
ASSUME MaxAdjAssumption == MaxAdj \in Nat
ASSUME SopsAssumption == \A l \in Sops : l \in Seq(Sop) /\ l # <<>>
ASSUME ProcsAssumption == IsFiniteSet(Procs)

\* semop tests each operation against the values before the call, so that two
\* decrements of one semaphore pass together and take it below 0.
ASSUME DecrementedOnce ==
    \A l \in Sops : \A j, k \in DOMAIN l :
        j # k /\ l[j].num = l[k].num => l[j].op >= 0 \/ l[k].op >= 0

VARIABLES
    semary,   \* semary[i]: IPC_UNUSED, IPC_NOID while a set is made, or its identifier
    sem_seq,  \* removals so far
    semval,   \* semval[id][n]: value of a semaphore, also of a removed set
    freed,    \* the sets that freeary has given to kfree
    undo,     \* undo[p][id][n]: semadj in the undo list of p, 0 without an entry
    proc,     \* proc[p]: where p is, and what it waits for
    asleep,   \* processes in TASK_INTERRUPTIBLE on a queue of a set
    sig,      \* processes with a signal
    semun,    \* semun[p]: the undo entries of p that are in the list of a set
    base,     \* history: base[id][n]: the value if every undo were done
    astray    \* history: an undo entry was put into the list of a wrong set

vars == <<semary, sem_seq, semval, freed, undo, proc, asleep, sig, semun, base, astray>>

IPC_UNUSED == -1
IPC_NOID == -2

Slots == 0 .. SEMMNI - 1
Ids == 0 .. (MaxSeq + 1) * SEMMNI - 1
slot(id) == id % SEMMNI
\* The set was not removed: its sequence number is still that of the identifier.
Live(id) == semary[slot(id)] = id

User == [pc |-> "user"]
Waits(p, id) == proc[p].pc \in {"slept", "exiting"} /\ proc[p].id = id
eventn(id) == {p \in Procs : Waits(p, id) /\ proc[p].queue = "n"}
eventz(id) == {p \in Procs : Waits(p, id) /\ proc[p].queue = "z"}

Zero == [n \in Sems |-> 0]

\* An entry for semaphore num of the set semid, in the list of the set on.
Entry == [semid : Ids, num : Sems, on : Ids]

Init ==
    /\ semary = [i \in Slots |-> IPC_UNUSED]
    /\ sem_seq = 0
    /\ semval = [id \in Ids |-> Zero] /\ base = [id \in Ids |-> Zero]
    /\ freed = {}
    /\ undo = [p \in Procs |-> [id \in Ids |-> Zero]]
    /\ proc = [p \in Procs |-> User]
    /\ asleep = {} /\ sig = {}
    /\ semun = [p \in Procs |-> {}] /\ astray = FALSE

\* The call of p is over; on the way out it takes its signals.
Return(p) ==
    /\ proc' = [proc EXCEPT ![p] = User]
    /\ sig' = sig \ {p}

-----------------------------------------------------------------------------
(* semget *)

\* newary takes a slot, and may sleep in kmalloc.
newary(p) ==
    /\ proc[p].pc = "user" /\ sem_seq <= MaxSeq
    /\ \E i \in Slots :
        /\ semary[i] = IPC_UNUSED /\ \A j \in Slots : j < i => semary[j] # IPC_UNUSED
        /\ semary' = [semary EXCEPT ![i] = IPC_NOID]
        /\ proc' = [proc EXCEPT ![p] = [pc |-> "kmalloc", slot |-> i]]
    /\ UNCHANGED <<sem_seq, semval, freed, undo, asleep, sig, semun, base, astray>>

\* The identifier has the sequence number of now, not that before the sleep.
NewaryDone(p) ==
    /\ proc[p].pc = "kmalloc"
    /\ \/ /\ sem_seq <= MaxSeq
          /\ semary' = [semary EXCEPT ![proc[p].slot] = sem_seq * SEMMNI + proc[p].slot]
       \/ semary' = [semary EXCEPT ![proc[p].slot] = IPC_UNUSED]  \* no memory
    /\ Return(p)
    /\ UNCHANGED <<sem_seq, semval, freed, undo, asleep, semun, base, astray>>

-----------------------------------------------------------------------------
(* semop *)

\* Can operation s not be done yet?
BlockedZ(id, s) == s.op = 0 /\ semval[id][s.num] # 0
BlockedN(id, s) == semval[id][s.num] + s.op < 0
TooLarge(id, s) == semval[id][s.num] + s.op > SEMVMX

\* The operations that the first loop stops at.
Stops(id, sops) ==
    {k \in DOMAIN sops : \/ TooLarge(id, sops[k]) \/ BlockedZ(id, sops[k])
                         \/ BlockedN(id, sops[k])}

\* What the first k operations add to semaphore n; u: only those with SEM_UNDO.
Added(sops, n, k, u) ==
    SumFunctionOnSet([j \in DOMAIN sops |-> sops[j].op],
                     {j \in 1 .. k : sops[j].num = n /\ (u => sops[j].undo)})

\* The queues that wake_up is called for: when something was added, and when a
\* semaphore became, or stayed, 0 at one of the operations.
Woken(id, sops) ==
    (IF \E k \in DOMAIN sops : sops[k].op > 0 THEN eventn(id) ELSE {})
    \cup (IF \E k \in DOMAIN sops :
               semval[id][sops[k].num] + Added(sops, sops[k].num, k, FALSE) = 0
          THEN eventz(id) ELSE {})

\* The second loop.
Perform(p, id, sops) ==
    LET all == Len(sops) IN
    /\ semval' = [semval EXCEPT ![id] = [n \in Sems |-> @[n] + Added(sops, n, all, FALSE)]]
    /\ undo' = [undo EXCEPT ![p][id] = [n \in Sems |-> @[n] - Added(sops, n, all, TRUE)]]
    /\ base' = [base EXCEPT ![id] =
                   [n \in Sems |-> @[n] + Added(sops, n, all, FALSE) - Added(sops, n, all, TRUE)]]
    /\ asleep' = asleep \ Woken(id, sops)

\* Mutant: a process that comes back from its sleep does not notice.
Removed_unseen(id) == FALSE

\* The test at the label slept.
Removed(id) == ~Live(id)

\* From the label slept: -EIDRM, -ERANGE, -EINTR, a sleep, or everything done.
Slept(p, id, sops) ==
    \/ /\ Removed(id)
       /\ Return(p)
       /\ asleep' = asleep /\ UNCHANGED <<semval, undo, base>>
    \/ /\ ~Removed(id) /\ Stops(id, sops) = {}
       /\ \A n \in Sems : undo[p][id][n] - Added(sops, n, Len(sops), TRUE) \in -MaxAdj .. MaxAdj
       /\ Perform(p, id, sops)
       /\ Return(p)
    \/ /\ ~Removed(id) /\ Stops(id, sops) # {}
       /\ LET k == Min(Stops(id, sops)) IN
          IF TooLarge(id, sops[k]) \/ p \in sig
          THEN Return(p) /\ UNCHANGED asleep
          ELSE /\ proc' = [proc EXCEPT ![p] =
                     [pc |-> "slept", id |-> id, sops |-> sops, k |-> k,
                      queue |-> IF BlockedZ(id, sops[k]) THEN "z" ELSE "n"]]
               /\ asleep' = asleep \cup {p}
               /\ UNCHANGED sig
       /\ UNCHANGED <<semval, undo, base>>

\* The entries that a call makes: for each semaphore it has none for, in the
\* list of the set that is in the slot now, whatever identifier that has.
NewUndo(p, id, sops) ==
    {[semid |-> id, num |-> n, on |-> semary[slot(id)]] :
        n \in {sops[k].num : k \in {j \in DOMAIN sops : sops[j].undo}}
              \ {u.num : u \in {e \in semun[p] : e.semid = id}}}

\* The entries are made before the sequence number is looked at.  (There is
\* memory for them.)
semop(p, id, sops) ==
    /\ proc[p].pc = "user" /\ semary[slot(id)] \in Ids
    /\ semun' = [semun EXCEPT ![p] = @ \cup NewUndo(p, id, sops)]
    /\ astray' = (astray \/ (~Live(id) /\ NewUndo(p, id, sops) # {}))
    /\ Slept(p, id, sops)
    /\ UNCHANGED <<semary, sem_seq, freed>>

SemopResume(p) ==
    /\ proc[p].pc = "slept" /\ p \notin asleep
    /\ Slept(p, proc[p].id, proc[p].sops)
    /\ UNCHANGED <<semary, sem_seq, freed, semun, astray>>

-----------------------------------------------------------------------------
(* semctl *)

\* The entry of p for a semaphore is in the list of its set.  sem_exit takes
\* it off before it may sleep.
Listed(p, id, n) == [semid |-> id, num |-> n, on |-> id] \in semun[p]

\* Mutant: SETVAL forgets the undo values.
Cleared_none(id, S) == undo

Cleared(id, S) ==
    [p \in Procs |-> [undo[p] EXCEPT ![id] =
        [n \in Sems |-> IF n \in S /\ Listed(p, id, n) THEN 0 ELSE @[n]]]]
SumAdj(u, id, n) == SumFunctionOnSet([p \in Procs |-> u[p][id][n]], Procs)

\* p sleeps in the undo of a semaphore.
ExitsAt(p, id, n) == proc[p].pc = "exiting" /\ proc[p].id = id /\ proc[p].num = n

\* What exits that have begun, and are asleep, will still add to a semaphore.
ToCome(id, n) ==
    SumFunctionOnSet([p \in Procs |-> IF ExitsAt(p, id, n) THEN undo[p][id][n] ELSE 0], Procs)

\* SETVAL for one semaphore, SETALL for all of them (here with one value), up
\* to the copy from user space, which may sleep.
semctl(p, id, S) ==
    /\ proc[p].pc = "user" /\ Live(id)
    /\ proc' = [proc EXCEPT ![p] = [pc |-> "semctl", id |-> id, sems |-> S]]
    /\ UNCHANGED <<semary, sem_seq, semval, freed, undo, asleep, sig, semun, base, astray>>

\* The value, or values, are there.  Either -EIDRM or -ERANGE, or all is set.
\* (When the slot has a new set, the sequence number that tells is read from
\* the old one, which may be freed.)
Set(p) ==
    /\ proc[p].pc = "semctl"
    /\ \/ UNCHANGED <<semval, undo, base, asleep>>
       \/ LET id == proc[p].id
              S  == proc[p].sems IN
          /\ Live(id)
          /\ \E v \in 0 .. SEMVMX :
              /\ semval' = [semval EXCEPT ![id] = [n \in Sems |-> IF n \in S THEN v ELSE @[n]]]
              /\ base' = [base EXCEPT ![id] =
                             [n \in Sems |-> IF n \in S THEN v + ToCome(id, n) ELSE @[n]]]
          /\ undo' = Cleared(id, S)
          /\ asleep' = asleep \ (eventn(id) \cup eventz(id))
    /\ Return(p)
    /\ UNCHANGED <<semary, sem_seq, freed, semun, astray>>

\* freeary up to its loop: nobody finds the set any more.
freeary(p, id) ==
    /\ proc[p].pc = "user" /\ Live(id)
    /\ semary' = [semary EXCEPT ![slot(id)] = IPC_UNUSED]
    /\ sem_seq' = sem_seq + 1
    /\ undo' = Cleared(id, Sems)
    /\ proc' = [proc EXCEPT ![p] = [pc |-> "freeary", id |-> id]]
    /\ base' = [base EXCEPT ![id] = Zero]
    /\ UNCHANGED <<semval, freed, asleep, sig, semun, astray>>

\* Mutant: freeary looks after the processes that wait for an increase only.
Waiting_n(id) == eventn(id)

Waiting(id) == eventn(id) \cup eventz(id)

\* The loop: wake everybody and let them run, until both queues are empty.
FreearyLoop(p) ==
    /\ proc[p].pc = "freeary"
    /\ LET id == proc[p].id IN
        \/ /\ Waiting(id) # {}
           /\ asleep' = asleep \ Waiting(id)
           /\ UNCHANGED <<semval, freed, proc, sig>>
        \/ /\ Waiting(id) = {}
           /\ freed' = freed \cup {id}
           /\ semval' = [semval EXCEPT ![id] = Zero]
           /\ Return(p)
           /\ UNCHANGED asleep
    /\ UNCHANGED <<semary, sem_seq, undo, semun, base, astray>>

-----------------------------------------------------------------------------
(* sem_exit.  The process that is gone makes room for a new one.            *)

\* Mutant: the processes that wait for 0 are not told.
WokenByUndo_n(id, n, adj) == IF adj > 0 THEN eventn(id) ELSE {}

WokenByUndo(id, n, adj) ==
    (IF adj > 0 THEN eventn(id) ELSE {})
    \cup (IF semval[id][n] + adj = 0 THEN eventz(id) ELSE {})

\* An entry that is off the lists, from the test of the sequence number on:
\* the set is gone, or the value is adjusted, or a signal ends the wait and the
\* undo is given up, or p sleeps.
Undo(p, id, n) ==
    LET adj == undo[p][id][n]
        done == [undo EXCEPT ![p][id][n] = 0]
        exit == [proc EXCEPT ![p] = [pc |-> "exit"]] IN
    \/ /\ ~Live(id)
       /\ undo' = done /\ proc' = exit
       /\ UNCHANGED <<semval, asleep, base>>
    \/ /\ Live(id) /\ semval[id][n] + adj >= 0
       /\ semval' = [semval EXCEPT ![id][n] = @ + adj]
       /\ asleep' = asleep \ WokenByUndo(id, n, adj)
       /\ undo' = done /\ proc' = exit
       /\ UNCHANGED base
    \/ /\ Live(id) /\ semval[id][n] + adj < 0 /\ p \in sig
       /\ base' = [base EXCEPT ![id][n] = @ - adj]
       /\ undo' = done /\ proc' = exit
       /\ UNCHANGED <<semval, asleep>>
    \/ /\ Live(id) /\ semval[id][n] + adj < 0 /\ p \notin sig
       /\ proc' = [proc EXCEPT ![p] = [pc |-> "exiting", id |-> id, num |-> n, queue |-> "n"]]
       /\ asleep' = asleep \cup {p}
       /\ UNCHANGED <<semval, undo, base>>

sem_exit(p) ==
    /\ proc[p].pc = "user"
    /\ proc' = [proc EXCEPT ![p] = [pc |-> "exit"]]
    /\ UNCHANGED <<semary, sem_seq, semval, freed, undo, asleep, sig, semun, base, astray>>

\* sem_exit goes through the entries.  One with nothing to undo goes at once.
ToUndo(p) == {u \in semun[p] : u.on # u.semid \/ undo[p][u.semid][u.num] # 0}

\* The entry is found in the list of its set, and taken off.
ExitUndo(p) ==
    /\ proc[p].pc = "exit"
    /\ \E u \in ToUndo(p) :
        /\ u.on = u.semid
        /\ semun' = [semun EXCEPT ![p] = @ \ {u}]
        /\ Undo(p, u.semid, u.num)
    /\ UNCHANGED <<semary, sem_seq, freed, sig, astray>>

\* It is not: "sem_exit undo list error" and the end, if the set is there, else
\* it is freed, whatever list it is in.
ExitAstray(p) ==
    /\ proc[p].pc = "exit"
    /\ \E u \in ToUndo(p) :
        /\ u.on # u.semid
        /\ IF Live(u.semid)
           THEN /\ semun' = [semun EXCEPT ![p] = {}]
                /\ undo' = [undo EXCEPT ![p] = [id \in Ids |-> Zero]]
           ELSE /\ semun' = [semun EXCEPT ![p] = @ \ {u}]
                /\ UNCHANGED undo
    /\ UNCHANGED <<semary, sem_seq, semval, freed, proc, asleep, sig, base, astray>>

ExitResume(p) ==
    /\ proc[p].pc = "exiting" /\ p \notin asleep
    /\ Undo(p, proc[p].id, proc[p].num)
    /\ UNCHANGED <<semary, sem_seq, freed, sig, semun, astray>>

ExitDone(p) ==
    /\ proc[p].pc = "exit" /\ ToUndo(p) = {}
    /\ semun' = [semun EXCEPT ![p] = {}]
    /\ Return(p)
    /\ UNCHANGED <<semary, sem_seq, semval, freed, undo, asleep, base, astray>>

-----------------------------------------------------------------------------
send_sig(p) ==
    /\ proc[p].pc # "user" /\ p \notin sig
    /\ sig' = sig \cup {p}
    /\ asleep' = asleep \ {p}
    /\ UNCHANGED <<semary, sem_seq, semval, freed, undo, proc, semun, base, astray>>

\* What the kernel does for a process that is in a call.
Proceed(p) ==
    \/ NewaryDone(p) \/ SemopResume(p) \/ Set(p) \/ FreearyLoop(p)
    \/ ExitUndo(p) \/ ExitAstray(p) \/ ExitResume(p) \/ ExitDone(p)

Next ==
    \E p \in Procs :
        \/ newary(p) \/ sem_exit(p) \/ send_sig(p) \/ Proceed(p)
        \/ \E id \in Ids :
            \/ \E sops \in Sops : semop(p, id, sops)
            \/ \E S \in {{n} : n \in Sems} \cup {Sems} : semctl(p, id, S)
            \/ freeary(p, id)

Spec == Init /\ [][Next]_vars

\* schedule() runs a process that can run.
FairSpec == Spec /\ \A p \in Procs : WF_vars(Proceed(p))

-----------------------------------------------------------------------------
(* Properties.                                                             *)
(*                                                                         *)
(* semop called with SEM_UNDO and the identifier of a set that is gone, or *)
(* not there yet, leaves an undo entry in the list of the set that has the *)
(* slot now.  What becomes of that is EntryFound; UndoBalance is stated up *)
(* to there, the others do not depend on it.                               *)

\* The undo values account for every operation: as long as a set is there, a
\* semaphore and the undo values that refer to it add up to what SETVAL and
\* the operations without SEM_UNDO have made of it, through exits that sleep,
\* calls that are repeated, and removal.  A SETVAL cancels the undo values
\* except those of exits that have begun, and an undo that a signal ends is
\* given up.
UndoBalance ==
    astray \/ \A id \in Ids : Live(id) =>
        \A n \in Sems : semval[id][n] + SumAdj(undo, id, n) = base[id][n]

\* A process asleep on eventn or eventz still has the reason it went to sleep
\* for: semop, semctl and sem_exit wake the right queue.  When its set is
\* removed, freeary is still there to wake it.
NoLostWakeup ==
    \A p \in asleep :
        LET r == proc[p] IN
        IF ~Live(r.id) THEN \E q \in Procs : proc[q].pc = "freeary" /\ proc[q].id = r.id
        ELSE IF r.pc = "exiting" THEN semval[r.id][r.num] + undo[p][r.id][r.num] < 0
        ELSE IF r.queue = "z" THEN BlockedZ(r.id, r.sops[r.k])
        ELSE BlockedN(r.id, r.sops[r.k])

\* No process that slept on a queue of a set, in semop or in sem_exit, comes
\* back to find that kfree_s has got the set: freeary waits for all of them.
\* (It does not wait for a semctl that sleeps in the copy of its values, which
\* is on no queue.)
NoUseAfterFree == \A p \in Procs : \A id \in freed : ~Waits(p, id)

\* IPC_RMID returns, and with it every process that slept on the set.
RemovalEnds ==
    \A p \in Procs : proc[p].pc = "freeary" ~> proc[p].pc # "freeary"

\* What sem_exit takes for granted: an entry whose set is there is in the list
\* of that set ("sem_exit undo list error" otherwise), and the one it frees is
\* in no other.  The entry of a semop with a wrong identifier breaks both.
EntryFound ==
    \A p \in Procs : proc[p].pc = "exit" =>
        \A u \in semun[p] : Live(u.semid) \/ Live(u.on) => u.on = u.semid

=============================================================================
