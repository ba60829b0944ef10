------------------------------ MODULE FileLocks ------------------------------
(***************************************************************************)
(* POSIX record locks on one file: fs/locks.c.                             *)
(*                                                                         *)
(* The locks of all processes are one list, i_flock, kept in groups of one *)
(* owner and descriptor, each group sorted by address.  lock_it merges,    *)
(* splits and replaces the entries of the caller's group.  A process whose *)
(* F_SETLKW is refused sleeps on the fl_wait queue of the first entry in   *)
(* its way.  Entries come from a table of NR_FILE_LOCKS slots.             *)
(*                                                                         *)
(* Offsets are signed: off_t has OFFSET_MAX + 1 non-negative values and    *)
(* arithmetic on it wraps.                                                 *)
(***************************************************************************)
EXTENDS Integers, Sequences, FiniteSets, SequencesExt

CONSTANTS
    Tasks, Fds,      \* processes, and the descriptors each has of the file
    OFFSET_MAX,      \* 0x7fffffff in locks.c
    NR_FILE_LOCKS,   \* size of file_lock_table (64 in fs.h)
    Regions          \* the <<l_start, l_len>> that calls ask for

ASSUME OffsetAssumption == OFFSET_MAX \in Nat
ASSUME TableAssumption == NR_FILE_LOCKS \in Nat
ASSUME RegionsAssumption == Regions \subseteq (0 .. OFFSET_MAX) \X (0 .. OFFSET_MAX)

Bytes == 0 .. OFFSET_MAX
Owners == Tasks \X Fds        \* fl_owner, fl_fd

VARIABLES
    i_flock,   \* the list: entries [owner, type, start, end, wait]; wait is the
               \* set of tasks in the queue fl_wait
    req,       \* req[t]: the F_SETLKW that t is blocked in, or NoReq
    asleep,    \* tasks TASK_INTERRUPTIBLE
    sig        \* blocked tasks with a pending signal

vars == <<i_flock, req, asleep, sig>>

NoReq == [owner |-> <<"none", 0>>, type |-> "F_UNLCK", start |-> 0, end |-> 0, wait |-> {}]

-----------------------------------------------------------------------------
\* off_t arithmetic: a result above OFFSET_MAX wraps to a negative number.
off_t(x) == IF x > OFFSET_MAX THEN x - 2 * (OFFSET_MAX + 1) ELSE x

\* copy_flock for l_whence 0: a length of 0, or one that runs past the largest
\* offset, means up to OFFSET_MAX.
copy_flock(o, type, reg) ==
    LET last == off_t(reg[1] + reg[2] - 1)
    IN  [owner |-> o, type |-> type, start |-> reg[1], wait |-> {},
         end |-> IF reg[2] = 0 \/ last < 0 THEN OFFSET_MAX ELSE last]

overlap(a, b) == a.end >= b.start /\ b.end >= a.start

conflict(caller, fl) ==
    /\ caller.owner # fl.owner
    /\ overlap(caller, fl)
    /\ \/ caller.type = "F_RDLCK" /\ fl.type # "F_RDLCK"
       \/ caller.type = "F_WRLCK"

\* The place of the first entry that stops the caller, 0 if there is none.
FirstConflict(list, caller) == SelectInSeq(list, LAMBDA fl : conflict(caller, fl))

-----------------------------------------------------------------------------
(* lock_it.  One operator per branch of its while loop; the state of the     *)
(* loop is a record acc:                                                   *)
(*   out       the entries passed so far, as changed                       *)
(*   c         *caller: the new lock, which grows as it swallows others    *)
(*   at        the place in out that caller points to, 0 for the request   *)
(*   added     added                                                       *)
(*   left, right  the places in out of those entries, 0 for null           *)
(*   stop      Len(out) when the loop was left by a break, else -1         *)
(*   wake      the tasks woken                                             *)

Keep(acc, fl) == [acc EXCEPT !.out = Append(@, fl)]
Break(acc, fl) == [Keep(acc, fl) EXCEPT !.stop = Len(acc.out)]

\* free_lock wakes the waiters of the entry it frees.
free_lock_bug(acc, fl) == acc
free_lock(acc, fl) == [acc EXCEPT !.wake = @ \cup fl.wait]

\* Two locks of one type that overlap or touch become one.
Adjacent_bug(c, fl) == ~(fl.end < c.start) /\ ~(fl.start > c.end)
Adjacent(c, fl) == ~(fl.end < c.start - 1) /\ ~(fl.start > off_t(c.end + 1))

Merge(acc, fl) ==
    LET a == IF fl.start > acc.c.start THEN acc.c.start ELSE fl.start
        b == IF fl.end < acc.c.end THEN acc.c.end ELSE fl.end
        Sized(l) == [l EXCEPT !.start = a, !.end = b]
    IN  IF acc.added
        THEN free_lock([acc EXCEPT !.c = Sized(@), !.out[acc.at] = Sized(@)], fl)
        ELSE [Keep(acc, Sized(fl)) EXCEPT !.c = Sized(@), !.at = Len(acc.out) + 1,
                                          !.added = TRUE]

SameType(acc, fl) ==
    IF Adjacent(acc.c, fl) THEN Merge(acc, fl)
    ELSE IF fl.end < acc.c.start - 1 THEN Keep(acc, fl) ELSE Break(acc, fl)

\* The new lock covers the old one: the old entry is freed or reused; "wake up
\* anybody waiting for the old one" either way.
Replace(acc, fl) ==
    IF acc.added THEN free_lock(acc, fl)
    ELSE [Keep(acc, acc.c) EXCEPT !.wake = @ \cup fl.wait, !.at = Len(acc.out) + 1,
                                  !.added = TRUE]

OtherType(acc, fl) ==
    LET acc1 == [acc EXCEPT !.added = @ \/ acc.c.type = "F_UNLCK",
                            !.left = IF fl.start < acc.c.start THEN Len(acc.out) + 1 ELSE @]
    IN  IF fl.end < acc.c.start THEN Keep(acc, fl)
        ELSE IF fl.start > acc.c.end THEN Break(acc, fl)
        ELSE IF fl.end > acc.c.end THEN Break([acc1 EXCEPT !.right = Len(acc.out) + 1], fl)
        ELSE IF fl.start >= acc.c.start THEN Replace(acc1, fl)
        ELSE Keep(acc1, fl)

Step(acc, fl) ==
    IF acc.stop >= 0 THEN Keep(acc, fl)
    ELSE IF acc.c.type = fl.type THEN SameType(acc, fl) ELSE OtherType(acc, fl)

\* The whole loop over the caller's group.
Loop(group, caller) ==
    LET acc[k \in 0 .. Len(group)] ==
            IF k = 0
            THEN [out |-> <<>>, c |-> caller, at |-> 0, added |-> FALSE,
                  left |-> 0, right |-> 0, stop |-> -1, wake |-> {}]
            ELSE Step(acc[k - 1], group[k])
    IN  acc[Len(group)]

\* The caller's group: from its first entry on, as long as the owner is the same.
GroupStart(list, o) ==
    LET i == SelectInSeq(list, LAMBDA fl : fl.owner = o)
    IN  IF i = 0 THEN Len(list) + 1 ELSE i
GroupEnd(list, o) ==
    LET i == GroupStart(list, o)
        rest == {j \in i .. Len(list) : list[j].owner # o}
    IN  IF rest = {} THEN Len(list) ELSE Min(rest) - 1

\* After the loop: a new entry is inserted before place pos unless an old one
\* was used, an old entry that sticks out on both sides is split (its waiters
\* stay with the right part), and the entries that stick out are cut.  When the
\* table has too few free entries the list stays as the loop left it (-ENOLCK).
Split_bug(acc) == FALSE
Split(acc) == acc.right # 0 /\ acc.left = acc.right

\* How many entries alloc_lock can still hand out when n are in use.
FreeEntries(n) == NR_FILE_LOCKS - n

Finish(acc, free) ==
    LET out   == acc.out
        pos   == IF acc.stop >= 0 THEN acc.stop ELSE Len(out)
        new   == IF acc.added THEN <<>> ELSE <<acc.c>>
        part  == IF Split(acc)
                 THEN <<[out[acc.right] EXCEPT !.end = acc.c.start - 1, !.wait = {}]>>
                 ELSE <<>>
        cut   == [i \in DOMAIN out |->
                     IF i = acc.right THEN [out[i] EXCEPT !.start = acc.c.end + 1]
                     ELSE IF i = acc.left THEN [out[i] EXCEPT !.end = acc.c.start - 1]
                     ELSE out[i]]
    IN  IF \/ Len(new \o part) > free
           \/ ~acc.added /\ acc.c.type = "F_UNLCK"
        THEN out
        ELSE SubSeq(cut, 1, pos) \o part \o new \o SubSeq(cut, pos + 1, Len(cut))

lock_it(list, caller) ==
    LET i      == GroupStart(list, caller.owner)
        j      == GroupEnd(list, caller.owner)
        before == SubSeq(list, 1, i - 1)
        after  == SubSeq(list, j + 1, Len(list))
        acc    == Loop(SubSeq(list, i, j), caller)
        free   == FreeEntries(Len(before \o acc.out \o after))
    IN  [list |-> before \o Finish(acc, free) \o after, wake |-> acc.wake]

-----------------------------------------------------------------------------
Init ==
    /\ i_flock = <<>>
    /\ req = [t \in Tasks |-> NoReq]
    /\ asleep = {} /\ sig = {}

\* The call of task t is over.
Return(t) == req' = [req EXCEPT ![t] = NoReq] /\ sig' = sig \ {t}

\* From the label repeat: to the end of fcntl_setlk, or to its sleep on the
\* first entry in the way.
Scan(t, caller) ==
    LET i == FirstConflict(i_flock, caller) IN
    \/ /\ i = 0
       /\ LET r == lock_it(i_flock, caller) IN i_flock' = r.list /\ asleep' = asleep \ r.wake
       /\ Return(t)
    \/ /\ i # 0
       /\ i_flock' = [i_flock EXCEPT ![i].wait = @ \cup {t}]
       /\ req' = [req EXCEPT ![t] = caller]
       /\ asleep' = asleep \cup {t}
       /\ UNCHANGED sig

\* F_SETLK and F_SETLKW; only an F_SETLKW that is refused waits, an F_SETLK
\* returns -EAGAIN.
fcntl_setlk(t, fd, type, reg) ==
    LET caller == copy_flock(<<t, fd>>, type, reg) IN
    /\ req[t] = NoReq
    /\ \/ Scan(t, caller)
       \/ FirstConflict(i_flock, caller) # 0 /\ UNCHANGED vars

\* A blocked F_SETLKW runs again after interruptible_sleep_on.
SetlkResume(t) ==
    /\ req[t] # NoReq /\ t \notin asleep
    /\ IF t \in sig THEN Return(t) /\ UNCHANGED <<i_flock, asleep>>
                     ELSE Scan(t, req[t])

\* The tasks that freeing the entries i .. j wakes.
Waiters(i, j) == UNION {i_flock[k].wait : k \in i .. j}

\* close_fp calls this for a regular file: the group is freed entry by entry.
fcntl_remove_locks(t, fd) ==
    LET i == GroupStart(i_flock, <<t, fd>>)
        j == GroupEnd(i_flock, <<t, fd>>)
    IN  /\ req[t] = NoReq
        /\ i_flock' = SubSeq(i_flock, 1, i - 1) \o SubSeq(i_flock, j + 1, Len(i_flock))
        /\ asleep' = asleep \ Waiters(i, j)
        /\ UNCHANGED <<req, sig>>

\* A signal makes the sleeper runnable; it leaves the queue it was in.
send_sig(t) ==
    /\ req[t] # NoReq /\ t \notin sig
    /\ sig' = sig \cup {t}
    /\ asleep' = asleep \ {t}
    /\ i_flock' = [i \in DOMAIN i_flock |-> [i_flock[i] EXCEPT !.wait = @ \ {t}]]
    /\ UNCHANGED req

Next ==
    \E t \in Tasks :
        \/ \E fd \in Fds :
              \/ \E type \in {"F_RDLCK", "F_WRLCK", "F_UNLCK"}, reg \in Regions :
                     fcntl_setlk(t, fd, type, reg)
              \/ fcntl_remove_locks(t, fd)
        \/ SetlkResume(t)
        \/ send_sig(t)

Spec == Init /\ [][Next]_vars

-----------------------------------------------------------------------------
(* Properties                                                              *)

\* "We sort the lock list first by owner, then by the starting address" and "we
\* merge adjacent locks whenever possible": the entries of an owner follow each
\* other, do not overlap, and neighbours of one type do not touch.
ListCanonical ==
    \A i, j \in DOMAIN i_flock :
        LET a == i_flock[i]
            b == i_flock[j]
        IN  /\ a.start <= a.end
            /\ i < j /\ a.owner = b.owner =>
                  /\ \A k \in i .. j : i_flock[k].owner = a.owner
                  /\ a.end < b.start
                  /\ a.type = b.type => a.end + 1 < b.start

\* The lock each owner has on each byte.
Held ==
    [o \in Owners |-> [b \in Bytes |->
        LET at == {i \in DOMAIN i_flock : /\ i_flock[i].owner = o
                                          /\ i_flock[i].start <= b /\ b <= i_flock[i].end}
        IN  IF at = {} THEN "F_UNLCK" ELSE i_flock[CHOOSE i \in at : TRUE].type]]

Abs == INSTANCE ByteLocks WITH held <- Held

\* The list operations do to every byte what POSIX says: a granted request
\* changes the caller's bytes in the range and no other, a refused one
\* (-EAGAIN, -ENOLCK) changes none, and nobody gets a byte that is taken.
ImplementsByteLocks == Abs!Spec

\* A blocked task sleeps in the queue of one entry of the list, which belongs to
\* somebody else: removing an entry never leaves a sleeper behind.
SleepersAnchored ==
    \A t \in asleep : \E i \in DOMAIN i_flock :
        /\ t \in i_flock[i].wait /\ i_flock[i].owner # req[t].owner
        /\ \A j \in DOMAIN i_flock \ {i} : t \notin i_flock[j].wait

\* "If this is F_SETLKW wait for the lock to be released": a task that sleeps is
\* still kept out by some lock.  The code does not keep to this: README, "What
\* the code does otherwise".
NoLostWakeup == \A t \in asleep : FirstConflict(i_flock, req[t]) # 0

=============================================================================
