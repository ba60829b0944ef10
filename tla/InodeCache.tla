----------------------------- MODULE InodeCache -----------------------------
(***************************************************************************)
(* The table of inodes in memory (fs/inode.c) with the processes that get, *)
(* change, write back and put them: __iget, get_empty_inode, clear_inode,  *)
(* write_inode, read_inode, iput, sync_inodes, invalidate_inodes, and, as  *)
(* the file system below, the operations of fs/minix.                      *)
(*                                                                         *)
(* The kernel is not preempted: a process runs until it sleeps or returns  *)
(* to user mode.  "current" is the process in the middle of such a run,    *)
(* None when anyone may be chosen.  A place where the code may sleep (a    *)
(* locked inode, a block read, a wait queue) sets it to None.              *)
(***************************************************************************)
EXTENDS Integers, FiniteSets, FiniteSetsExt

CONSTANTS
    Procs,         \* processes
    Slots,         \* room for inodes in memory
    NR_INODE,      \* the table grows while it is smaller than this
    Inos,          \* inode numbers of one device, positive
    NR_IHASH,      \* number of hash buckets
    Contents,      \* what an inode may say about its file
    None           \* no process, no inode, not read yet

ASSUME FiniteAssumption == IsFiniteSet(Procs) /\ IsFiniteSet(Slots)
ASSUME InosAssumption == Inos \subseteq Nat \ {0}
ASSUME NR_INODEAssumption == NR_INODE \in Nat \ {0}
ASSUME NR_IHASHAssumption == NR_IHASH \in Nat \ {0}
ASSUME NoneAssumption == None \notin Procs \cup Slots \cup Contents

VARIABLES
    table,           \* the inodes of the list first_inode; nr_inodes of them
    inode,           \* inode[s]: the fields of inode s in memory
    nr_free_inodes,
    updating,        \* updating[h]: processes that look for room for bucket h
    inode_wait,      \* processes asleep until an inode is released
    update_wait,     \* processes asleep until a bucket is not being updated
    disk,            \* disk[n]: the raw inode in its buffer
    imap,            \* imap[n]: the bit of n in the inode bitmap
    dir,             \* dir[n]: a directory entry names n
    proc,            \* proc[p]: where process p is, and its local variables
    current,
    stale            \* history: a lookup came too late, see IgetFound, IgetInsert

vars == <<table, inode, nr_free_inodes, updating, inode_wait, update_wait,
          disk, imap, dir, proc, current, stale>>

tables == <<table, inode, nr_free_inodes, updating, inode_wait, update_wait>>
fs == <<disk, imap, dir>>

hash(n) == n % NR_IHASH

\* An inode after memset(inode, 0, sizeof(*inode)).
Cleared == [ino |-> 0, count |-> 0, nlink |-> 0, dirt |-> FALSE,
            lock |-> FALSE, data |-> None]

Idle == [pc |-> "user", nr |-> 0, inode |-> None, empty |-> None,
         then |-> "none"]

Init ==
    /\ table = {}
    /\ inode = [s \in Slots |-> Cleared]
    /\ nr_free_inodes = 0
    /\ updating = [h \in 0 .. NR_IHASH - 1 |-> 0]
    /\ inode_wait = {} /\ update_wait = {}
    /\ disk \in [Inos -> [nlink : {1}, data : Contents]]
    /\ imap = [n \in Inos |-> TRUE]
    /\ dir = [n \in Inos |-> TRUE]
    /\ proc = [p \in Procs |-> Idle]
    /\ current = None
    /\ stale = FALSE

-----------------------------------------------------------------------------
Turn(p, l) ==
    /\ current \in {None, p}
    /\ proc[p].pc = l
    /\ p \notin inode_wait \cup update_wait

Continue(p, r) == proc' = [proc EXCEPT ![p] = r] /\ current' = p
MaySleep(p, r) == proc' = [proc EXCEPT ![p] = r] /\ current' = None

At(p, l) == [proc[p] EXCEPT !.pc = l]
AtWith(p, l, s) == [proc[p] EXCEPT !.pc = l, !.inode = s]

\* wait_on_inode ahead of label l: the process sleeps while s is locked, and
\* goes on at once if it is not.
WaitThen(p, r, s) ==
    IF inode[s].lock THEN MaySleep(p, r) ELSE Continue(p, r)

\* The test ahead of the search in get_empty_inode: few unused inodes left.
nr_inodes == Cardinality(table)
EnterEmpty(p, r) ==
    IF nr_inodes < NR_INODE /\ nr_free_inodes < nr_inodes \div 4
    THEN MaySleep(p, [r EXCEPT !.pc = "grow"])
    ELSE Continue(p, r)

Set(s, r) == inode' = [inode EXCEPT ![s] = r]

\* The part of iput that ends with an unused inode, for one without a file
\* system, which is never dirty: the unneeded inode of __iget and new_inode.
PutEmpty(s) == [inode EXCEPT ![s].count = @ - 1]

-----------------------------------------------------------------------------
(* __iget                                                                  *)

Found(n) == {s \in table : inode[s].ino = n}

\* minix_lookup takes the number from the directory; before iget searches for
\* it, brelse may sleep for the block of the directory.
lookup(p, n) ==
    /\ Turn(p, "user") /\ proc[p].inode = None
    /\ dir[n]
    /\ MaySleep(p, [proc[p] EXCEPT !.pc = "iget", !.nr = n])
    /\ UNCHANGED <<tables, fs>>

\* Some process is in minix_put_inode or clear_inode with s.
Releasing(s) == \E q \in Procs : proc[q].pc \in {"put_inode", "clear"} /\ proc[q].inode = s

\* A reference is taken before wait_on_inode may sleep, also to an inode that
\* is being released: a lookup that has read the name before the unlink.
IgetFound(p) ==
    /\ Turn(p, "iget")
    /\ \E s \in Found(proc[p].nr) :
        /\ Set(s, [inode[s] EXCEPT !.count = @ + 1])
        /\ nr_free_inodes' = nr_free_inodes - (IF inode[s].count = 0 THEN 1 ELSE 0)
        /\ WaitThen(p, AtWith(p, "iget_found", s), s)
        /\ stale' = (stale \/ Releasing(s))
    /\ UNCHANGED <<table, updating, inode_wait, update_wait, fs>>

\* Nothing in the bucket and no room yet: look for room, then search again.
IgetNoRoom(p) ==
    /\ Turn(p, "iget")
    /\ Found(proc[p].nr) = {} /\ proc[p].empty = None
    /\ updating' = [updating EXCEPT ![hash(proc[p].nr)] = @ + 1]
    /\ EnterEmpty(p, At(p, "empty"))
    /\ UNCHANGED <<table, inode, nr_free_inodes, inode_wait, update_wait, fs>>

\* Mutant: no second search after get_empty_inode.
IgetInsert_nosearch(p) ==
    /\ Turn(p, "iget")
    /\ proc[p].empty # None
    /\ LET s == proc[p].empty IN
        /\ Set(s, [inode[s] EXCEPT !.ino = proc[p].nr, !.lock = TRUE])
        /\ MaySleep(p, [proc[p] EXCEPT !.pc = "iget_read", !.inode = s,
                                        !.empty = None])
    /\ stale' = (stale \/ ~imap[proc[p].nr])
    /\ UNCHANGED <<table, nr_free_inodes, updating, inode_wait, update_wait, fs>>

\* Fill in the unused inode, insert it into the bucket and lock it for
\* read_inode, which sleeps for the block; a lookup that has read the name
\* before the unlink may do so for an inode that is free by now.
IgetInsert(p) ==
    /\ Turn(p, "iget")
    /\ Found(proc[p].nr) = {} /\ proc[p].empty # None
    /\ LET s == proc[p].empty IN
        /\ Set(s, [inode[s] EXCEPT !.ino = proc[p].nr, !.lock = TRUE])
        /\ MaySleep(p, [proc[p] EXCEPT !.pc = "iget_read", !.inode = s,
                                        !.empty = None])
    /\ stale' = (stale \/ ~imap[proc[p].nr])
    /\ UNCHANGED <<table, nr_free_inodes, updating, inode_wait, update_wait, fs>>

read_inode(p) ==
    /\ Turn(p, "iget_read")
    /\ LET s == proc[p].inode
           raw == disk[inode[s].ino] IN
        Set(s, [inode[s] EXCEPT !.data = raw.data, !.nlink = raw.nlink,
                                !.lock = FALSE])
    /\ Continue(p, At(p, "iget_return"))
    /\ UNCHANGED <<table, nr_free_inodes, updating, inode_wait, update_wait, fs>>

\* After wait_on_inode: still the inode that was looked for?  If not, put it
\* and start again.
IgetChanged(p) ==
    /\ Continue(p, At(p, "iput"))
    /\ UNCHANGED tables

\* Mutant: the unneeded inode is not put.
IgetSame_leak(p) ==
    /\ Continue(p, [At(p, "iget_return") EXCEPT !.empty = None])
    /\ UNCHANGED tables

IgetSame(p) ==
    /\ LET e == proc[p].empty IN
        IF e = None
        THEN UNCHANGED <<inode, nr_free_inodes, inode_wait>>
        ELSE /\ inode' = PutEmpty(e)
             /\ nr_free_inodes' = nr_free_inodes + 1
             /\ inode_wait' = {}
    /\ Continue(p, [At(p, "iget_return") EXCEPT !.empty = None])
    /\ UNCHANGED <<table, updating, update_wait>>

\* Mutant: no wait_on_inode for an inode that is being read.
IgetRecheck_nowait(p) ==
    /\ Turn(p, "iget_found")
    /\ IgetSame(p)
    /\ UNCHANGED fs

IgetRecheck(p) ==
    /\ Turn(p, "iget_found")
    /\ ~inode[proc[p].inode].lock
    /\ IF inode[proc[p].inode].ino = proc[p].nr THEN IgetSame(p) ELSE IgetChanged(p)
    /\ UNCHANGED fs

\* while (h->updating) sleep_on(&update_wait)
IgetReturn(p) ==
    /\ Turn(p, "iget_return")
    /\ IF updating[hash(proc[p].nr)] > 0
       THEN /\ update_wait' = update_wait \cup {p}
            /\ MaySleep(p, proc[p])
       ELSE /\ UNCHANGED update_wait
            /\ MaySleep(p, At(p, "user"))
    /\ UNCHANGED <<table, inode, nr_free_inodes, updating, inode_wait, fs>>

-----------------------------------------------------------------------------
(* get_empty_inode, for __iget (nr # 0) and minix_new_inode (nr = 0)       *)

Unused == {s \in table : inode[s].count = 0}
Clean(s) == ~inode[s].dirt /\ ~inode[s].lock

\* clear_inode, then i_count = i_nlink = 1.
Taken(s) == [inode EXCEPT ![s] = [Cleared EXCEPT !.count = 1, !.nlink = 1]]

\* if (!--h->updating) wake_up(&update_wait), back in __iget
DoneUpdating(p) ==
    LET h == hash(proc[p].nr) IN
    /\ updating' = [updating EXCEPT ![h] = @ - 1]
    /\ update_wait' = IF updating[h] = 1 THEN {} ELSE update_wait

\* The first unused inode of the list that is neither dirty nor locked; the
\* model lets it be any of them.  The branches that wait for a locked one or
\* write a dirty one are dead: UnusedClean says that there is none.
EmptyTake(p) ==
    /\ Turn(p, "empty")
    /\ \E s \in Unused :
        /\ Clean(s)
        /\ inode' = Taken(s)
        /\ nr_free_inodes' = Max({nr_free_inodes - 1, 0})
        /\ IF proc[p].nr = 0
           THEN /\ UNCHANGED <<updating, update_wait>>
                /\ Continue(p, [proc[p] EXCEPT !.pc = "new_inode", !.empty = s])
           ELSE /\ DoneUpdating(p)
                /\ Continue(p, [proc[p] EXCEPT !.pc = "iget", !.empty = s])
    /\ UNCHANGED <<table, inode_wait, fs>>

\* No unused inode, and the table may still grow.
EmptyGrow(p) ==
    /\ Turn(p, "empty")
    /\ Unused = {} /\ nr_inodes < NR_INODE
    /\ MaySleep(p, At(p, "grow"))
    /\ UNCHANGED <<tables, fs>>

\* grow_inodes after get_free_page, which may sleep: nr_inodes is not tested
\* again.  A page holds one inode here; without memory nothing is added.
grow_inodes(p) ==
    /\ Turn(p, "grow")
    /\ IF table = Slots
       THEN UNCHANGED <<table, nr_free_inodes>>
       ELSE /\ \E s \in Slots \ table : table' = table \cup {s}
            /\ nr_free_inodes' = nr_free_inodes + 1
    /\ Continue(p, At(p, "empty"))
    /\ UNCHANGED <<inode, updating, inode_wait, update_wait, fs>>

\* "VFS: No free inodes": sleep_on(&inode_wait), and start again.
EmptyNone(p) ==
    /\ Turn(p, "empty")
    /\ Unused = {} /\ nr_inodes >= NR_INODE
    /\ inode_wait' = inode_wait \cup {p}
    /\ MaySleep(p, proc[p])
    /\ UNCHANGED <<table, inode, nr_free_inodes, updating, update_wait, fs>>

-----------------------------------------------------------------------------
(* write_inode; proc[p].then is the caller                                 *)

\* wait_on_inode, then lock; the block is read before the fields are copied.
write_inode(p) ==
    /\ Turn(p, "write")
    /\ LET s == proc[p].inode IN
        /\ ~inode[s].lock
        /\ IF inode[s].dirt
           THEN /\ Set(s, [inode[s] EXCEPT !.lock = TRUE])
                /\ MaySleep(p, At(p, "writing"))
           ELSE /\ UNCHANGED inode
                /\ Continue(p, At(p, "written"))
    /\ UNCHANGED <<table, nr_free_inodes, updating, inode_wait, update_wait, fs>>

\* minix_update_inode after its bread; brelse may sleep.
update_inode(p) ==
    /\ Turn(p, "writing")
    /\ LET s == proc[p].inode IN
        /\ disk' = [disk EXCEPT ![inode[s].ino] =
                        [nlink |-> inode[s].nlink, data |-> inode[s].data]]
        /\ Set(s, [inode[s] EXCEPT !.dirt = FALSE])
    /\ MaySleep(p, At(p, "unlock"))
    /\ UNCHANGED <<table, nr_free_inodes, updating, inode_wait, update_wait, imap, dir>>

\* Mutant: the dirty mark is taken off after brelse has slept.
unlock_inode_clean(p) ==
    /\ Turn(p, "unlock")
    /\ Set(proc[p].inode, [inode[proc[p].inode] EXCEPT !.lock = FALSE, !.dirt = FALSE])
    /\ Continue(p, At(p, "written"))
    /\ UNCHANGED <<table, nr_free_inodes, updating, inode_wait, update_wait, fs>>

unlock_inode(p) ==
    /\ Turn(p, "unlock")
    /\ Set(proc[p].inode, [inode[proc[p].inode] EXCEPT !.lock = FALSE])
    /\ Continue(p, At(p, "written"))
    /\ UNCHANGED <<table, nr_free_inodes, updating, inode_wait, update_wait, fs>>

WriteReturn(p) ==
    /\ Turn(p, "written")
    /\ CASE proc[p].then = "iput" ->
              WaitThen(p, [At(p, "iput_repeat") EXCEPT !.then = "none"], proc[p].inode)
         [] proc[p].then = "sync" ->
              MaySleep(p, Idle)
    /\ UNCHANGED <<tables, fs>>

\* One turn of the loop of sync_inodes, for any inode of the list.
sync_inodes(p, s) ==
    /\ Turn(p, "user") /\ proc[p].inode = None
    /\ inode[s].dirt \/ inode[s].lock
    /\ WaitThen(p, [AtWith(p, "write", s) EXCEPT !.then = "sync"], s)
    /\ UNCHANGED <<tables, fs>>

-----------------------------------------------------------------------------
(* iput                                                                    *)

\* The process gives its reference up; nr = 0 says that iput was not called
\* from __iget.
iput(p) ==
    /\ Turn(p, "user") /\ proc[p].inode # None
    /\ dir[proc[p].nr] \/ inode[proc[p].inode].nlink = 0
    /\ WaitThen(p, [proc[p] EXCEPT !.pc = "iput", !.nr = 0], proc[p].inode)
    /\ UNCHANGED <<tables, fs>>

IputReturn(p) ==
    IF proc[p].nr = 0 THEN MaySleep(p, Idle)
                      ELSE Continue(p, AtWith(p, "iget", None))

\* After the first wait_on_inode; an inode without references is left alone.
IputEnter(p) ==
    /\ Turn(p, "iput")
    /\ ~inode[proc[p].inode].lock
    /\ IF inode[proc[p].inode].count = 0 THEN IputReturn(p)
                                         ELSE Continue(p, At(p, "iput_repeat"))
    /\ UNCHANGED <<tables, fs>>

\* From the label repeat.  The last reference wakes the processes in need of
\* an inode, then lets the file system release an inode without a name,
\* writes a dirty one, or leaves it unused.
IputShared(p, s) ==
    /\ inode[s].count > 1
    /\ Set(s, [inode[s] EXCEPT !.count = @ - 1])
    /\ IputReturn(p)
    /\ UNCHANGED <<nr_free_inodes, inode_wait>>

\* Mutant: the processes in need of an inode are woken only ahead of a sleep.
IputLast_nowake(p, s) ==
    /\ inode[s].count <= 1
    /\ inode_wait' = IF inode[s].nlink = 0 \/ inode[s].dirt THEN {} ELSE inode_wait
    /\ CASE inode[s].nlink = 0 ->
              MaySleep(p, At(p, "put_inode")) /\ UNCHANGED <<inode, nr_free_inodes>>
         [] inode[s].nlink # 0 /\ inode[s].dirt ->
              /\ WaitThen(p, [At(p, "write") EXCEPT !.then = "iput"], s)
              /\ UNCHANGED <<inode, nr_free_inodes>>
         [] OTHER ->
              /\ Set(s, [inode[s] EXCEPT !.count = @ - 1])
              /\ nr_free_inodes' = nr_free_inodes + 1
              /\ IputReturn(p)

IputLast(p, s) ==
    /\ inode[s].count <= 1
    /\ inode_wait' = {}
    /\ CASE inode[s].nlink = 0 ->
              MaySleep(p, At(p, "put_inode")) /\ UNCHANGED <<inode, nr_free_inodes>>
         [] inode[s].nlink # 0 /\ inode[s].dirt ->
              /\ WaitThen(p, [At(p, "write") EXCEPT !.then = "iput"], s)
              /\ UNCHANGED <<inode, nr_free_inodes>>
         [] OTHER ->
              /\ Set(s, [inode[s] EXCEPT !.count = @ - 1])
              /\ nr_free_inodes' = nr_free_inodes + 1
              /\ IputReturn(p)

IputRepeat(p) ==
    /\ Turn(p, "iput_repeat")
    /\ LET s == proc[p].inode IN
        /\ ~inode[s].lock
        /\ IputShared(p, s) \/ IputLast(p, s)
    /\ UNCHANGED <<table, updating, update_wait, fs>>

\* minix_put_inode after the truncation, which may sleep: minix_free_inode
\* refuses an inode that has other references, and iput returns without
\* giving its own up.
put_inode(p) ==
    /\ Turn(p, "put_inode")
    /\ LET s == proc[p].inode IN
        /\ Set(s, [inode[s] EXCEPT !.dirt = TRUE])
        /\ IF inode[s].count # 1 THEN IputReturn(p)
                                 ELSE WaitThen(p, At(p, "clear"), s)
    /\ UNCHANGED <<table, nr_free_inodes, updating, inode_wait, update_wait, fs>>

\* clear_inode after its wait_on_inode, and the bit in the bitmap.
clear_inode(p) ==
    /\ Turn(p, "clear")
    /\ LET s == proc[p].inode IN
        /\ ~inode[s].lock
        /\ Set(s, Cleared)
        /\ nr_free_inodes' = nr_free_inodes + (IF inode[s].count > 0 THEN 1 ELSE 0)
        /\ imap' = [imap EXCEPT ![inode[s].ino] = FALSE]
    /\ IputReturn(p)
    /\ UNCHANGED <<table, updating, inode_wait, update_wait, disk, dir>>

-----------------------------------------------------------------------------
(* What processes do with inodes                                           *)

\* A system call that changes the inode it holds (notify_change and others).
Change(p, c) ==
    /\ Turn(p, "user") /\ proc[p].inode # None
    /\ LET s == proc[p].inode IN
        /\ c # inode[s].data
        /\ Set(s, [inode[s] EXCEPT !.data = c, !.dirt = TRUE])
    /\ MaySleep(p, proc[p])
    /\ UNCHANGED <<table, nr_free_inodes, updating, inode_wait, update_wait, fs>>

\* The entry of the new inode is written into its directory.
add_entry(p) ==
    /\ Turn(p, "user") /\ proc[p].inode # None
    /\ ~dir[proc[p].nr] /\ inode[proc[p].inode].nlink = 1
    /\ dir' = [dir EXCEPT ![proc[p].nr] = TRUE]
    /\ MaySleep(p, proc[p])
    /\ UNCHANGED <<tables, disk, imap>>

\* minix_unlink at its end, or a create that could not enter the name.
unlink(p) ==
    /\ Turn(p, "user") /\ proc[p].inode # None
    /\ LET s == proc[p].inode IN
        /\ inode[s].nlink = 1
        /\ Set(s, [inode[s] EXCEPT !.nlink = 0, !.dirt = TRUE])
    /\ dir' = [dir EXCEPT ![proc[p].nr] = FALSE]
    /\ MaySleep(p, proc[p])
    /\ UNCHANGED <<table, nr_free_inodes, updating, inode_wait, update_wait, disk, imap>>

\* minix_new_inode: get_empty_inode, then a free number, or give up.
new_inode(p) ==
    /\ Turn(p, "user") /\ proc[p].inode = None
    /\ EnterEmpty(p, At(p, "empty"))
    /\ UNCHANGED <<tables, fs>>

NewNumber(p) ==
    /\ Turn(p, "new_inode")
    /\ \E n \in Inos, c \in Contents :
        /\ ~imap[n] /\ \A m \in Inos : m < n => imap[m]
        /\ imap' = [imap EXCEPT ![n] = TRUE]
        /\ Set(proc[p].empty, [Cleared EXCEPT !.ino = n, !.count = 1, !.nlink = 1,
                                              !.dirt = TRUE, !.data = c])
        /\ MaySleep(p, [Idle EXCEPT !.nr = n, !.inode = proc[p].empty])
    /\ UNCHANGED <<table, nr_free_inodes, updating, inode_wait, update_wait, disk, dir>>

NewNone(p) ==
    /\ Turn(p, "new_inode")
    /\ \A n \in Inos : imap[n]
    /\ inode' = PutEmpty(proc[p].empty)
    /\ nr_free_inodes' = nr_free_inodes + 1
    /\ inode_wait' = {}
    /\ MaySleep(p, Idle)
    /\ UNCHANGED <<table, updating, update_wait, fs>>

\* invalidate_inodes and fs_may_mount: drop what nobody uses.
invalidate_inodes(p) ==
    /\ Turn(p, "user")
    /\ inode' = [s \in Slots |-> IF inode[s].count = 0 /\ Clean(s)
                                 THEN Cleared ELSE inode[s]]
    /\ MaySleep(p, proc[p])
    /\ UNCHANGED <<table, nr_free_inodes, updating, inode_wait, update_wait, fs>>

-----------------------------------------------------------------------------
Late(p) == IgetFound(p) \/ IgetInsert(p)

Step(p) ==
    \/ IgetNoRoom(p) \/ read_inode(p) \/ IgetRecheck(p) \/ IgetReturn(p)
    \/ EmptyTake(p) \/ EmptyGrow(p) \/ grow_inodes(p) \/ EmptyNone(p)
    \/ write_inode(p) \/ update_inode(p) \/ unlock_inode(p) \/ WriteReturn(p)
    \/ IputEnter(p) \/ IputRepeat(p) \/ put_inode(p) \/ clear_inode(p)
    \/ NewNumber(p) \/ NewNone(p)

Call(p) ==
    \/ \E n \in Inos : lookup(p, n)
    \/ iput(p) \/ new_inode(p) \/ add_entry(p) \/ unlink(p)
    \/ \E c \in Contents : Change(p, c)
    \/ \E s \in Slots : sync_inodes(p, s)
    \/ invalidate_inodes(p)

Next == \E p \in Procs :
    \/ Late(p)
    \/ Step(p) /\ UNCHANGED stale
    \/ Call(p) /\ UNCHANGED stale

Spec == Init /\ [][Next]_vars

-----------------------------------------------------------------------------
\* A process owns the reference of proc[p].inode unless it only looks at an
\* inode that it does not hold (sync_inodes).
Owns(p, s) ==
    /\ proc[p].inode = s
    /\ proc[p].then # "sync"

\* i_count is the number of references that processes hold or are about to
\* give back, whatever they sleep for: no reference is lost, and none is
\* dropped twice (fs/inode.c:363-406, 460, 559).
CountsExact ==
    \A s \in Slots :
        inode[s].count = Cardinality({p \in Procs : Owns(p, s)})
                         + Cardinality({p \in Procs : proc[p].empty = s})

\* nr_free_inodes, which decides when the table grows, counts the inodes with
\* no references (fs/inode.c:195, 404, 463, 558).
FreeCount == nr_free_inodes = Cardinality(Unused)

\* An inode without references has nothing left to write and is not locked:
\* iput writes until nobody has changed it meanwhile, and get_empty_inode may
\* recycle it at once (fs/inode.c:398-404, 447-457).
UnusedClean == \A s \in Unused : Clean(s)

\* What iput and clear_inode account for: all three, until a lookup is stale.
Accounting == stale \/ (CountsExact /\ FreeCount /\ UnusedClean)

OneCopy ==
    \A s, t \in Slots : inode[s].ino = inode[t].ino /\ inode[s].ino # 0 => s = t

\* An inode number has at most one inode in memory, although __iget sleeps
\* between its search and the insertion (fs/inode.c:526-547).
UniqueInCore == stale \/ OneCopy

Unchanged(p) == proc[p].pc = "iget_found" => inode[proc[p].inode].ino = proc[p].nr

\* From the moment a process has found an inode it stays the one it asked
\* for, also while the process waits for its lock, and until it is put it is
\* not recycled; what __iget returns has been read (fs/inode.c:455-457,
\* 559-562, 577).  Names may be removed at any time while __iget sleeps: only
\* a lookup that searches after the last iput of the file has begun to
\* release it can make __iget report "inode changed from under us".
HandleStays ==
    stale \/ \A p \in Procs :
        /\ Unchanged(p)
        /\ proc[p].pc = "user" /\ proc[p].inode # None =>
             /\ inode[proc[p].inode].ino = proc[p].nr
             /\ inode[proc[p].inode].data # None

\* What the message "inode changed from under us. Tell Linus" takes for
\* impossible: the inode that __iget has found and waited for is another one
\* (fs/inode.c:561-562).
NotFromUnderUs ==
    \A p \in Procs : proc[p].pc = "iget_found" /\ ~inode[proc[p].inode].lock => Unchanged(p)

\* A process sleeps in __iget only while a bucket update that will wake it is
\* under way (fs/inode.c:534-535, 577-578).
UpdatersWake ==
    \A p \in update_wait : \E q \in Procs :
        /\ proc[q].pc \in {"empty", "grow"} /\ proc[q].nr # 0
        /\ hash(proc[q].nr) = hash(proc[p].nr)

\* "iput wakes the processes that need an inode" (the comment of
\* get_empty_inode): nobody sleeps on inode_wait while an inode that iput has
\* left in the cache is free, although iput wakes them before it sleeps to
\* write the inode (fs/inode.c:387, 398-404, 441-444).  An inode that put_inode
\* has cleared is the exception: its i_count drops without another wakeup.
IputWakesSleepers == inode_wait # {} => \A s \in Unused : inode[s].ino = 0

\* Nobody sleeps on one of the two queues for nothing: both of these.
SleepersWoken == stale \/ (UpdatersWake /\ IputWakesSleepers)

\* The content of inode n: that of its copy in memory once it has been read,
\* or else that of the disk.
Latest(n, mem, raw) ==
    LET copies == {s \in Slots : mem[s].ino = n /\ mem[s].data # None} IN
    IF copies = {} THEN raw[n].data ELSE mem[CHOOSE s \in copies : TRUE].data

Holding(r) == IF r.pc = "user" /\ r.inode # None THEN r.nr ELSE 0

content == [n \in Inos |-> Latest(n, inode, disk)]
held == [p \in Procs |-> Holding(proc[p])]

Store == INSTANCE InodeStore WITH content <- content, named <- dir, held <- held

\* Whoever holds an inode sees the latest content: no change is lost when an
\* inode is written back, recycled and read again (fs/inode.c:262-285, 398-402).
\* A stale lookup may end this.
ImplementsStore == Store!Init /\ [][stale' \/ Store!Next]_(Store!vars)
=============================================================================
