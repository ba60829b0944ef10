-------------------------- MODULE InodeCacheProofs --------------------------
(***************************************************************************)
(* Proofs about InodeCache, for every number of processes, inodes in       *)
(* memory and inode numbers, until a lookup comes upon an inode that is    *)
(* being released or is free already (stale): the reference counts and the *)
(* free count are exact, an inode number is in memory once, an inode that  *)
(* a process has found stays the one it asked for, sleepers are woken, and *)
(* the cache implements InodeStore.                                        *)
(***************************************************************************)
EXTENDS InodeCache, FiniteSetTheorems, TLAPS

-----------------------------------------------------------------------------
(* The inductive invariant.                                                *)

\* An inode as get_empty_inode hands it out.
Fresh == [ino |-> 0, count |-> 1, nlink |-> 1, dirt |-> FALSE, lock |-> FALSE, data |-> None]

PCs == {"user", "iget", "iget_found", "iget_read", "iget_return", "empty", "grow",
        "write", "writing", "unlock", "written", "iput", "iput_repeat", "put_inode",
        "clear", "new_inode"}

Places == [pc : PCs, nr : Inos \cup {0}, inode : Slots \cup {None},
           empty : Slots \cup {None}, then : {"none", "iput", "sync"}]

Inodes == [ino : Inos \cup {0}, count : Nat, nlink : {0, 1}, dirt : BOOLEAN,
           lock : BOOLEAN, data : Contents \cup {None}]

Types ==
    /\ table \subseteq Slots
    /\ inode \in [Slots -> Inodes]
    /\ proc \in [Procs -> Places]
    /\ disk \in [Inos -> [nlink : {0, 1}, data : Contents]]
    /\ imap \in [Inos -> BOOLEAN] /\ dir \in [Inos -> BOOLEAN]

\* Which local variables are in use at each place of a process.
Stage(r) ==
    /\ r.pc \in {"iget", "empty", "grow", "new_inode"} => r.inode = None
    /\ r.pc \notin {"user", "iget", "empty", "grow", "new_inode"} => r.inode # None
    /\ r.pc \in {"write", "writing", "unlock", "written"} <=> r.then # "none"
    /\ r.pc \in {"iget", "iget_found", "iget_read", "iget_return"} => r.nr # 0
    /\ r.pc = "user" => (r.nr = 0 <=> r.inode = None)
    /\ r.pc \in {"write", "writing", "unlock", "written", "iput", "iput_repeat",
                 "put_inode", "clear", "new_inode"} => r.nr = 0
    /\ r.empty # None => r.pc \in {"iget", "iget_found", "new_inode"}
    /\ r.pc = "new_inode" => r.empty # None

\* What a process at place r may rely on of the inode i it points at.
Handle(r, i) ==
    /\ r.then # "sync" => i.ino # 0 /\ (r.nr # 0 => i.ino = r.nr)
    /\ r.then # "sync" /\ r.pc \notin {"iget_found", "iget_read"} => i.data # None
    /\ r.pc \in {"writing", "unlock"} => i.lock /\ i.ino # 0 /\ i.data # None
    /\ r.pc = "iget_read" => i.lock /\ i.data = None /\ ~i.dirt
    /\ r.pc \in {"put_inode", "clear"} => i.count = 1 /\ i.nlink = 0

Standing(p) ==
    /\ Stage(proc[p])
    /\ proc[p].inode # None => Handle(proc[p], inode[proc[p].inode])
    /\ proc[p].empty # None => inode[proc[p].empty] = Fresh

\* An inode that was handed out, locked, or is being released is one process's.
Locking(p) == proc[p].pc \in {"iget_read", "writing", "unlock"}
Ending(p) == proc[p].pc \in {"put_inode", "clear"}
Apart(p, q) ==
    /\ proc[p].empty # None => proc[p].empty # proc[q].empty
    /\ Locking(p) /\ Locking(q) => proc[p].inode # proc[q].inode
    /\ Ending(p) => ~Owns(q, proc[p].inode)

\* What is true of an inode in memory.
Slot(i) ==
    /\ i.ino = 0 => ~i.lock /\ i.data = None
    /\ i.dirt => i.data # None
    /\ i.ino # 0 /\ i.data = None => i.lock
    /\ i.count = 0 => ~i.dirt /\ ~i.lock
    /\ i.ino # 0 => imap[i.ino]
    /\ i.ino # 0 /\ i.data # None /\ i.nlink = 0 => ~dir[i.ino]
    /\ i.ino # 0 /\ i.data # None /\ ~i.dirt => disk[i.ino] = [nlink |-> i.nlink, data |-> i.data]

\* A name leads to an inode that is in use, on the disk or at least in memory.
Number(n) ==
    dir[n] => /\ imap[n]
              /\ disk[n].nlink # 0 \/ \E s \in Slots : inode[s].ino = n /\ inode[s].data # None

Outside == \A s \in Slots \ table : inode[s] = Cleared

\* updating counts the processes that look for room for a bucket.
Looks(r, h) == r.pc \in {"empty", "grow"} /\ r.nr # 0 /\ hash(r.nr) = h
Updates ==
    /\ updating \in [0 .. NR_IHASH - 1 -> Nat]
    /\ \A h \in 0 .. NR_IHASH - 1 : updating[h] = Cardinality({q \in Procs : Looks(proc[q], h)})
    /\ \A p \in update_wait : /\ p \in Procs /\ proc[p].pc = "iget_return"
                              /\ updating[hash(proc[p].nr)] > 0

IInv ==
    /\ Types
    /\ \A p \in Procs : Standing(p)
    /\ \A p, q \in Procs : p # q => Apart(p, q)
    /\ \A s \in Slots : Slot(inode[s])
    /\ \A n \in Inos : Number(n)
    /\ Outside /\ OneCopy
    /\ CountsExact /\ FreeCount
    /\ Updates /\ IputWakesSleepers

USE NR_INODEAssumption, NR_IHASHAssumption, InosAssumption

-----------------------------------------------------------------------------
(* Counting.                                                               *)

\* A set that gains or loses at most one element.
LEMMA CardChange ==
    ASSUME NEW T, IsFiniteSet(T), NEW A \in SUBSET T, NEW B \in SUBSET T, NEW x,
           \A y \in T : y # x => (y \in A <=> y \in B)
    PROVE  /\ IsFiniteSet(A) /\ IsFiniteSet(B) /\ Cardinality(A) \in Nat /\ Cardinality(B) \in Nat
           /\ Cardinality(B) = Cardinality(A) + (IF x \in B THEN 1 ELSE 0)
                                              - (IF x \in A THEN 1 ELSE 0)
<1>1. IsFiniteSet(A) /\ IsFiniteSet(B)
  BY FS_Subset
<1>2. Cardinality(A) \in Nat /\ Cardinality(B) \in Nat
  BY <1>1, FS_CardinalityType
<1>3. CASE x \in A <=> x \in B
  <2>1. A = B
    BY <1>3
  <2> QED
    BY <1>1, <1>2, <1>3, <2>1
<1>4. CASE x \in B /\ x \notin A
  <2>1. B = A \cup {x}
    BY <1>4
  <2>2. Cardinality(A \cup {x}) = Cardinality(A) + 1
    BY <1>1, <1>4, FS_AddElement
  <2> QED
    BY <1>1, <1>2, <1>4, <2>1, <2>2
<1>5. CASE x \in A /\ x \notin B
  <2>1. A = B \cup {x}
    BY <1>5
  <2>2. Cardinality(B \cup {x}) = Cardinality(B) + 1
    BY <1>1, <1>5, FS_AddElement
  <2> QED
    BY <1>1, <1>2, <1>5, <2>1, <2>2
<1> QED
  BY <1>3, <1>4, <1>5

LEMMA CardProcs ==
    ASSUME NEW A \in SUBSET Procs, NEW B \in SUBSET Procs, NEW x,
           \A q \in Procs : q # x => (q \in A <=> q \in B)
    PROVE  /\ Cardinality(A) \in Nat /\ Cardinality(B) \in Nat
           /\ Cardinality(B) = Cardinality(A) + (IF x \in B THEN 1 ELSE 0)
                                              - (IF x \in A THEN 1 ELSE 0)
<1>1. IsFiniteSet(Procs)
  BY FiniteAssumption
<1> QED
  BY <1>1, CardChange

\* The references of a process at place r to inode s, and those of all.
Ref(r, s) == (IF r.inode = s /\ r.then # "sync" THEN 1 ELSE 0) + (IF r.empty = s THEN 1 ELSE 0)
Refs(s) == Cardinality({p \in Procs : Owns(p, s)}) + Cardinality({p \in Procs : proc[p].empty = s})

LEMMA RefsStep ==
    ASSUME NEW p \in Procs, \A q \in Procs : q # p => proc'[q] = proc[q], NEW s
    PROVE  /\ Refs(s) \in Nat
           /\ Refs(s)' = Refs(s) + Ref(proc'[p], s) - Ref(proc[p], s)
<1> DEFINE A == {q \in Procs : proc[q].inode = s /\ proc[q].then # "sync"}
           B == {q \in Procs : proc'[q].inode = s /\ proc'[q].then # "sync"}
           C == {q \in Procs : proc[q].empty = s}
           D == {q \in Procs : proc'[q].empty = s}
<1>1. /\ A \in SUBSET Procs /\ B \in SUBSET Procs /\ C \in SUBSET Procs /\ D \in SUBSET Procs
      /\ \A q \in Procs : q # p => (q \in A <=> q \in B) /\ (q \in C <=> q \in D)
  OBVIOUS
<1>2. /\ p \in A <=> proc[p].inode = s /\ proc[p].then # "sync"
      /\ p \in B <=> proc'[p].inode = s /\ proc'[p].then # "sync"
      /\ p \in C <=> proc[p].empty = s
      /\ p \in D <=> proc'[p].empty = s
  OBVIOUS
<1>3. Refs(s) = Cardinality(A) + Cardinality(C) /\ Refs(s)' = Cardinality(B) + Cardinality(D)
  BY DEF Refs, Owns
<1> HIDE DEF A, B, C, D
<1>4. /\ Cardinality(A) \in Nat /\ Cardinality(B) \in Nat
      /\ Cardinality(B) = Cardinality(A) + (IF p \in B THEN 1 ELSE 0) - (IF p \in A THEN 1 ELSE 0)
  <2>1. A \in SUBSET Procs /\ B \in SUBSET Procs
    BY <1>1
  <2>2. \A q \in Procs : q # p => (q \in A <=> q \in B)
    BY <1>1
  <2> QED
    BY <2>1, <2>2, CardProcs
<1>5. /\ Cardinality(C) \in Nat /\ Cardinality(D) \in Nat
      /\ Cardinality(D) = Cardinality(C) + (IF p \in D THEN 1 ELSE 0) - (IF p \in C THEN 1 ELSE 0)
  <2>1. C \in SUBSET Procs /\ D \in SUBSET Procs
    BY <1>1
  <2>2. \A q \in Procs : q # p => (q \in C <=> q \in D)
    BY <1>1
  <2> QED
    BY <2>1, <2>2, CardProcs
<1> QED
  BY <1>2, <1>3, <1>4, <1>5 DEF Ref

\* A process that refers to an inode is counted, and so is a second one.
LEMMA RefsAtLeast ==
    ASSUME NEW p \in Procs, NEW s
    PROVE  /\ Refs(s) \in Nat
           /\ Owns(p, s) \/ proc[p].empty = s => Refs(s) >= 1
           /\ \A q \in Procs : q # p /\ Owns(p, s) /\ Owns(q, s) => Refs(s) >= 2
<1> DEFINE A == {q \in Procs : Owns(q, s)}
           C == {q \in Procs : proc[q].empty = s}
<1>1. IsFiniteSet(A) /\ IsFiniteSet(C)
  BY FiniteAssumption, FS_Subset
<1>2. Refs(s) = Cardinality(A) + Cardinality(C)
  BY DEF Refs
<1>3. Cardinality(A) \in Nat /\ Cardinality(C) \in Nat
  BY <1>1, FS_CardinalityType
<1>4. (p \in A <=> Owns(p, s)) /\ (p \in C <=> proc[p].empty = s)
  OBVIOUS
<1>5. \A q \in Procs : q \in A <=> Owns(q, s)
  OBVIOUS
<1> HIDE DEF A, C
<1>6. p \in A => Cardinality(A) >= 1
  BY <1>1, <1>3, FS_EmptySet
<1>7. p \in C => Cardinality(C) >= 1
  BY <1>1, <1>3, FS_EmptySet
<1>8. ASSUME NEW q \in Procs, q # p, p \in A, q \in A PROVE Cardinality(A) >= 2
  <2>1. IsFiniteSet(A \ {p}) /\ Cardinality(A \ {p}) = Cardinality(A) - 1
    BY <1>1, <1>8, FS_RemoveElement
  <2>2. Cardinality(A \ {p}) \in Nat
    BY <2>1, FS_CardinalityType
  <2>3. q \in A \ {p}
    BY <1>8
  <2>4. Cardinality(A \ {p}) # 0
    BY <2>1, <2>3, FS_EmptySet
  <2> QED
    BY <1>3, <2>1, <2>2, <2>4
<1> QED
  BY <1>2, <1>3, <1>4, <1>5, <1>6, <1>7, <1>8

\* The free inodes, when one inode changes.
LEMMA FreeStep ==
    ASSUME Types, NEW s, table' = table,
           \A t \in Slots : t # s => inode'[t].count = inode[t].count
    PROVE  /\ Cardinality(Unused) \in Nat
           /\ Cardinality(Unused)' = Cardinality(Unused)
                + (IF s \in table /\ inode'[s].count = 0 THEN 1 ELSE 0)
                - (IF s \in table /\ inode[s].count = 0 THEN 1 ELSE 0)
<1> DEFINE A == {t \in table : inode[t].count = 0}
           B == {t \in table : inode'[t].count = 0}
<1>1. /\ A \in SUBSET Slots /\ B \in SUBSET Slots
      /\ \A t \in Slots : t # s => (t \in A <=> t \in B)
      /\ s \in A <=> s \in table /\ inode[s].count = 0
      /\ s \in B <=> s \in table /\ inode'[s].count = 0
  BY DEF Types
<1>2. Unused = A /\ Unused' = B
  BY DEF Unused
<1> HIDE DEF A, B
<1>3. /\ Cardinality(A) \in Nat
      /\ Cardinality(B) = Cardinality(A) + (IF s \in B THEN 1 ELSE 0) - (IF s \in A THEN 1 ELSE 0)
  BY <1>1, FiniteAssumption, CardChange
<1> QED
  BY <1>1, <1>2, <1>3

-----------------------------------------------------------------------------
(* What one step of process p, on inode s, has to keep: s is None when no  *)
(* inode changes.                                                          *)

Others(p) == proc' \in [Procs -> Places] /\ \A q \in Procs : q # p => proc'[q] = proc[q]
Rest(s) == inode' \in [Slots -> Inodes] /\ \A t \in Slots : t # s => inode'[t] = inode[t]

\* Nobody else is deprived of what it relies on.
Bystanders(p, s) ==
    \A q \in Procs : q # p /\ s # None =>
        /\ proc[q].inode = s => Handle(proc[q], inode'[s])
        /\ proc[q].empty = s => inode'[s] = Fresh
Distinct(p) == \A q \in Procs : q # p => Apart(p, q)' /\ Apart(q, p)'

LEMMA StandingKept ==
    ASSUME IInv, NEW p \in Procs, NEW s, Others(p), Rest(s), Standing(p)',
           Bystanders(p, s)
    PROVE  \A q \in Procs : Standing(q)'
<1> TAKE q \in Procs
<1>1. CASE q = p
  BY <1>1
<1>2. CASE q # p
  <2>1. proc[q] \in Places /\ proc'[q] = proc[q] /\ Standing(q)
    BY <1>2 DEF IInv, Types, Others
  <2>2. PICK r : r = proc[q]
    OBVIOUS
  <2>3. /\ Stage(r) /\ r.inode \in Slots \cup {None} /\ r.empty \in Slots \cup {None}
        /\ r.inode # None => Handle(r, inode[r.inode])
        /\ r.empty # None => inode[r.empty] = Fresh
    BY <2>1, <2>2 DEF Standing, Places
  <2>4. r.inode # None => Handle(r, inode'[r.inode])
    <3>1. CASE r.inode = s
      BY <1>2, <2>2, <3>1 DEF Bystanders
    <3>2. CASE r.inode # s
      BY <2>3, <3>2 DEF Rest
    <3> QED
      BY <3>1, <3>2
  <2>5. r.empty # None => inode'[r.empty] = Fresh
    <3>1. CASE r.empty = s
      BY <1>2, <2>2, <3>1 DEF Bystanders
    <3>2. CASE r.empty # s
      BY <2>3, <3>2 DEF Rest
    <3> QED
      BY <3>1, <3>2
  <2> QED
    BY <2>1, <2>2, <2>3, <2>4, <2>5 DEF Standing
<1> QED
  BY <1>1, <1>2

LEMMA ApartKept ==
    ASSUME IInv, NEW p \in Procs, Others(p), Distinct(p)
    PROVE  \A a, b \in Procs : a # b => Apart(a, b)'
<1> TAKE a, b \in Procs
<1> HAVE a # b
<1>1. CASE a = p \/ b = p
  BY <1>1 DEF Distinct
<1>2. CASE a # p /\ b # p
  <2>1. Apart(a, b) /\ proc'[a] = proc[a] /\ proc'[b] = proc[b]
    BY <1>2 DEF IInv, Others
  <2> QED
    BY <2>1 DEF Apart, Owns, Locking, Ending
<1> QED
  BY <1>1, <1>2

\* A process that takes no inode, no lock and releases nothing.
Modest(p) ==
    /\ proc'[p].empty \in {None, proc[p].empty}
    /\ Locking(p)' => Locking(p) /\ proc'[p].inode = proc[p].inode
    /\ Ending(p)' => Ending(p) /\ proc'[p].inode = proc[p].inode
    /\ \A t \in Slots : Owns(p, t)' => Owns(p, t)

LEMMA ModestDistinct ==
    ASSUME IInv, NEW p \in Procs, Others(p), Modest(p)
    PROVE  Distinct(p)
<1> SUFFICES ASSUME NEW q \in Procs, q # p PROVE Apart(p, q)' /\ Apart(q, p)'
  BY DEF Distinct
<1>1. Apart(p, q) /\ Apart(q, p) /\ proc'[q] = proc[q] /\ proc[q] \in Places /\ Stage(proc[q])
  BY DEF IInv, Types, Others, Standing
<1>2. Ending(q) => proc[q].inode \in Slots
  BY <1>1 DEF Ending, Places, Stage
<1> QED
  BY <1>1, <1>2 DEF Modest, Apart, Owns, Locking, Ending

LEMMA CountsKept ==
    ASSUME IInv, NEW p \in Procs, Others(p), inode' \in [Slots -> Inodes],
           \A t \in Slots : inode'[t].count = inode[t].count + Ref(proc'[p], t) - Ref(proc[p], t)
    PROVE  CountsExact'
<1> SUFFICES ASSUME NEW t \in Slots PROVE inode'[t].count = Refs(t)'
  BY DEF CountsExact, Refs
<1>1. inode[t].count = Refs(t)
  BY DEF IInv, CountsExact, Refs
<1>2. Refs(t)' = Refs(t) + Ref(proc'[p], t) - Ref(proc[p], t)
  BY RefsStep DEF Others
<1> QED
  BY <1>1, <1>2

LEMMA FreeKept ==
    ASSUME IInv, NEW s, Rest(s), table' = table,
           nr_free_inodes' = nr_free_inodes
                + (IF s \in table /\ inode'[s].count = 0 THEN 1 ELSE 0)
                - (IF s \in table /\ inode[s].count = 0 THEN 1 ELSE 0)
    PROVE  FreeCount'
<1>1. Types /\ nr_free_inodes = Cardinality(Unused)
  BY DEF IInv, FreeCount
<1>2. \A t \in Slots : t # s => inode'[t].count = inode[t].count
  BY DEF Rest
<1>3. /\ Cardinality(Unused) \in Nat
      /\ Cardinality(Unused)' = Cardinality(Unused)
           + (IF s \in table /\ inode'[s].count = 0 THEN 1 ELSE 0)
           - (IF s \in table /\ inode[s].count = 0 THEN 1 ELSE 0)
  BY <1>1, <1>2, FreeStep
<1> QED
  BY <1>1, <1>3 DEF FreeCount

LEMMA UniqueKept ==
    ASSUME IInv, NEW s, Rest(s),
           \/ s \notin Slots \/ inode'[s].ino \in {0, inode[s].ino}
           \/ \A t \in Slots : t # s => inode[t].ino # inode'[s].ino
    PROVE  OneCopy'
<1> SUFFICES ASSUME NEW a \in Slots, NEW b \in Slots, inode'[a].ino = inode'[b].ino,
                    inode'[a].ino # 0
             PROVE  a = b
  BY DEF OneCopy
<1>1. inode[a].ino = inode[b].ino /\ inode[a].ino # 0 => a = b
  BY DEF IInv, OneCopy
<1>2. CASE s \notin Slots
  BY <1>1, <1>2 DEF Rest
<1>3. CASE s \in Slots
  BY <1>1, <1>3 DEF Rest
<1> QED
  BY <1>2, <1>3

\* Slot s stays in order; the file system does not change.
Sound(s) ==
    s # None =>
      /\ s \in table
      /\ Slot(inode'[s])
      /\ \/ inode'[s].ino \in {0, inode[s].ino}
         \/ \A t \in Slots : t # s => inode[t].ino # inode'[s].ino
      /\ inode[s].ino # 0 /\ inode[s].data # None /\ dir[inode[s].ino] =>
           \/ inode'[s].ino = inode[s].ino /\ inode'[s].data # None
           \/ disk[inode[s].ino].nlink # 0

LEMMA SoundKept ==
    ASSUME IInv, NEW s \in Slots \cup {None}, Rest(s), Sound(s), table' = table, fs' = fs
    PROVE  /\ \A t \in Slots : Slot(inode[t])'
           /\ \A n \in Inos : Number(n)'
           /\ Outside' /\ OneCopy'
<1>0. disk' = disk /\ imap' = imap /\ dir' = dir
  BY DEF fs
<1>1. ASSUME NEW t \in Slots PROVE Slot(inode[t])'
  <2>1. Slot(inode[t])
    BY DEF IInv
  <2>2. Slot(inode'[t])
    BY <2>1, NoneAssumption DEF Rest, Sound
  <2>3. PICK i : i = inode'[t]
    OBVIOUS
  <2> QED
    BY <1>0, <2>2, <2>3 DEF Slot
<1>2. ASSUME NEW n \in Inos PROVE Number(n)'
  <2>1. Number(n)
    BY DEF IInv
  <2>2. CASE dir[n] /\ disk[n].nlink = 0
    <3>1. PICK t \in Slots : inode[t].ino = n /\ inode[t].data # None
      BY <2>1, <2>2 DEF Number
    <3>2. inode'[t].ino = n /\ inode'[t].data # None
      <4>1. CASE t = s
        <5>1. n # 0 /\ s # None
          BY <4>1, InosAssumption, NoneAssumption
        <5> QED
          BY <2>2, <3>1, <4>1, <5>1 DEF Sound
      <4>2. CASE t # s
        BY <3>1, <4>2 DEF Rest
      <4> QED
        BY <4>1, <4>2
    <3> QED
      BY <1>0, <2>1, <2>2, <3>2 DEF Number
  <2>3. CASE ~dir[n] \/ disk[n].nlink # 0
    BY <1>0, <2>1, <2>3 DEF Number
  <2> QED
    BY <2>2, <2>3
<1>3. Outside'
  BY NoneAssumption DEF IInv, Outside, Rest, Sound
<1>4. OneCopy'
  BY UniqueKept, NoneAssumption DEF Sound
<1> QED
  BY <1>1, <1>2, <1>3, <1>4

\* No process starts or stops to look for room, and p does not sleep.
LEMMA UpdatesKept ==
    ASSUME IInv, NEW p \in Procs, Others(p), updating' = updating, update_wait' = update_wait,
           p \notin update_wait,
           \A h \in 0 .. NR_IHASH - 1 : Looks(proc'[p], h) <=> Looks(proc[p], h)
    PROVE  Updates'
<1>1. ASSUME NEW h \in 0 .. NR_IHASH - 1
      PROVE  {q \in Procs : Looks(proc'[q], h)} = {q \in Procs : Looks(proc[q], h)}
  BY DEF Others
<1>2. \A q \in update_wait : proc'[q] = proc[q]
  BY DEF IInv, Updates, Others
<1>3. Updates
  BY DEF IInv
<1>4. \A h \in 0 .. NR_IHASH - 1 : updating'[h] = Cardinality({q \in Procs : Looks(proc'[q], h)})
  <2> TAKE h \in 0 .. NR_IHASH - 1
  <2>1. updating[h] = Cardinality({q \in Procs : Looks(proc[q], h)})
    BY <1>3 DEF Updates
  <2> QED
    BY <1>1, <2>1
<1>5. updating' \in [0 .. NR_IHASH - 1 -> Nat]
  BY <1>3 DEF Updates
<1>6. \A q \in update_wait' : /\ q \in Procs /\ proc'[q].pc = "iget_return"
                              /\ updating'[hash(proc'[q].nr)] > 0
  BY <1>2, <1>3 DEF Updates
<1> QED
  BY <1>4, <1>5, <1>6 DEF Updates

\* Nobody is asleep for an inode, or none becomes free.
LEMMA WakesKept ==
    ASSUME IInv, NEW s \in Slots \cup {None}, Rest(s), table' = table,
           \/ inode_wait' = {}
           \/ /\ inode_wait' = inode_wait
              /\ s # None => inode'[s].count # 0 \/ inode'[s].ino = 0
    PROVE  IputWakesSleepers'
<1>1. CASE inode_wait' = {}
  BY <1>1 DEF IputWakesSleepers
<1>2. CASE inode_wait' # {}
  <2>1. \A t \in table : inode[t].count = 0 => inode[t].ino = 0
    BY <1>2 DEF IInv, IputWakesSleepers, Unused
  <2>2. \A t \in table : inode'[t].count = 0 => inode'[t].ino = 0
    BY <1>2, <2>1, NoneAssumption DEF Rest, IInv, Types
  <2> QED
    BY <2>2 DEF IputWakesSleepers, Unused
<1> QED
  BY <1>1, <1>2

\* A step on one inode.
LEMMA StepInv ==
    ASSUME IInv, NEW p \in Procs, NEW s \in Slots \cup {None}, Others(p), Rest(s), Sound(s),
           table' = table, fs' = fs, Standing(p)', Bystanders(p, s), Distinct(p),
           \A t \in Slots : inode'[t].count = inode[t].count + Ref(proc'[p], t) - Ref(proc[p], t),
           FreeCount', Updates', IputWakesSleepers'
    PROVE  IInv'
<1>1. Types'
  BY DEF IInv, Types, Others, Rest, fs
<1>3. \A q \in Procs : Standing(q)'
  BY StandingKept
<1>4. \A a, b \in Procs : a # b => Apart(a, b)'
  BY ApartKept
<1>5. /\ \A t \in Slots : Slot(inode[t])'
      /\ \A n \in Inos : Number(n)'
      /\ Outside' /\ OneCopy'
  BY SoundKept
<1>6. CountsExact'
  BY CountsKept DEF Rest
<1> QED
  BY <1>1, <1>3, <1>4, <1>5, <1>6 DEF IInv

\* A step on no inode.
LEMMA ProcInv ==
    ASSUME IInv, NEW p \in Procs, Others(p), inode' = inode, table' = table, fs' = fs,
           nr_free_inodes' = nr_free_inodes, Standing(p)', Distinct(p),
           \A t \in Slots : Ref(proc'[p], t) = Ref(proc[p], t),
           Updates', IputWakesSleepers'
    PROVE  IInv'
<1>1. Rest(None) /\ Sound(None) /\ Bystanders(p, None)
  BY DEF Rest, Sound, Bystanders, IInv, Types
<1>2. \A t \in Slots : inode'[t].count = inode[t].count + Ref(proc'[p], t) - Ref(proc[p], t)
  <2> TAKE t \in Slots
  <2>1. inode[t].count \in Nat
    BY DEF IInv, Types, Inodes
  <2>2. Ref(proc[p], t) \in Nat
    BY DEF Ref
  <2> QED
    BY <2>1, <2>2
<1>3. FreeCount'
  BY DEF IInv, FreeCount, Unused
<1> QED
  BY <1>1, <1>2, <1>3, StepInv

-----------------------------------------------------------------------------
(* What a process may rely on.                                             *)

LEMMA InTable ==
    ASSUME IInv, NEW s \in Slots, inode[s].ino # 0 \/ inode[s].count # 0
    PROVE  s \in table
BY DEF IInv, Outside, Cleared

\* The inode that a process points at and one that it was handed out differ,
\* and the reference that a process owns is counted.
LEMMA Held ==
    ASSUME IInv, NEW p \in Procs, NEW s \in Slots, Owns(p, s)
    PROVE  /\ Handle(proc[p], inode[s]) /\ inode[s].ino # 0 /\ s \in table
           /\ inode[s].count \in Nat /\ inode[s].count >= 1
           /\ \A q \in Procs : proc[q].empty # s
           /\ \A q \in Procs : q # p /\ Owns(q, s) => inode[s].count >= 2
<1>1. Handle(proc[p], inode[s])
  BY NoneAssumption DEF Owns, IInv, Standing
<1>2. inode[s].ino # 0
  BY <1>1 DEF Handle, Owns
<1>3. s \in table
  BY <1>2, InTable
<1>4. inode[s].count = Refs(s)
  BY DEF IInv, CountsExact, Refs
<1>5. \A q \in Procs : proc[q].empty # s
  <2> SUFFICES ASSUME NEW q \in Procs, proc[q].empty = s PROVE FALSE
    OBVIOUS
  <2>1. inode[s] = Fresh
    BY NoneAssumption DEF IInv, Standing
  <2> QED
    BY <1>2, <2>1 DEF Fresh
<1>6. Refs(s) \in Nat /\ Refs(s) >= 1 /\ \A q \in Procs : q # p /\ Owns(q, s) => Refs(s) >= 2
  BY RefsAtLeast
<1> QED
  BY <1>1, <1>2, <1>3, <1>4, <1>5, <1>6

\* An inode that was handed out: nobody else has it, some may look at it.
LEMMA Handed ==
    ASSUME IInv, NEW p \in Procs, NEW s \in Slots, proc[p].empty = s
    PROVE  /\ inode[s] = Fresh /\ s \in table /\ \A q \in Procs : ~Owns(q, s)
           /\ \A q \in Procs : q # p => /\ proc[q].empty # s
                                        /\ proc[q].inode = s => /\ proc[q].then = "sync"
                                                                /\ ~Locking(q) /\ ~Ending(q)
<1>1. inode[s] = Fresh
  BY NoneAssumption DEF IInv, Standing
<1>2. s \in table
  BY <1>1, InTable DEF Fresh
<1>3. \A q \in Procs : ~Owns(q, s)
  BY Held
<1>4. ASSUME NEW q \in Procs, q # p PROVE proc[q].empty # s
  BY <1>4, NoneAssumption DEF IInv, Apart
<1>5. ASSUME NEW q \in Procs, proc[q].inode = s
      PROVE  proc[q].then = "sync" /\ ~Locking(q) /\ ~Ending(q)
  <2>1. proc[q].then = "sync"
    BY <1>3, <1>5 DEF Owns
  <2>2. Stage(proc[q]) /\ Handle(proc[q], Fresh)
    BY <1>1, <1>5, NoneAssumption DEF IInv, Standing
  <2> QED
    BY <2>1, <2>2 DEF Stage, Handle, Fresh, Locking, Ending
<1> QED
  BY <1>1, <1>2, <1>3, <1>4, <1>5

LEMMA Moved ==
    ASSUME IInv, NEW p \in Procs, NEW r \in Places, proc' = [proc EXCEPT ![p] = r]
    PROVE  Others(p) /\ proc'[p] = r
BY DEF IInv, Types, Others

LEMMA InoNat ==
    ASSUME NEW n \in Inos \cup {0}
    PROVE  n \in Nat
<1>1. Inos \subseteq Nat \ {0}
  BY InosAssumption
<1>2. n \in Inos => n \in Nat
  BY <1>1
<1>3. n = 0 => n \in Nat
  OBVIOUS
<1> QED
  BY <1>2, <1>3

LEMMA There ==
    ASSUME IInv, NEW p \in Procs
    PROVE  /\ proc[p] \in Places /\ Stage(proc[p])
           /\ proc[p].inode \in Slots \cup {None} /\ proc[p].empty \in Slots \cup {None}
           /\ proc[p].nr \in Inos \cup {0} /\ proc[p].nr \in Nat
           /\ proc[p].inode # None => Handle(proc[p], inode[proc[p].inode])
           /\ proc[p].empty # None => inode[proc[p].empty] = Fresh
<1>1. proc[p] \in Places /\ Standing(p)
  BY DEF IInv, Types
<1>2. proc[p].nr \in Inos \cup {0}
  BY <1>1 DEF Places
<1>3. proc[p].nr \in Nat
  BY <1>2, InoNat
<1> QED
  BY <1>1, <1>2, <1>3 DEF Standing, Places

\* A process that only moves on: it is at place r now, with the same references.
Onward(p, r) ==
    /\ r \in Places /\ Stage(r)
    /\ r.inode # None => Handle(r, inode[r.inode])
    /\ r.empty = proc[p].empty
    /\ \A t \in Slots : r.inode = t /\ r.then # "sync" <=> Owns(p, t)
    /\ r.pc \notin {"iget_read", "writing", "unlock", "put_inode", "clear"}

LEMMA Quiet ==
    ASSUME IInv, NEW p \in Procs, NEW r, proc' = [proc EXCEPT ![p] = r], Onward(p, r),
           inode' = inode, table' = table, fs' = fs, nr_free_inodes' = nr_free_inodes,
           Updates', IputWakesSleepers'
    PROVE  IInv'
<1>1. Others(p) /\ proc'[p] = r
  BY Moved DEF Onward
<1>2. Standing(p)'
  <2>1. r.empty # None => inode[r.empty] = Fresh
    BY There DEF Onward
  <2> QED
    BY <1>1, <2>1 DEF Standing, Onward
<1>3. Modest(p)
  BY <1>1 DEF Modest, Onward, Locking, Ending, Owns
<1>4. Distinct(p)
  BY <1>1, <1>3, ModestDistinct
<1>5. \A t \in Slots : Ref(proc'[p], t) = Ref(proc[p], t)
  BY <1>1 DEF Ref, Onward, Owns
<1> QED
  BY <1>1, <1>2, <1>4, <1>5, ProcInv

LEMMA Silent ==
    ASSUME IInv, NEW p \in Procs, NEW r, proc' = [proc EXCEPT ![p] = r], Onward(p, r),
           UNCHANGED <<tables, fs>>, p \notin update_wait,
           \A h \in 0 .. NR_IHASH - 1 : Looks(r, h) <=> Looks(proc[p], h)
    PROVE  IInv'
<1>1. Others(p) /\ proc'[p] = r
  BY Moved DEF Onward
<1>2. Updates'
  BY <1>1, UpdatesKept DEF tables
<1>3. IputWakesSleepers'
  BY DEF tables, IInv, IputWakesSleepers, Unused
<1> QED
  BY <1>2, <1>3, Quiet DEF tables

-----------------------------------------------------------------------------
(* Each action keeps the invariant: those that only move a process.        *)

LEMMA Lookup_Inv ==
    ASSUME IInv, NEW p \in Procs, NEW n \in Inos, lookup(p, n)
    PROVE  IInv'
<1> DEFINE r == [proc[p] EXCEPT !.pc = "iget", !.nr = n]
<1>1. /\ proc' = [proc EXCEPT ![p] = r] /\ proc[p].pc = "user" /\ proc[p].inode = None /\ dir[n]
      /\ p \notin update_wait /\ UNCHANGED <<tables, fs>>
  BY DEF lookup, MaySleep, Turn
<1>2. proc[p] \in Places /\ Stage(proc[p])
  BY There
<1>3. proc[p].empty = None /\ proc[p].then = "none"
  BY <1>1, <1>2 DEF Stage, Places
<1>4. /\ r \in Places /\ r.pc = "iget" /\ r.nr = n /\ r.inode = None /\ r.empty = None
      /\ r.then = "none"
  BY <1>1, <1>2, <1>3 DEF Places, PCs
<1> HIDE DEF r
<1>5. Stage(r)
  BY <1>4, InosAssumption DEF Stage
<1>6. Onward(p, r)
  BY <1>1, <1>3, <1>4, <1>5, NoneAssumption DEF Onward, Owns
<1>7. \A h \in 0 .. NR_IHASH - 1 : Looks(r, h) <=> Looks(proc[p], h)
  BY <1>1, <1>4 DEF Looks
<1> QED
  BY <1>1, <1>6, <1>7, Silent

\* A process in get_empty_inode goes on at "empty" or sleeps for a page.
LEMMA Entered ==
    ASSUME NEW p, NEW r, EnterEmpty(p, r)
    PROVE  \E l \in {r, [r EXCEPT !.pc = "grow"]} : proc' = [proc EXCEPT ![p] = l]
BY DEF EnterEmpty, MaySleep, Continue

LEMMA EmptyGrow_Inv ==
    ASSUME IInv, NEW p \in Procs, EmptyGrow(p)
    PROVE  IInv'
<1> DEFINE r == At(p, "grow")
<1>1. /\ proc' = [proc EXCEPT ![p] = r] /\ proc[p].pc = "empty"
      /\ p \notin update_wait /\ UNCHANGED <<tables, fs>>
  BY DEF EmptyGrow, MaySleep, Turn
<1>2. /\ proc[p] \in Places /\ Stage(proc[p])
  BY There
<1>4. /\ r \in Places /\ r.pc = "grow" /\ r.nr = proc[p].nr /\ r.inode = proc[p].inode
      /\ r.empty = proc[p].empty /\ r.then = proc[p].then
  BY <1>2 DEF Places, PCs, At
<1> HIDE DEF r
<1>5. Stage(r) /\ r.inode = None
  BY <1>1, <1>2, <1>4 DEF Stage
<1>6. Onward(p, r)
  BY <1>1, <1>2, <1>4, <1>5 DEF Onward, Owns
<1>7. \A h \in 0 .. NR_IHASH - 1 : Looks(r, h) <=> Looks(proc[p], h)
  BY <1>1, <1>4 DEF Looks
<1> QED
  BY <1>1, <1>6, <1>7, Silent

LEMMA NewInode_Inv ==
    ASSUME IInv, NEW p \in Procs, new_inode(p)
    PROVE  IInv'
<1>1. /\ proc[p].pc = "user" /\ proc[p].inode = None /\ EnterEmpty(p, At(p, "empty"))
      /\ p \notin update_wait /\ UNCHANGED <<tables, fs>>
  BY DEF new_inode, Turn
<1>2. proc[p] \in Places /\ Stage(proc[p])
  BY There
<1>3. PICK r : /\ r \in {At(p, "empty"), [At(p, "empty") EXCEPT !.pc = "grow"]}
               /\ proc' = [proc EXCEPT ![p] = r]
  BY <1>1, Entered
<1>4. /\ r \in Places /\ r.pc \in {"empty", "grow"} /\ r.nr = proc[p].nr
      /\ r.inode = proc[p].inode /\ r.empty = proc[p].empty /\ r.then = proc[p].then
  BY <1>2, <1>3 DEF Places, PCs, At
<1>5. Stage(r) /\ r.inode = None /\ r.nr = 0
  BY <1>1, <1>2, <1>4 DEF Stage
<1>6. Onward(p, r)
  BY <1>1, <1>2, <1>4, <1>5 DEF Onward, Owns
<1>7. \A h \in 0 .. NR_IHASH - 1 : Looks(r, h) <=> Looks(proc[p], h)
  BY <1>1, <1>5 DEF Looks
<1> QED
  BY <1>1, <1>3, <1>6, <1>7, Silent

LEMMA Waited ==
    ASSUME NEW p, NEW r, NEW s, WaitThen(p, r, s)
    PROVE  proc' = [proc EXCEPT ![p] = r]
BY DEF WaitThen, MaySleep, Continue

LEMMA SyncInodes_Inv ==
    ASSUME IInv, NEW p \in Procs, NEW s \in Slots, sync_inodes(p, s)
    PROVE  IInv'
<1> DEFINE r == [AtWith(p, "write", s) EXCEPT !.then = "sync"]
<1>1. /\ WaitThen(p, r, s) /\ proc[p].pc = "user" /\ proc[p].inode = None
      /\ p \notin update_wait /\ UNCHANGED <<tables, fs>>
  BY DEF sync_inodes, Turn
<1>2. proc[p] \in Places /\ Stage(proc[p])
  BY There
<1>3. proc[p].empty = None /\ proc[p].nr = 0
  BY <1>1, <1>2 DEF Stage, Places
<1>4. /\ r \in Places /\ r.pc = "write" /\ r.nr = 0 /\ r.inode = s /\ r.empty = None
      /\ r.then = "sync"
  BY <1>1, <1>2, <1>3 DEF Places, PCs, AtWith
<1>5. proc' = [proc EXCEPT ![p] = r]
  BY <1>1, Waited
<1> HIDE DEF r
<1>6. Stage(r) /\ Handle(r, inode[s])
  BY <1>4, NoneAssumption DEF Stage, Handle
<1>7. Onward(p, r)
  BY <1>1, <1>3, <1>4, <1>6, NoneAssumption DEF Onward, Owns
<1>8. \A h \in 0 .. NR_IHASH - 1 : Looks(r, h) <=> Looks(proc[p], h)
  BY <1>1, <1>4 DEF Looks
<1> QED
  BY <1>1, <1>5, <1>7, <1>8, Silent

LEMMA WriteReturn_Inv ==
    ASSUME IInv, NEW p \in Procs, WriteReturn(p)
    PROVE  IInv'
<1>1. /\ proc[p].pc = "written" /\ p \notin update_wait /\ UNCHANGED <<tables, fs>>
  BY DEF WriteReturn, Turn
<1>2. /\ proc[p] \in Places /\ Stage(proc[p])
      /\ proc[p].inode # None => Handle(proc[p], inode[proc[p].inode])
  BY There
<1>3. /\ proc[p].empty = None /\ proc[p].nr = 0 /\ proc[p].then \in {"iput", "sync"}
      /\ proc[p].inode \in Slots /\ Handle(proc[p], inode[proc[p].inode])
  BY <1>1, <1>2 DEF Stage, Places
<1>4. CASE proc[p].then = "iput"
  <2> DEFINE r == [At(p, "iput_repeat") EXCEPT !.then = "none"]
  <2>1. WaitThen(p, r, proc[p].inode)
    BY <1>4 DEF WriteReturn
  <2>2. proc' = [proc EXCEPT ![p] = r]
    BY <2>1, Waited
  <2>3. /\ r \in Places /\ r.pc = "iput_repeat" /\ r.nr = 0 /\ r.inode = proc[p].inode
        /\ r.empty = None /\ r.then = "none"
    BY <1>2, <1>3 DEF Places, PCs, At
  <2> HIDE DEF r
  <2>4. Stage(r) /\ Handle(r, inode[r.inode])
    BY <1>1, <1>3, <1>4, <2>3, NoneAssumption DEF Stage, Handle
  <2>5. Onward(p, r)
    BY <1>3, <1>4, <2>3, <2>4 DEF Onward, Owns
  <2>6. \A h \in 0 .. NR_IHASH - 1 : Looks(r, h) <=> Looks(proc[p], h)
    BY <1>1, <2>3 DEF Looks
  <2> QED
    BY <1>1, <2>2, <2>5, <2>6, Silent
<1>5. CASE proc[p].then = "sync"
  <2>1. proc' = [proc EXCEPT ![p] = Idle]
    BY <1>5 DEF WriteReturn, MaySleep
  <2>2. Idle \in Places /\ Stage(Idle)
    BY DEF Idle, Places, PCs, Stage
  <2>3. Onward(p, Idle)
    BY <1>3, <1>5, <2>2, NoneAssumption DEF Onward, Owns, Idle
  <2>4. \A h \in 0 .. NR_IHASH - 1 : Looks(Idle, h) <=> Looks(proc[p], h)
    BY <1>1 DEF Looks, Idle
  <2> QED
    BY <1>1, <2>1, <2>3, <2>4, Silent
<1> QED
  BY <1>3, <1>4, <1>5

LEMMA Iput_Inv ==
    ASSUME IInv, NEW p \in Procs, iput(p)
    PROVE  IInv'
<1> DEFINE r == [proc[p] EXCEPT !.pc = "iput", !.nr = 0]
<1>1. /\ WaitThen(p, r, proc[p].inode) /\ proc[p].pc = "user" /\ proc[p].inode # None
      /\ p \notin update_wait /\ UNCHANGED <<tables, fs>>
  BY DEF iput, Turn
<1>2. /\ proc[p] \in Places /\ Stage(proc[p])
      /\ proc[p].inode # None => Handle(proc[p], inode[proc[p].inode])
  BY There
<1>3. proc[p].empty = None /\ proc[p].then = "none" /\ proc[p].inode \in Slots
  BY <1>1, <1>2 DEF Stage, Places
<1>4. /\ r \in Places /\ r.pc = "iput" /\ r.nr = 0 /\ r.inode = proc[p].inode
      /\ r.empty = None /\ r.then = "none"
  BY <1>2, <1>3 DEF Places, PCs
<1>5. proc' = [proc EXCEPT ![p] = r]
  BY <1>1, Waited
<1> HIDE DEF r
<1>6. Stage(r) /\ Handle(r, inode[r.inode])
  BY <1>1, <1>2, <1>3, <1>4, NoneAssumption DEF Stage, Handle
<1>7. Onward(p, r)
  BY <1>3, <1>4, <1>6 DEF Onward, Owns
<1>8. \A h \in 0 .. NR_IHASH - 1 : Looks(r, h) <=> Looks(proc[p], h)
  BY <1>1, <1>4 DEF Looks
<1> QED
  BY <1>1, <1>5, <1>7, <1>8, Silent

LEMMA IputEnter_Inv ==
    ASSUME IInv, NEW p \in Procs, IputEnter(p)
    PROVE  IInv'
<1> DEFINE r == At(p, "iput_repeat")
<1>1. /\ proc[p].pc = "iput" /\ p \notin update_wait /\ UNCHANGED <<tables, fs>>
  BY DEF IputEnter, Turn
<1>2. /\ proc[p] \in Places /\ Stage(proc[p])
      /\ proc[p].inode # None => Handle(proc[p], inode[proc[p].inode])
  BY There
<1>3. /\ proc[p].empty = None /\ proc[p].nr = 0 /\ proc[p].then = "none"
      /\ proc[p].inode \in Slots /\ Handle(proc[p], inode[proc[p].inode])
  BY <1>1, <1>2 DEF Stage, Places
<1>4. inode[proc[p].inode].count # 0
  BY <1>3, Held DEF Owns
<1>5. proc' = [proc EXCEPT ![p] = r]
  BY <1>4 DEF IputEnter, Continue
<1>6. /\ r \in Places /\ r.pc = "iput_repeat" /\ r.nr = 0 /\ r.inode = proc[p].inode
      /\ r.empty = None /\ r.then = "none"
  BY <1>2, <1>3 DEF Places, PCs, At
<1> HIDE DEF r
<1>7. Stage(r) /\ Handle(r, inode[r.inode])
  BY <1>1, <1>3, <1>6, NoneAssumption DEF Stage, Handle
<1>8. Onward(p, r)
  BY <1>3, <1>6, <1>7 DEF Onward, Owns
<1>9. \A h \in 0 .. NR_IHASH - 1 : Looks(r, h) <=> Looks(proc[p], h)
  BY <1>1, <1>6 DEF Looks
<1> QED
  BY <1>1, <1>5, <1>8, <1>9, Silent

LEMMA EmptyNone_Inv ==
    ASSUME IInv, NEW p \in Procs, EmptyNone(p)
    PROVE  IInv'
<1>1. /\ proc' = [proc EXCEPT ![p] = proc[p]] /\ proc[p].pc = "empty" /\ Unused = {}
      /\ p \notin update_wait
      /\ UNCHANGED <<table, inode, nr_free_inodes, updating, update_wait, fs>>
  BY DEF EmptyNone, MaySleep, Turn
<1>2. /\ proc[p] \in Places /\ Stage(proc[p])
  BY There
<1>3. proc[p].inode = None
  BY <1>1, <1>2 DEF Stage
<1>4. Onward(p, proc[p])
  BY <1>1, <1>2, <1>3 DEF Onward, Owns
<1>5. IputWakesSleepers'
  BY <1>1 DEF IputWakesSleepers, Unused
<1>6. Updates'
  <2>1. proc' = proc
    BY <1>1 DEF IInv, Types
  <2> QED
    BY <1>1, <2>1 DEF IInv, Updates, Looks
<1> QED
  BY <1>1, <1>4, <1>5, <1>6, Quiet

LEMMA HashType ==
    ASSUME NEW n \in Nat
    PROVE  hash(n) \in 0 .. NR_IHASH - 1
BY DEF hash

\* The count of a bucket follows the processes that look for room.
LEMMA UpdatesStep ==
    ASSUME IInv, NEW p \in Procs, Others(p), updating' \in [0 .. NR_IHASH - 1 -> Int],
           \A h \in 0 .. NR_IHASH - 1 :
               updating'[h] = updating[h] + (IF Looks(proc'[p], h) THEN 1 ELSE 0)
                                          - (IF Looks(proc[p], h) THEN 1 ELSE 0),
           \A q \in update_wait' : /\ q \in Procs /\ proc'[q].pc = "iget_return"
                                   /\ updating'[hash(proc'[q].nr)] > 0
    PROVE  Updates'
<1>1. ASSUME NEW h \in 0 .. NR_IHASH - 1
      PROVE  /\ updating'[h] \in Nat
             /\ updating'[h] = Cardinality({q \in Procs : Looks(proc'[q], h)})
  <2> DEFINE A == {q \in Procs : Looks(proc[q], h)}
             B == {q \in Procs : Looks(proc'[q], h)}
  <2>1. A \in SUBSET Procs /\ B \in SUBSET Procs
    OBVIOUS
  <2>2. \A q \in Procs : q # p => (q \in A <=> q \in B)
    BY DEF Others
  <2>3. (p \in A <=> Looks(proc[p], h)) /\ (p \in B <=> Looks(proc'[p], h))
    OBVIOUS
  <2>4. updating[h] = Cardinality(A)
    BY DEF IInv, Updates
  <2> HIDE DEF A, B
  <2>6. /\ Cardinality(A) \in Nat /\ Cardinality(B) \in Nat
        /\ Cardinality(B) = Cardinality(A) + (IF p \in B THEN 1 ELSE 0)
                                           - (IF p \in A THEN 1 ELSE 0)
    BY <2>1, <2>2, CardProcs
  <2>7. updating'[h] = Cardinality(B)
    BY <2>3, <2>4, <2>6
  <2> QED
    BY <2>6, <2>7 DEF B
<1>2. updating' \in [0 .. NR_IHASH - 1 -> Nat]
  BY <1>1
<1> QED
  BY <1>1, <1>2 DEF Updates

LEMMA IgetNoRoom_Inv ==
    ASSUME IInv, NEW p \in Procs, IgetNoRoom(p)
    PROVE  IInv'
<1>1. /\ proc[p].pc = "iget" /\ proc[p].empty = None /\ EnterEmpty(p, At(p, "empty"))
      /\ p \notin update_wait
      /\ updating' = [updating EXCEPT ![hash(proc[p].nr)] = @ + 1]
      /\ UNCHANGED <<table, inode, nr_free_inodes, inode_wait, update_wait, fs>>
  BY DEF IgetNoRoom, Turn
<1>2. /\ proc[p] \in Places /\ Stage(proc[p]) /\ proc[p].nr \in Inos \cup {0}
  BY There
<1>3. proc[p].inode = None /\ proc[p].nr \in Inos /\ proc[p].then = "none"
  BY <1>1, <1>2 DEF Stage, Places
<1>4. PICK r : /\ r \in {At(p, "empty"), [At(p, "empty") EXCEPT !.pc = "grow"]}
               /\ proc' = [proc EXCEPT ![p] = r]
  BY <1>1, Entered
<1>5. /\ r \in Places /\ r.pc \in {"empty", "grow"} /\ r.nr = proc[p].nr
      /\ r.inode = None /\ r.empty = None /\ r.then = "none"
  BY <1>1, <1>2, <1>3, <1>4 DEF Places, PCs, At
<1>6. Stage(r)
  BY <1>5 DEF Stage
<1>7. Onward(p, r)
  BY <1>1, <1>2, <1>3, <1>5, <1>6, NoneAssumption DEF Onward, Owns
<1>8. Others(p) /\ proc'[p] = r
  BY <1>4, <1>5, Moved
<1>9. Updates'
  <2>1. PICK k \in 0 .. NR_IHASH - 1 : k = hash(proc[p].nr)
    BY <1>3, HashType, InosAssumption
  <2>2. updating \in [0 .. NR_IHASH - 1 -> Nat]
    BY DEF IInv, Updates
  <2>3. /\ updating' \in [0 .. NR_IHASH - 1 -> Nat] /\ updating'[k] = updating[k] + 1
        /\ \A h \in 0 .. NR_IHASH - 1 : h # k => updating'[h] = updating[h]
    BY <1>1, <2>1, <2>2
  <2>4. \A h \in 0 .. NR_IHASH - 1 : (Looks(r, h) <=> h = k) /\ ~Looks(proc[p], h)
    BY <1>1, <1>3, <1>5, <2>1, InosAssumption DEF Looks
  <2>5. \A h \in 0 .. NR_IHASH - 1 :
               updating'[h] = updating[h] + (IF Looks(proc'[p], h) THEN 1 ELSE 0)
                                          - (IF Looks(proc[p], h) THEN 1 ELSE 0)
    BY <1>8, <2>2, <2>3, <2>4
  <2>6. ASSUME NEW q \in update_wait'
        PROVE  /\ q \in Procs /\ proc'[q].pc = "iget_return" /\ updating'[hash(proc'[q].nr)] > 0
    <3>1. /\ q \in Procs /\ proc[q].pc = "iget_return" /\ updating[hash(proc[q].nr)] > 0
          /\ proc'[q] = proc[q] /\ proc[q].nr \in Nat
      <4>1. /\ q \in Procs /\ proc[q].pc = "iget_return" /\ updating[hash(proc[q].nr)] > 0
        BY <1>1 DEF IInv, Updates
      <4>2. proc'[q] = proc[q]
        BY <1>1, <1>8, <4>1 DEF Others
      <4>3. proc[q].nr \in Nat
        BY <4>1, There
      <4> QED
        BY <4>1, <4>2, <4>3, Zenon
    <3>2. hash(proc[q].nr) \in 0 .. NR_IHASH - 1
      BY <3>1, HashType
    <3> QED
      BY <2>2, <2>3, <3>1, <3>2
  <2>7. updating' \in [0 .. NR_IHASH - 1 -> Int]
    BY <2>3
  <2> QED
    BY <1>8, <2>5, <2>6, <2>7, UpdatesStep
<1>10. IputWakesSleepers'
  BY <1>1 DEF IInv, IputWakesSleepers, Unused
<1> QED
  BY <1>1, <1>4, <1>7, <1>9, <1>10, Quiet

LEMMA IgetReturn_Inv ==
    ASSUME IInv, NEW p \in Procs, IgetReturn(p)
    PROVE  IInv'
<1>1. /\ proc[p].pc = "iget_return" /\ p \notin update_wait
      /\ UNCHANGED <<table, inode, nr_free_inodes, updating, inode_wait, fs>>
  BY DEF IgetReturn, Turn
<1>2. /\ proc[p] \in Places /\ Stage(proc[p])
      /\ proc[p].inode # None => Handle(proc[p], inode[proc[p].inode])
  BY There
<1>3. /\ proc[p].inode # None /\ proc[p].nr # 0 /\ proc[p].then = "none" /\ proc[p].empty = None
  BY <1>1, <1>2 DEF Stage, Places
<1>4. IputWakesSleepers'
  BY <1>1 DEF IInv, IputWakesSleepers, Unused
<1>5. CASE updating[hash(proc[p].nr)] > 0
  <2>1. proc' = [proc EXCEPT ![p] = proc[p]] /\ update_wait' = update_wait \cup {p}
    BY <1>5 DEF IgetReturn, MaySleep
  <2>2. proc' = proc
    BY <2>1 DEF IInv, Types
  <2>3. Updates'
    BY <1>1, <1>5, <2>1, <2>2 DEF IInv, Updates, Looks
  <2>4. Onward(p, proc[p])
    BY <1>1, <1>2 DEF Onward, Owns
  <2> QED
    BY <1>1, <1>4, <2>1, <2>3, <2>4, Quiet
<1>6. CASE ~(updating[hash(proc[p].nr)] > 0)
  <2> DEFINE r == At(p, "user")
  <2>1. proc' = [proc EXCEPT ![p] = r] /\ update_wait' = update_wait
    BY <1>6 DEF IgetReturn, MaySleep
  <2>2. /\ r \in Places /\ r.pc = "user" /\ r.nr = proc[p].nr /\ r.inode = proc[p].inode
        /\ r.empty = None /\ r.then = "none"
    BY <1>2, <1>3 DEF Places, PCs, At
  <2> HIDE DEF r
  <2>3. Stage(r) /\ Handle(r, inode[r.inode])
    BY <1>1, <1>2, <1>3, <2>2 DEF Stage, Handle
  <2>4. Onward(p, r)
    BY <1>3, <2>2, <2>3 DEF Onward, Owns
  <2>5. \A h \in 0 .. NR_IHASH - 1 : Looks(r, h) <=> Looks(proc[p], h)
    BY <1>1, <2>2 DEF Looks
  <2> QED
    BY <1>1, <2>1, <2>4, <2>5, Silent DEF tables
<1> QED
  BY <1>5, <1>6

-----------------------------------------------------------------------------
(* The actions that change an inode.                                       *)

LEMMA SetSlot ==
    ASSUME IInv, NEW s \in Slots, NEW v \in Inodes, inode' = [inode EXCEPT ![s] = v]
    PROVE  Rest(s) /\ inode'[s] = v
BY DEF IInv, Types, Rest

LEMMA FreeNat ==
    ASSUME IInv
    PROVE  nr_free_inodes \in Nat
<1>1. IsFiniteSet(Unused)
  <2>1. Unused \subseteq Slots /\ IsFiniteSet(Slots)
    BY FiniteAssumption DEF Unused, IInv, Types
  <2> QED
    BY <2>1, FS_Subset
<1> QED
  BY <1>1, FS_CardinalityType DEF IInv, FreeCount

\* Process p moves on to place r and turns inode s into v.
Acts(p, r, s, v) ==
    /\ r \in Places /\ proc' = [proc EXCEPT ![p] = r]
    /\ v \in Inodes /\ inode' = [inode EXCEPT ![s] = v]
    /\ \A t \in Slots : t # s => Ref(r, t) = Ref(proc[p], t)
    /\ v.count = inode[s].count + Ref(r, s) - Ref(proc[p], s)
    /\ nr_free_inodes' = nr_free_inodes + (IF v.count = 0 THEN 1 ELSE 0)
                                        - (IF inode[s].count = 0 THEN 1 ELSE 0)
    /\ inode_wait' = {} \/ (inode_wait' = inode_wait /\ (v.count # 0 \/ v.ino = 0))

LEMMA ActsCounts ==
    ASSUME IInv, NEW p \in Procs, NEW r, NEW s \in table, NEW v, Acts(p, r, s, v), table' = table
    PROVE  /\ Others(p) /\ proc'[p] = r /\ Rest(s) /\ inode'[s] = v /\ s \in Slots
           /\ \A t \in Slots : inode'[t].count = inode[t].count + Ref(proc'[p], t) - Ref(proc[p], t)
           /\ FreeCount' /\ IputWakesSleepers'
<1>0. s \in Slots /\ s # None
  BY NoneAssumption DEF IInv, Types
<1>1. Others(p) /\ proc'[p] = r /\ Rest(s) /\ inode'[s] = v
  BY <1>0, Moved, SetSlot DEF Acts
<1>2. ASSUME NEW t \in Slots
      PROVE  inode'[t].count = inode[t].count + Ref(proc'[p], t) - Ref(proc[p], t)
  <2>1. CASE t = s
    BY <1>1, <2>1 DEF Acts
  <2>2. CASE t # s
    <3>1. inode'[t] = inode[t]
      BY <1>1, <2>2 DEF Rest
    <3>3. inode[t].count \in Nat
      BY DEF IInv, Types, Inodes
    <3>2. Ref(proc'[p], t) = Ref(proc[p], t)
      BY <1>1, <2>2 DEF Acts
    <3>4. Ref(proc[p], t) \in Nat
      BY DEF Ref
    <3> QED
      BY <3>1, <3>2, <3>3, <3>4
  <2> QED
    BY <2>1, <2>2
<1>3. FreeCount'
  <2>1. nr_free_inodes' = nr_free_inodes
                + (IF s \in table /\ inode'[s].count = 0 THEN 1 ELSE 0)
                - (IF s \in table /\ inode[s].count = 0 THEN 1 ELSE 0)
    BY <1>1 DEF Acts
  <2> QED
    BY <1>1, <2>1, FreeKept
<1>4. IputWakesSleepers'
  <2>1. \/ inode_wait' = {}
        \/ /\ inode_wait' = inode_wait
           /\ s # None => inode'[s].count # 0 \/ inode'[s].ino = 0
    BY <1>1 DEF Acts
  <2> QED
    BY <1>0, <1>1, <2>1, WakesKept
<1> QED
  BY <1>0, <1>1, <1>2, <1>3, <1>4

LEMMA ActsInv ==
    ASSUME IInv, NEW p \in Procs, NEW r, NEW s \in Slots, NEW v, Acts(p, r, s, v),
           Sound(s), Standing(p)', Bystanders(p, s), Distinct(p),
           p \notin update_wait, \A h \in 0 .. NR_IHASH - 1 : Looks(r, h) <=> Looks(proc[p], h),
           UNCHANGED <<table, updating, update_wait, fs>>
    PROVE  IInv'
<1>1. s \in table
  BY NoneAssumption DEF Sound
<1>2. /\ Others(p) /\ proc'[p] = r /\ Rest(s) /\ inode'[s] = v /\ s \in Slots
      /\ \A t \in Slots : inode'[t].count = inode[t].count + Ref(proc'[p], t) - Ref(proc[p], t)
      /\ FreeCount' /\ IputWakesSleepers'
  BY <1>1, ActsCounts
<1>3. Updates'
  BY <1>2, UpdatesKept
<1> QED
  BY <1>2, <1>3, StepInv

LEMMA IgetFound_Inv ==
    ASSUME IInv, NEW p \in Procs, IgetFound(p), ~stale'
    PROVE  IInv'
<1>1. PICK s \in Found(proc[p].nr) :
        /\ Set(s, [inode[s] EXCEPT !.count = @ + 1])
        /\ nr_free_inodes' = nr_free_inodes - (IF inode[s].count = 0 THEN 1 ELSE 0)
        /\ WaitThen(p, AtWith(p, "iget_found", s), s)
        /\ ~Releasing(s)
  BY DEF IgetFound
<1>2. /\ proc[p].pc = "iget" /\ p \notin update_wait
      /\ UNCHANGED <<table, updating, inode_wait, update_wait, fs>>
  BY DEF IgetFound, Turn
<1>3. /\ proc[p] \in Places /\ Stage(proc[p]) /\ proc[p].nr \in Inos \cup {0}
      /\ proc[p].empty # None => inode[proc[p].empty] = Fresh
  BY There
<1>4. proc[p].inode = None /\ proc[p].nr # 0 /\ proc[p].then = "none"
  BY <1>2, <1>3 DEF Stage, Places
<1>5. s \in table /\ s \in Slots /\ s # None /\ inode[s].ino = proc[p].nr /\ inode[s] \in Inodes
  BY NoneAssumption DEF Found, IInv, Types
<1>6. PICK r : r = AtWith(p, "iget_found", s)
  OBVIOUS
<1>7. /\ r \in Places /\ r.pc = "iget_found" /\ r.nr = proc[p].nr /\ r.inode = s
      /\ r.empty = proc[p].empty /\ r.then = "none"
  BY <1>3, <1>4, <1>5, <1>6 DEF Places, PCs, AtWith
<1>8. PICK v : v = [inode[s] EXCEPT !.count = @ + 1]
  OBVIOUS
<1>9. /\ v \in Inodes /\ v.ino = inode[s].ino /\ v.count = inode[s].count + 1
      /\ v.nlink = inode[s].nlink /\ v.dirt = inode[s].dirt /\ v.lock = inode[s].lock
      /\ v.data = inode[s].data /\ inode[s].count \in Nat
  BY <1>5, <1>8 DEF Inodes
<1>10. proc[p].empty # s /\ \A q \in Procs : proc[q].empty # s
  BY <1>4, <1>5, Handed DEF Fresh
<1>11. proc' = [proc EXCEPT ![p] = r]
  BY <1>1, <1>6, Waited
<1>12. Acts(p, r, s, v)
  <2>1. \A t \in Slots : t # s => Ref(r, t) = Ref(proc[p], t)
    BY <1>4, <1>7, NoneAssumption DEF Ref
  <2>2. Ref(r, s) = 1 /\ Ref(proc[p], s) = 0
    BY <1>4, <1>5, <1>7, <1>10 DEF Ref
  <2>3. nr_free_inodes' = nr_free_inodes + (IF v.count = 0 THEN 1 ELSE 0)
                                        - (IF inode[s].count = 0 THEN 1 ELSE 0)
    <3>1. nr_free_inodes \in Nat
      BY FreeNat
    <3> QED
      BY <1>1, <1>9, <3>1
  <2> QED
    BY <1>1, <1>2, <1>7, <1>8, <1>9, <1>11, <2>1, <2>2, <2>3 DEF Acts, Set
<1>13. Others(p) /\ proc'[p] = r /\ inode'[s] = v /\ Rest(s)
  BY <1>2, <1>5, <1>12, ActsCounts
<1>14. Slot(inode[s])
  BY <1>5 DEF IInv
<1>15. Sound(s)
  <2>1. Slot(v)
    BY <1>9, <1>14 DEF Slot
  <2> QED
    BY <1>5, <1>9, <1>13, <2>1 DEF Sound
<1>16. ASSUME NEW q \in Procs, proc[q].inode = s PROVE ~Ending(q)
  BY <1>1, <1>16 DEF Ending, Releasing
<1>17. Bystanders(p, s)
  <2> SUFFICES ASSUME NEW q \in Procs, proc[q].inode = s PROVE Handle(proc[q], v)
    BY <1>10, <1>13 DEF Bystanders
  <2>1. Handle(proc[q], inode[s]) /\ ~Ending(q)
    BY <1>5, <1>16, There
  <2> QED
    BY <1>9, <2>1 DEF Handle, Ending
<1>18. Standing(p)'
  <2>1. Stage(r) /\ Handle(r, v)
    BY <1>3, <1>4, <1>5, <1>7, <1>9 DEF Stage, Handle
  <2>2. r.empty # None => inode'[r.empty] = Fresh
    <3>1. r.empty # None => r.empty \in Slots /\ r.empty # s
      BY <1>7, <1>10, There
    <3> QED
      BY <1>3, <1>7, <1>13, <3>1 DEF Rest
  <2> QED
    BY <1>7, <1>13, <2>1, <2>2 DEF Standing
<1>19. Distinct(p)
  <2> SUFFICES ASSUME NEW q \in Procs, q # p PROVE Apart(p, q)' /\ Apart(q, p)'
    BY DEF Distinct
  <2>1. Apart(p, q) /\ Apart(q, p) /\ proc'[q] = proc[q] /\ (proc[q].inode = s => ~Ending(q))
    BY <1>13, <1>16 DEF IInv, Others
  <2> QED
    BY <1>4, <1>7, <1>13, <2>1 DEF Apart, Owns, Locking, Ending
<1>20. \A h \in 0 .. NR_IHASH - 1 : Looks(r, h) <=> Looks(proc[p], h)
  BY <1>2, <1>7 DEF Looks
<1> QED
  BY <1>2, <1>5, <1>12, <1>15, <1>17, <1>18, <1>19, <1>20, ActsInv

LEMMA IgetInsert_Inv ==
    ASSUME IInv, NEW p \in Procs, IgetInsert(p), ~stale'
    PROVE  IInv'
<1>1. /\ proc[p].pc = "iget" /\ p \notin update_wait /\ Found(proc[p].nr) = {}
      /\ proc[p].empty # None /\ imap[proc[p].nr]
      /\ UNCHANGED <<table, nr_free_inodes, updating, inode_wait, update_wait, fs>>
  BY DEF IgetInsert, Turn
<1>2. /\ proc[p] \in Places /\ Stage(proc[p]) /\ proc[p].nr \in Inos \cup {0}
      /\ proc[p].empty \in Slots \cup {None}
  BY There
<1>3. /\ proc[p].inode = None /\ proc[p].nr \in Inos /\ proc[p].nr # 0 /\ proc[p].then = "none"
  BY <1>1, <1>2 DEF Stage, Places
<1>4. PICK s \in Slots : s = proc[p].empty
  BY <1>1, <1>2
<1>5. /\ inode[s] = Fresh /\ s \in table /\ s # None
      /\ \A q \in Procs : q # p => /\ proc[q].empty # s
                                   /\ proc[q].inode = s => /\ proc[q].then = "sync"
                                                           /\ ~Locking(q) /\ ~Ending(q)
  BY <1>4, Handed, NoneAssumption
<1>6. PICK r : r = [proc[p] EXCEPT !.pc = "iget_read", !.inode = s, !.empty = None]
  OBVIOUS
<1>7. /\ r \in Places /\ r.pc = "iget_read" /\ r.nr = proc[p].nr /\ r.inode = s
      /\ r.empty = None /\ r.then = "none"
  BY <1>2, <1>3, <1>4, <1>6 DEF Places, PCs
<1>8. PICK v : v = [inode[s] EXCEPT !.ino = proc[p].nr, !.lock = TRUE]
  OBVIOUS
<1>9. /\ v \in Inodes /\ v.ino = proc[p].nr /\ v.count = 1 /\ v.nlink = 1
      /\ ~v.dirt /\ v.lock /\ v.data = None
  <2>1. inode[s] \in Inodes
    BY DEF IInv, Types
  <2>2. /\ v \in Inodes /\ v.ino = proc[p].nr /\ v.lock /\ v.count = inode[s].count
        /\ v.nlink = inode[s].nlink /\ v.dirt = inode[s].dirt /\ v.data = inode[s].data
    BY <1>2, <1>8, <2>1 DEF Inodes
  <2> QED
    BY <1>5, <2>2 DEF Fresh
<1>10. proc' = [proc EXCEPT ![p] = r] /\ inode' = [inode EXCEPT ![s] = v]
  BY <1>4, <1>6, <1>8 DEF IgetInsert, Set, MaySleep
<1>11. inode[s].count = 1 /\ inode[s].ino = 0
  BY <1>5 DEF Fresh
<1>12. Acts(p, r, s, v)
  <2>1. \A t \in Slots : t # s => Ref(r, t) = Ref(proc[p], t)
    BY <1>3, <1>4, <1>7, NoneAssumption DEF Ref
  <2>2. Ref(r, s) = 1 /\ Ref(proc[p], s) = 1
    BY <1>3, <1>4, <1>5, <1>7 DEF Ref
  <2>3. nr_free_inodes \in Nat
    BY FreeNat
  <2> QED
    BY <1>1, <1>7, <1>9, <1>10, <1>11, <2>1, <2>2, <2>3 DEF Acts
<1>13. Others(p) /\ proc'[p] = r /\ inode'[s] = v /\ Rest(s)
  BY <1>1, <1>5, <1>12, ActsCounts
<1>14. Sound(s)
  <2>2. Slot(v)
    BY <1>1, <1>3, <1>9 DEF Slot
  <2>3. \A t \in Slots : t # s => inode[t].ino # v.ino
    <3>1. \A t \in table : inode[t].ino # proc[p].nr
      BY <1>1 DEF Found
    <3>2. \A t \in Slots \ table : inode[t].ino = 0
      BY DEF IInv, Outside, Cleared
    <3> QED
      BY <1>3, <1>9, <3>1, <3>2
  <2> QED
    BY <1>5, <1>11, <1>13, <2>2, <2>3 DEF Sound
<1>15. Bystanders(p, s)
  <2> SUFFICES ASSUME NEW q \in Procs, q # p, proc[q].inode = s PROVE Handle(proc[q], v)
    BY <1>5, <1>13 DEF Bystanders
  <2> QED
    BY <1>5 DEF Handle, Locking, Ending
<1>16. Standing(p)'
  <2>1. Stage(r) /\ Handle(r, v)
    BY <1>3, <1>5, <1>7, <1>9 DEF Stage, Handle
  <2> QED
    BY <1>7, <1>13, <2>1 DEF Standing
<1>17. Distinct(p)
  <2> SUFFICES ASSUME NEW q \in Procs, q # p PROVE Apart(p, q)' /\ Apart(q, p)'
    BY DEF Distinct
  <2>1. /\ Apart(p, q) /\ Apart(q, p) /\ proc'[q] = proc[q]
        /\ proc[q].inode = s => ~Ending(q) /\ ~Locking(q)
    BY <1>5, <1>13 DEF IInv, Others
  <2> QED
    BY <1>7, <1>13, <2>1 DEF Apart, Owns, Locking, Ending
<1>18. \A h \in 0 .. NR_IHASH - 1 : Looks(r, h) <=> Looks(proc[p], h)
  BY <1>1, <1>7 DEF Looks
<1> QED
  BY <1>1, <1>12, <1>14, <1>15, <1>16, <1>17, <1>18, ActsInv

\* A change of an inode that has a reference, by a process that keeps its own.
LEMMA TouchInv ==
    ASSUME IInv, NEW p \in Procs, NEW r \in Places, NEW s \in Slots, NEW v \in Inodes,
           proc' = [proc EXCEPT ![p] = r], inode' = [inode EXCEPT ![s] = v],
           v.count = inode[s].count, v.count # 0, v.ino = inode[s].ino,
           inode[s].data # None => v.data # None,
           \A t \in Slots : Ref(r, t) = Ref(proc[p], t),
           Slot(v), Standing(p)', Bystanders(p, s), Distinct(p),
           p \notin update_wait, \A h \in 0 .. NR_IHASH - 1 : Looks(r, h) <=> Looks(proc[p], h),
           UNCHANGED <<table, nr_free_inodes, updating, inode_wait, update_wait, fs>>
    PROVE  IInv'
<1>1. s \in table
  BY InTable
<1>2. inode'[s] = v
  BY SetSlot
<1>3. Acts(p, r, s, v)
  <2>1. nr_free_inodes \in Nat /\ Ref(proc[p], s) \in Nat /\ inode[s].count \in Nat
    BY FreeNat DEF Ref, IInv, Types, Inodes
  <2>2. v.count = inode[s].count + Ref(r, s) - Ref(proc[p], s)
    BY <2>1
  <2>3. nr_free_inodes' = nr_free_inodes + (IF v.count = 0 THEN 1 ELSE 0)
                                        - (IF inode[s].count = 0 THEN 1 ELSE 0)
    BY <2>1
  <2> QED
    BY <2>2, <2>3 DEF Acts
<1>4. Sound(s)
  BY <1>1, <1>2 DEF Sound
<1> QED
  BY <1>3, <1>4, ActsInv

\* A process that goes on at label l, with the same variables.
LEMMA AtPlace ==
    ASSUME NEW p \in Procs, proc[p] \in Places, NEW l \in PCs
    PROVE  /\ At(p, l) \in Places /\ At(p, l).pc = l /\ At(p, l).nr = proc[p].nr
           /\ At(p, l).inode = proc[p].inode /\ At(p, l).empty = proc[p].empty
           /\ At(p, l).then = proc[p].then
BY DEF Places, At

LEMMA ReadInode_Inv ==
    ASSUME IInv, NEW p \in Procs, read_inode(p)
    PROVE  IInv'
<1>1. /\ proc[p].pc = "iget_read" /\ p \notin update_wait
      /\ UNCHANGED <<table, nr_free_inodes, updating, inode_wait, update_wait, fs>>
  BY DEF read_inode, Turn
<1>2. /\ proc[p] \in Places /\ Stage(proc[p]) /\ proc[p].inode \in Slots \cup {None}
  BY There
<1>3. /\ proc[p].inode # None /\ proc[p].nr # 0 /\ proc[p].then = "none" /\ proc[p].empty = None
  BY <1>1, <1>2 DEF Stage, Places
<1>4. PICK s \in Slots : s = proc[p].inode
  BY <1>2, <1>3
<1>5. /\ Handle(proc[p], inode[s]) /\ inode[s].count >= 1 /\ inode[s].count \in Nat
      /\ \A q \in Procs : proc[q].empty # s
  BY <1>3, <1>4, Held DEF Owns
<1>6. /\ inode[s].ino = proc[p].nr /\ inode[s].ino # 0 /\ inode[s].lock /\ inode[s].data = None
      /\ ~inode[s].dirt /\ inode[s] \in Inodes /\ inode[s].ino \in Inos
  <2>1. inode[s] \in Inodes
    BY DEF IInv, Types
  <2>2. inode[s].ino \in Inos \cup {0}
    BY <2>1 DEF Inodes
  <2> QED
    BY <1>1, <1>3, <1>5, <2>1, <2>2 DEF Handle
<1>7. PICK raw : raw = disk[inode[s].ino]
  OBVIOUS
<1>8. raw.nlink \in {0, 1} /\ raw.data \in Contents /\ raw = [nlink |-> raw.nlink, data |-> raw.data]
  BY <1>6, <1>7 DEF IInv, Types
<1>9. PICK r : r = At(p, "iget_return")
  OBVIOUS
<1>10. /\ r \in Places /\ r.pc = "iget_return" /\ r.nr = proc[p].nr /\ r.inode = s
       /\ r.empty = None /\ r.then = "none"
  BY <1>2, <1>3, <1>4, <1>9, AtPlace DEF PCs
<1>11. PICK v : v = [inode[s] EXCEPT !.data = raw.data, !.nlink = raw.nlink, !.lock = FALSE]
  OBVIOUS
<1>12. /\ v \in Inodes /\ v.ino = inode[s].ino /\ v.count = inode[s].count /\ v.nlink = raw.nlink
       /\ v.dirt = inode[s].dirt /\ ~v.lock /\ v.data = raw.data
  BY <1>6, <1>8, <1>11 DEF Inodes
<1>13. v.data # None
  BY <1>8, <1>12, NoneAssumption
<1>14. proc' = [proc EXCEPT ![p] = r] /\ inode' = [inode EXCEPT ![s] = v]
  BY <1>4, <1>7, <1>9, <1>11 DEF read_inode, Set, Continue
<1>15. Others(p) /\ proc'[p] = r /\ Rest(s) /\ inode'[s] = v
  BY <1>10, <1>12, <1>14, Moved, SetSlot, ZenonT(40)
<1>16. Slot(v)
  <2>1. Slot(inode[s])
    BY DEF IInv
  <2>2. Number(v.ino)
    BY <1>6, <1>12 DEF IInv
  <2>3. raw.nlink = 0 => ~dir[v.ino]
    <3>1. \A t \in Slots : inode[t].ino = v.ino => t = s
      BY <1>6, <1>12 DEF IInv, OneCopy
    <3> QED
      BY <1>6, <1>7, <1>12, <2>2, <3>1 DEF Number
  <2> QED
    BY <1>5, <1>6, <1>7, <1>8, <1>12, <1>13, <2>1, <2>3 DEF Slot
<1>17. Bystanders(p, s)
  <2> SUFFICES ASSUME NEW q \in Procs, q # p, proc[q].inode = s PROVE Handle(proc[q], v)
    BY <1>5, <1>15 DEF Bystanders
  <2>1. Stage(proc[q]) /\ Handle(proc[q], inode[s])
    BY There, NoneAssumption
  <2>2. ~Locking(q)
    BY <1>1, <1>4 DEF IInv, Apart, Locking
  <2>3. proc[q].pc = "iget_found" \/ proc[q].then = "sync"
    BY <1>6, <2>1, <2>2 DEF Handle, Locking
  <2> QED
    BY <1>12, <2>1, <2>2, <2>3 DEF Handle, Stage, Locking
<1>18. Standing(p)'
  <2>1. Stage(r) /\ Handle(r, v)
    BY <1>3, <1>4, <1>6, <1>10, <1>12, <1>13 DEF Stage, Handle
  <2> QED
    BY <1>10, <1>15, <2>1 DEF Standing
<1>19. Distinct(p)
  <2>1. Modest(p)
    BY <1>3, <1>4, <1>10, <1>15 DEF Modest, Owns, Locking, Ending
  <2> QED
    BY <1>15, <2>1, ModestDistinct
<1>20. \A h \in 0 .. NR_IHASH - 1 : Looks(r, h) <=> Looks(proc[p], h)
  BY <1>1, <1>10 DEF Looks
<1>21. \A t \in Slots : Ref(r, t) = Ref(proc[p], t)
  BY <1>3, <1>4, <1>10 DEF Ref
<1>22. v.count # 0
  BY <1>5, <1>12
<1> QED
  BY <1>1, <1>6, <1>10, <1>12, <1>14, <1>16, <1>17, <1>18, <1>19, <1>20, <1>21, <1>22, TouchInv

LEMMA WriteInode_Inv ==
    ASSUME IInv, NEW p \in Procs, write_inode(p)
    PROVE  IInv'
<1>1. /\ proc[p].pc = "write" /\ p \notin update_wait /\ ~inode[proc[p].inode].lock
      /\ UNCHANGED <<table, nr_free_inodes, updating, inode_wait, update_wait, fs>>
  BY DEF write_inode, Turn
<1>2. /\ proc[p] \in Places /\ Stage(proc[p]) /\ proc[p].inode \in Slots \cup {None}
      /\ proc[p].inode # None => Handle(proc[p], inode[proc[p].inode])
  BY There
<1>3. proc[p].inode # None /\ proc[p].nr = 0 /\ proc[p].then # "none" /\ proc[p].empty = None
  BY <1>1, <1>2 DEF Stage, Places
<1>4. PICK s \in Slots : s = proc[p].inode
  BY <1>2, <1>3
<1>5. inode[s] \in Inodes /\ Slot(inode[s]) /\ Handle(proc[p], inode[s])
  BY <1>2, <1>3, <1>4 DEF IInv, Types
<1>6. CASE ~inode[s].dirt
  <2>1. PICK r : r = At(p, "written")
    OBVIOUS
  <2>2. proc' = [proc EXCEPT ![p] = r] /\ UNCHANGED inode
    BY <1>4, <1>6, <2>1 DEF write_inode, Continue
  <2>3. /\ r \in Places /\ r.pc = "written" /\ r.nr = 0 /\ r.inode = s
        /\ r.empty = None /\ r.then = proc[p].then
    BY <1>2, <1>3, <1>4, <2>1, AtPlace DEF PCs
  <2>4. Stage(r) /\ Handle(r, inode[s])
    BY <1>1, <1>3, <1>5, <2>3, NoneAssumption DEF Stage, Handle
  <2>5. Onward(p, r)
    BY <1>3, <1>4, <2>3, <2>4 DEF Onward, Owns
  <2>6. \A h \in 0 .. NR_IHASH - 1 : Looks(r, h) <=> Looks(proc[p], h)
    BY <1>1, <2>3 DEF Looks
  <2> QED
    BY <1>1, <2>2, <2>5, <2>6, Silent DEF tables
<1>7. CASE inode[s].dirt
  <2>1. PICK r : r = At(p, "writing")
    OBVIOUS
  <2>2. PICK v : v = [inode[s] EXCEPT !.lock = TRUE]
    OBVIOUS
  <2>3. proc' = [proc EXCEPT ![p] = r] /\ inode' = [inode EXCEPT ![s] = v]
    BY <1>4, <1>7, <2>1, <2>2 DEF write_inode, Set, MaySleep
  <2>4. /\ r \in Places /\ r.pc = "writing" /\ r.nr = 0 /\ r.inode = s
        /\ r.empty = None /\ r.then = proc[p].then
    BY <1>2, <1>3, <1>4, <2>1, AtPlace DEF PCs
  <2>5. /\ v \in Inodes /\ v.ino = inode[s].ino /\ v.count = inode[s].count
        /\ v.nlink = inode[s].nlink /\ v.dirt = inode[s].dirt /\ v.lock /\ v.data = inode[s].data
    BY <1>5, <2>2 DEF Inodes
  <2>6. inode[s].ino # 0 /\ inode[s].data # None /\ inode[s].count # 0
    BY <1>5, <1>7 DEF Slot
  <2>7. Others(p) /\ proc'[p] = r /\ Rest(s) /\ inode'[s] = v
    BY <2>3, <2>4, <2>5, Moved, SetSlot, ZenonT(40)
  <2>8. Slot(v)
    BY <1>5, <2>5, <2>6 DEF Slot
  <2>9. \A q \in Procs : proc[q].inode = s => ~Locking(q) /\ Handle(proc[q], inode[s])
    <3> SUFFICES ASSUME NEW q \in Procs, proc[q].inode = s
                 PROVE  ~Locking(q) /\ Handle(proc[q], inode[s])
      OBVIOUS
    <3>1. Handle(proc[q], inode[s])
      BY There, NoneAssumption
    <3> QED
      BY <1>1, <1>4, <3>1 DEF Handle, Locking
  <2>10. \A q \in Procs : proc[q].empty # s
    <3> SUFFICES ASSUME NEW q \in Procs, proc[q].empty = s PROVE FALSE
      OBVIOUS
    <3>1. inode[s] = Fresh
      BY There, NoneAssumption
    <3> QED
      BY <1>7, <3>1 DEF Fresh
  <2>11. Bystanders(p, s)
    <3> SUFFICES ASSUME NEW q \in Procs, proc[q].inode = s PROVE Handle(proc[q], v)
      BY <2>7, <2>10 DEF Bystanders
    <3> QED
      BY <2>5, <2>9 DEF Handle, Locking
  <2>12. Standing(p)'
    <3>1. Stage(r) /\ Handle(r, v)
      BY <1>1, <1>3, <1>4, <1>5, <2>4, <2>5, <2>6 DEF Stage, Handle
    <3> QED
      BY <2>4, <2>7, <3>1 DEF Standing
  <2>13. Distinct(p)
    <3> SUFFICES ASSUME NEW q \in Procs, q # p PROVE Apart(p, q)' /\ Apart(q, p)'
      BY DEF Distinct
    <3>1. /\ Apart(p, q) /\ Apart(q, p) /\ proc'[q] = proc[q]
          /\ proc[q].inode = s => ~Locking(q)
      BY <2>7, <2>9 DEF IInv, Others
    <3> QED
      BY <1>3, <1>4, <2>4, <2>7, <3>1 DEF Apart, Owns, Locking, Ending
  <2>14. \A h \in 0 .. NR_IHASH - 1 : Looks(r, h) <=> Looks(proc[p], h)
    BY <1>1, <2>4 DEF Looks
  <2>15. \A t \in Slots : Ref(r, t) = Ref(proc[p], t)
    BY <1>3, <1>4, <2>4 DEF Ref
  <2>16. v.count # 0
    BY <2>5, <2>6
  <2> QED
    BY <1>1, <2>3, <2>4, <2>5, <2>8, <2>11, <2>12, <2>13, <2>14, <2>15, <2>16, TouchInv
<1> QED
  BY <1>6, <1>7

LEMMA UnlockInode_Inv ==
    ASSUME IInv, NEW p \in Procs, unlock_inode(p)
    PROVE  IInv'
<1>1. /\ proc[p].pc = "unlock" /\ p \notin update_wait
      /\ UNCHANGED <<table, nr_free_inodes, updating, inode_wait, update_wait, fs>>
  BY DEF unlock_inode, Turn
<1>2. /\ proc[p] \in Places /\ Stage(proc[p]) /\ proc[p].inode \in Slots \cup {None}
      /\ proc[p].inode # None => Handle(proc[p], inode[proc[p].inode])
  BY There
<1>3. proc[p].inode # None /\ proc[p].nr = 0 /\ proc[p].then # "none" /\ proc[p].empty = None
  BY <1>1, <1>2 DEF Stage, Places
<1>4. PICK s \in Slots : s = proc[p].inode
  BY <1>2, <1>3
<1>5. inode[s] \in Inodes /\ Slot(inode[s]) /\ Handle(proc[p], inode[s])
  BY <1>2, <1>3, <1>4 DEF IInv, Types
<1>6. /\ inode[s].lock /\ inode[s].ino # 0 /\ inode[s].data # None /\ inode[s].count # 0
  BY <1>1, <1>5 DEF Handle, Slot
<1>7. PICK r : r = At(p, "written")
  OBVIOUS
<1>8. PICK v : v = [inode[s] EXCEPT !.lock = FALSE]
  OBVIOUS
<1>9. proc' = [proc EXCEPT ![p] = r] /\ inode' = [inode EXCEPT ![s] = v]
  BY <1>4, <1>7, <1>8 DEF unlock_inode, Set, Continue
<1>10. /\ r \in Places /\ r.pc = "written" /\ r.nr = 0 /\ r.inode = s
       /\ r.empty = None /\ r.then = proc[p].then
  BY <1>2, <1>3, <1>4, <1>7, AtPlace DEF PCs
<1>11. /\ v \in Inodes /\ v.ino = inode[s].ino /\ v.count = inode[s].count
       /\ v.nlink = inode[s].nlink /\ v.dirt = inode[s].dirt /\ ~v.lock /\ v.data = inode[s].data
  BY <1>5, <1>8 DEF Inodes
<1>12. Others(p) /\ proc'[p] = r /\ Rest(s) /\ inode'[s] = v
  <2>1. r \in Places /\ v \in Inodes
    BY <1>10, <1>11
  <2>2. Others(p) /\ proc'[p] = r
    BY <1>9, <2>1, Moved
  <2>3. Rest(s) /\ inode'[s] = v
    BY <1>9, <2>1, SetSlot
  <2> QED
    BY <2>2, <2>3
<1>13. Slot(v)
  BY <1>5, <1>6, <1>11 DEF Slot
<1>14. \A q \in Procs : proc[q].empty # s
  <2> SUFFICES ASSUME NEW q \in Procs, proc[q].empty = s PROVE FALSE
    OBVIOUS
  <2>1. inode[s] = Fresh
    BY There, NoneAssumption
  <2> QED
    BY <1>6, <2>1 DEF Fresh
<1>15. Bystanders(p, s)
  <2> SUFFICES ASSUME NEW q \in Procs, q # p, proc[q].inode = s PROVE Handle(proc[q], v)
    BY <1>12, <1>14 DEF Bystanders
  <2>1. Handle(proc[q], inode[s])
    BY There, NoneAssumption
  <2>2. ~Locking(q)
    BY <1>1, <1>4 DEF IInv, Apart, Locking
  <2> QED
    BY <1>11, <2>1, <2>2 DEF Handle, Locking
<1>16. Standing(p)'
  <2>1. Stage(r) /\ Handle(r, v)
    BY <1>1, <1>3, <1>4, <1>5, <1>6, <1>10, <1>11 DEF Stage, Handle
  <2> QED
    BY <1>10, <1>12, <2>1 DEF Standing
<1>17. Distinct(p)
  <2>1. Modest(p)
    BY <1>3, <1>4, <1>10, <1>12 DEF Modest, Owns, Locking, Ending
  <2> QED
    BY <1>12, <2>1, ModestDistinct
<1>18. \A h \in 0 .. NR_IHASH - 1 : Looks(r, h) <=> Looks(proc[p], h)
  BY <1>1, <1>10 DEF Looks
<1>19. \A t \in Slots : Ref(r, t) = Ref(proc[p], t)
  BY <1>3, <1>4, <1>10 DEF Ref
<1>20. v.count # 0
  BY <1>6, <1>11
<1> QED
  BY <1>1, <1>9, <1>10, <1>11, <1>13, <1>15, <1>16, <1>17, <1>18, <1>19, <1>20, TouchInv

\* The owner of an inode that has been read marks it dirty, with or without
\* new contents.
LEMMA DirtyInv ==
    ASSUME IInv, NEW p \in Procs, NEW r \in Places, NEW s \in Slots, NEW v \in Inodes,
           Owns(p, s), inode[s].data # None, proc' = [proc EXCEPT ![p] = r],
           inode' = [inode EXCEPT ![s] = v], v.ino = inode[s].ino, v.count = inode[s].count,
           v.nlink = inode[s].nlink, v.dirt, v.lock = inode[s].lock, v.data # None,
           r.nr = proc[p].nr, r.inode = s, r.then = proc[p].then, r.empty = proc[p].empty,
           Stage(r), Handle(r, v), Modest(p) \/ Distinct(p),
           p \notin update_wait, \A h \in 0 .. NR_IHASH - 1 : Looks(r, h) <=> Looks(proc[p], h),
           UNCHANGED <<table, nr_free_inodes, updating, inode_wait, update_wait, fs>>
    PROVE  IInv'
<1>1. /\ inode[s].ino # 0 /\ inode[s].count \in Nat /\ inode[s].count >= 1
      /\ \A q \in Procs : proc[q].empty # s
  BY Held
<1>2. Others(p) /\ proc'[p] = r /\ Rest(s) /\ inode'[s] = v
  BY Moved, SetSlot
<1>3. Slot(v)
  <2>1. Slot(inode[s])
    BY DEF IInv
  <2>2. v.count # 0
    BY <1>1
  <2> QED
    BY <1>1, <2>1, <2>2 DEF Slot
<1>4. Bystanders(p, s)
  <2> SUFFICES ASSUME NEW q \in Procs, proc[q].inode = s PROVE Handle(proc[q], v)
    BY <1>1, <1>2 DEF Bystanders
  <2>1. Handle(proc[q], inode[s])
    BY There, NoneAssumption
  <2> QED
    BY <2>1 DEF Handle
<1>5. Standing(p)'
  <2>1. r.empty # None => inode'[r.empty] = Fresh
    <3>1. r.empty # None => r.empty \in Slots /\ r.empty # s /\ inode[r.empty] = Fresh
      BY <1>1, There
    <3> QED
      BY <1>2, <3>1 DEF Rest
  <2> QED
    BY <1>2, <2>1 DEF Standing
<1>6. Distinct(p)
  BY <1>2, ModestDistinct
<1>7. \A t \in Slots : Ref(r, t) = Ref(proc[p], t)
  BY DEF Ref, Owns
<1>8. v.count # 0
  BY <1>1
<1> QED
  BY <1>3, <1>4, <1>5, <1>6, <1>7, <1>8, TouchInv

LEMMA Change_Inv ==
    ASSUME IInv, NEW p \in Procs, NEW c \in Contents, Change(p, c)
    PROVE  IInv'
<1>1. /\ proc[p].pc = "user" /\ p \notin update_wait /\ proc[p].inode # None
      /\ UNCHANGED <<table, nr_free_inodes, updating, inode_wait, update_wait, fs>>
  BY DEF Change, Turn
<1>2. /\ proc[p] \in Places /\ Stage(proc[p]) /\ proc[p].inode \in Slots \cup {None}
      /\ proc[p].inode # None => Handle(proc[p], inode[proc[p].inode])
  BY There
<1>3. proc[p].then = "none" /\ proc[p].empty = None
  BY <1>1, <1>2 DEF Stage, Places
<1>4. PICK s \in Slots : s = proc[p].inode
  BY <1>1, <1>2
<1>5. inode[s] \in Inodes /\ Handle(proc[p], inode[s])
  BY <1>1, <1>2, <1>4 DEF IInv, Types
<1>6. inode[s].data # None /\ Owns(p, s)
  BY <1>1, <1>3, <1>4, <1>5 DEF Handle, Owns
<1>7. PICK v : v = [inode[s] EXCEPT !.data = c, !.dirt = TRUE]
  OBVIOUS
<1>8. proc' = [proc EXCEPT ![p] = proc[p]] /\ inode' = [inode EXCEPT ![s] = v]
  BY <1>4, <1>7 DEF Change, Set, MaySleep
<1>9. /\ v \in Inodes /\ v.ino = inode[s].ino /\ v.count = inode[s].count
      /\ v.nlink = inode[s].nlink /\ v.dirt /\ v.lock = inode[s].lock /\ v.data = c
  BY <1>5, <1>7 DEF Inodes
<1>10. v.data # None
  BY <1>9, NoneAssumption
<1>11. Handle(proc[p], v)
  BY <1>1, <1>5, <1>9, <1>10 DEF Handle
<1>12. Modest(p)
  BY <1>2, <1>8, Moved DEF Modest, Locking, Ending, Owns
<1> QED
  BY <1>1, <1>2, <1>4, <1>6, <1>8, <1>9, <1>10, <1>11, <1>12, DirtyInv

LEMMA PutInode_Inv ==
    ASSUME IInv, NEW p \in Procs, put_inode(p)
    PROVE  IInv'
<1>1. /\ proc[p].pc = "put_inode" /\ p \notin update_wait
      /\ UNCHANGED <<table, nr_free_inodes, updating, inode_wait, update_wait, fs>>
  BY DEF put_inode, Turn
<1>2. /\ proc[p] \in Places /\ Stage(proc[p]) /\ proc[p].inode \in Slots \cup {None}
      /\ proc[p].inode # None => Handle(proc[p], inode[proc[p].inode])
  BY There
<1>3. proc[p].inode # None /\ proc[p].then = "none" /\ proc[p].empty = None /\ proc[p].nr = 0
  BY <1>1, <1>2 DEF Stage, Places
<1>4. PICK s \in Slots : s = proc[p].inode
  BY <1>2, <1>3
<1>5. inode[s] \in Inodes /\ Handle(proc[p], inode[s])
  BY <1>2, <1>3, <1>4 DEF IInv, Types
<1>6. /\ inode[s].data # None /\ Owns(p, s) /\ inode[s].count = 1 /\ inode[s].nlink = 0
      /\ inode[s].ino # 0
  BY <1>1, <1>3, <1>4, <1>5 DEF Handle, Owns
<1>7. PICK v : v = [inode[s] EXCEPT !.dirt = TRUE]
  OBVIOUS
<1>8. PICK r : r = At(p, "clear")
  OBVIOUS
<1>9. proc' = [proc EXCEPT ![p] = r] /\ inode' = [inode EXCEPT ![s] = v]
  <2>1. WaitThen(p, r, s) /\ Set(s, v)
    BY <1>4, <1>6, <1>7, <1>8 DEF put_inode
  <2> QED
    BY <2>1, Waited DEF Set
<1>10. /\ v \in Inodes /\ v.ino = inode[s].ino /\ v.count = inode[s].count
       /\ v.nlink = inode[s].nlink /\ v.dirt /\ v.lock = inode[s].lock /\ v.data = inode[s].data
  BY <1>5, <1>7 DEF Inodes
<1>11. /\ r \in Places /\ r.pc = "clear" /\ r.nr = 0 /\ r.inode = s
       /\ r.empty = None /\ r.then = "none"
  BY <1>2, <1>3, <1>4, <1>8, AtPlace DEF PCs
<1>12. Stage(r) /\ Handle(r, v)
  BY <1>6, <1>10, <1>11, NoneAssumption DEF Stage, Handle
<1>13. Modest(p)
  BY <1>1, <1>3, <1>4, <1>9, <1>11, Moved DEF Modest, Locking, Ending, Owns
<1>14. \A h \in 0 .. NR_IHASH - 1 : Looks(r, h) <=> Looks(proc[p], h)
  BY <1>1, <1>11 DEF Looks
<1>15. r.nr = proc[p].nr /\ r.then = proc[p].then /\ r.empty = proc[p].empty /\ v.data # None
  BY <1>3, <1>6, <1>10, <1>11
<1> QED
  BY <1>1, <1>6, <1>9, <1>10, <1>11, <1>12, <1>13, <1>14, <1>15, DirtyInv

\* The unneeded inode is put: it becomes unused.
LEMMA PutEmptyInv ==
    ASSUME IInv, NEW p \in Procs, NEW r \in Places, NEW e \in Slots, proc[p].empty = e,
           proc' = [proc EXCEPT ![p] = r], inode' = PutEmpty(e),
           nr_free_inodes' = nr_free_inodes + 1, inode_wait' = {},
           UNCHANGED <<table, updating, update_wait, fs>>,
           r.empty = None, r.inode = proc[p].inode, r.then = "none", proc[p].then = "none",
           Stage(r), r.inode # None => Handle(r, inode[r.inode]),
           r.pc \notin {"iget_read", "writing", "unlock", "put_inode", "clear"},
           p \notin update_wait, \A h \in 0 .. NR_IHASH - 1 : Looks(r, h) <=> Looks(proc[p], h)
    PROVE  IInv'
<1>1. /\ inode[e] = Fresh /\ e \in table /\ e # None /\ \A q \in Procs : ~Owns(q, e)
      /\ \A q \in Procs : q # p => /\ proc[q].empty # e
                                   /\ proc[q].inode = e => /\ proc[q].then = "sync"
                                                           /\ ~Locking(q) /\ ~Ending(q)
  BY Handed, NoneAssumption
<1>2. PICK v : v = [inode[e] EXCEPT !.count = @ - 1]
  OBVIOUS
<1>3. /\ v \in Inodes /\ v.ino = 0 /\ v.count = 0 /\ v.nlink = 1
      /\ ~v.dirt /\ ~v.lock /\ v.data = None
  <2>1. inode[e] \in Inodes
    BY DEF IInv, Types
  <2>2. inode[e].count = 1
    BY <1>1 DEF Fresh
  <2>3. /\ v \in Inodes /\ v.ino = inode[e].ino /\ v.lock = inode[e].lock /\ v.count = 0
        /\ v.nlink = inode[e].nlink /\ v.dirt = inode[e].dirt /\ v.data = inode[e].data
    BY <1>2, <2>1, <2>2 DEF Inodes
  <2> QED
    BY <1>1, <2>3 DEF Fresh
<1>4. inode' = [inode EXCEPT ![e] = v]
  BY <1>2 DEF PutEmpty
<1>5. Acts(p, r, e, v)
  <2>1. \A t \in Slots : t # e => Ref(r, t) = Ref(proc[p], t)
    BY NoneAssumption DEF Ref
  <2>2. Ref(r, e) = 0 /\ Ref(proc[p], e) = 1
    BY <1>1 DEF Ref, Owns
  <2>3. nr_free_inodes \in Nat /\ inode[e].count = 1
    BY <1>1, FreeNat DEF Fresh
  <2> QED
    BY <1>3, <1>4, <2>1, <2>2, <2>3 DEF Acts
<1>6. Others(p) /\ proc'[p] = r /\ inode'[e] = v /\ Rest(e)
  BY <1>1, <1>5, ActsCounts
<1>7. Sound(e)
  <2>1. Slot(v) /\ inode[e].ino = 0
    BY <1>1, <1>3 DEF Slot, Fresh
  <2> QED
    BY <1>1, <1>3, <1>6, <2>1 DEF Sound
<1>8. Bystanders(p, e)
  <2> SUFFICES ASSUME NEW q \in Procs, q # p, proc[q].inode = e PROVE Handle(proc[q], v)
    BY <1>1, <1>6 DEF Bystanders
  <2> QED
    BY <1>1 DEF Handle, Locking, Ending
<1>9. Standing(p)'
  <2>1. r.inode # None => Handle(r, inode'[r.inode])
    <3>1. r.inode # None => r.inode \in Slots /\ r.inode # e
      BY <1>1, There DEF Owns
    <3> QED
      BY <1>6, <3>1 DEF Rest
  <2> QED
    BY <1>6, <2>1 DEF Standing
<1>10. Distinct(p)
  <2>1. Modest(p)
    BY <1>6 DEF Modest, Owns, Locking, Ending
  <2> QED
    BY <1>6, <2>1, ModestDistinct
<1> QED
  BY <1>5, <1>7, <1>8, <1>9, <1>10, ActsInv

LEMMA IgetRecheck_Inv ==
    ASSUME IInv, NEW p \in Procs, IgetRecheck(p)
    PROVE  IInv'
<1>1. /\ proc[p].pc = "iget_found" /\ p \notin update_wait /\ ~inode[proc[p].inode].lock
      /\ UNCHANGED fs
  BY DEF IgetRecheck, Turn
<1>2. /\ proc[p] \in Places /\ Stage(proc[p]) /\ proc[p].inode \in Slots \cup {None}
      /\ proc[p].inode # None => Handle(proc[p], inode[proc[p].inode])
      /\ proc[p].empty \in Slots \cup {None}
  BY There
<1>3. proc[p].inode # None /\ proc[p].then = "none" /\ proc[p].nr # 0
  BY <1>1, <1>2 DEF Stage, Places
<1>4. PICK s \in Slots : s = proc[p].inode
  BY <1>2, <1>3
<1>5. inode[s].ino = proc[p].nr /\ inode[s].ino # 0 /\ inode[s].data # None
  <2>1. Handle(proc[p], inode[s]) /\ Slot(inode[s])
    BY <1>2, <1>3, <1>4 DEF IInv
  <2> QED
    BY <1>1, <1>3, <1>4, <2>1 DEF Handle, Slot
<1>6. IgetSame(p)
  BY <1>4, <1>5 DEF IgetRecheck
<1>7. PICK r : r = [At(p, "iget_return") EXCEPT !.empty = None]
  OBVIOUS
<1>8. proc' = [proc EXCEPT ![p] = r] /\ UNCHANGED <<table, updating, update_wait>>
  BY <1>6, <1>7 DEF IgetSame, Continue
<1>9. /\ r \in Places /\ r.pc = "iget_return" /\ r.nr = proc[p].nr /\ r.inode = s
      /\ r.empty = None /\ r.then = "none"
  BY <1>2, <1>3, <1>4, <1>7 DEF Places, PCs, At
<1>10. Stage(r) /\ Handle(r, inode[s])
  BY <1>3, <1>4, <1>5, <1>9, NoneAssumption DEF Stage, Handle
<1>11. \A h \in 0 .. NR_IHASH - 1 : Looks(r, h) <=> Looks(proc[p], h)
  BY <1>1, <1>9 DEF Looks
<1>12. CASE proc[p].empty = None
  <2>1. UNCHANGED <<tables, fs>>
    BY <1>1, <1>6, <1>8, <1>12 DEF IgetSame, tables
  <2>2. Onward(p, r)
    BY <1>1, <1>2, <1>3, <1>4, <1>9, <1>10, <1>12 DEF Onward, Owns
  <2> QED
    BY <1>1, <1>8, <1>11, <2>1, <2>2, Silent
<1>13. CASE proc[p].empty # None
  <2>1. PICK e \in Slots : e = proc[p].empty
    BY <1>2, <1>13
  <2>2. inode' = PutEmpty(e) /\ nr_free_inodes' = nr_free_inodes + 1 /\ inode_wait' = {}
    BY <1>6, <1>13, <2>1 DEF IgetSame
  <2>3. /\ r.inode = proc[p].inode
        /\ r.inode # None => Handle(r, inode[r.inode])
        /\ r.pc \notin {"iget_read", "writing", "unlock", "put_inode", "clear"}
    BY <1>1, <1>2, <1>4, <1>9, <1>10
  <2> QED
    BY <1>1, <1>3, <1>8, <1>9, <1>10, <1>11, <2>1, <2>2, <2>3, PutEmptyInv
<1> QED
  BY <1>12, <1>13

LEMMA NewNone_Inv ==
    ASSUME IInv, NEW p \in Procs, NewNone(p)
    PROVE  IInv'
<1>1. /\ proc[p].pc = "new_inode" /\ p \notin update_wait
      /\ inode' = PutEmpty(proc[p].empty) /\ nr_free_inodes' = nr_free_inodes + 1
      /\ inode_wait' = {} /\ proc' = [proc EXCEPT ![p] = Idle]
      /\ UNCHANGED <<table, updating, update_wait, fs>>
  BY DEF NewNone, Turn, MaySleep
<1>2. proc[p] \in Places /\ Stage(proc[p]) /\ proc[p].empty \in Slots \cup {None}
  BY There
<1>3. proc[p].inode = None /\ proc[p].then = "none" /\ proc[p].empty \in Slots
  BY <1>1, <1>2 DEF Stage, Places
<1>4. /\ Idle \in Places /\ Stage(Idle) /\ Idle.inode = None /\ Idle.empty = None
      /\ Idle.then = "none" /\ Idle.pc = "user"
  BY DEF Idle, Places, PCs, Stage
<1>5. \A h \in 0 .. NR_IHASH - 1 : Looks(Idle, h) <=> Looks(proc[p], h)
  BY <1>1, <1>4 DEF Looks
<1> QED
  BY <1>1, <1>3, <1>4, <1>5, PutEmptyInv

\* A reference is given back: i_count drops, and the process is done.
LEMMA DropInv ==
    ASSUME IInv, NEW p \in Procs, NEW s \in Slots, proc[p].pc = "iput_repeat",
           proc[p].inode = s, ~inode[s].lock,
           inode' = [inode EXCEPT ![s] = [inode[s] EXCEPT !.count = @ - 1]],
           proc' = [proc EXCEPT ![p] = Idle],
           \/ /\ inode[s].count > 1 /\ nr_free_inodes' = nr_free_inodes
              /\ inode_wait' = inode_wait
           \/ /\ inode[s].count <= 1 /\ ~inode[s].dirt /\ nr_free_inodes' = nr_free_inodes + 1
              /\ inode_wait' = {},
           p \notin update_wait, UNCHANGED <<table, updating, update_wait, fs>>
    PROVE  IInv'
<1>1. proc[p] \in Places /\ Stage(proc[p])
  BY There
<1>2. proc[p].then = "none" /\ proc[p].empty = None
  BY <1>1 DEF Stage, Places
<1>3. Owns(p, s) /\ s # None
  BY <1>2, NoneAssumption DEF Owns
<1>4. /\ Handle(proc[p], inode[s]) /\ inode[s].ino # 0 /\ s \in table
      /\ inode[s].count \in Nat /\ inode[s].count >= 1
      /\ \A q \in Procs : proc[q].empty # s
      /\ \A q \in Procs : q # p /\ Owns(q, s) => inode[s].count >= 2
  BY <1>3, Held
<1>5. inode[s].data # None
  BY <1>2, <1>4 DEF Handle
<1>6. PICK v : v = [inode[s] EXCEPT !.count = @ - 1]
  OBVIOUS
<1>7. /\ v \in Inodes /\ v.ino = inode[s].ino /\ v.count = inode[s].count - 1
      /\ v.nlink = inode[s].nlink /\ v.dirt = inode[s].dirt /\ v.lock = inode[s].lock
      /\ v.data = inode[s].data
  <2>1. inode[s] \in Inodes
    BY DEF IInv, Types
  <2>2. inode[s].count - 1 \in Nat
    BY <1>4
  <2> QED
    BY <1>6, <2>1, <2>2 DEF Inodes
<1>8. Idle \in Places /\ Stage(Idle)
  BY DEF Idle, Places, PCs, Stage
<1>9. Acts(p, Idle, s, v)
  <2>1. \A t \in Slots : t # s => Ref(Idle, t) = Ref(proc[p], t)
    BY <1>2, NoneAssumption DEF Ref, Idle
  <2>2. Ref(Idle, s) = 0 /\ Ref(proc[p], s) = 1
    BY <1>2, <1>3 DEF Ref, Idle
  <2>3. nr_free_inodes \in Nat
    BY FreeNat
  <2>4. v.count = inode[s].count + Ref(Idle, s) - Ref(proc[p], s)
    BY <1>4, <1>7, <2>2
  <2>5. /\ nr_free_inodes' = nr_free_inodes + (IF v.count = 0 THEN 1 ELSE 0)
                                            - (IF inode[s].count = 0 THEN 1 ELSE 0)
        /\ inode_wait' = {} \/ (inode_wait' = inode_wait /\ v.count # 0)
    BY <1>4, <1>7, <2>3
  <2> QED
    BY <1>6, <1>7, <1>8, <2>1, <2>4, <2>5 DEF Acts
<1>10. Others(p) /\ proc'[p] = Idle /\ inode'[s] = v /\ Rest(s)
  <2>1. Others(p) /\ proc'[p] = Idle
    BY <1>8, Moved
  <2>2. v \in Inodes /\ inode' = [inode EXCEPT ![s] = v]
    BY <1>6, <1>7
  <2>3. inode'[s] = v /\ Rest(s)
    BY <2>2, SetSlot
  <2> QED
    BY <2>1, <2>3
<1>11. Sound(s)
  <2>1. Slot(inode[s])
    BY DEF IInv
  <2>2. v.count = 0 => ~v.dirt
    BY <1>4, <1>7
  <2>3. Slot(v)
    BY <1>7, <2>1, <2>2 DEF Slot
  <2> QED
    BY <1>4, <1>7, <1>10, <2>3 DEF Sound
<1>12. Bystanders(p, s)
  <2> SUFFICES ASSUME NEW q \in Procs, q # p, proc[q].inode = s PROVE Handle(proc[q], v)
    BY <1>4, <1>10 DEF Bystanders
  <2>1. Handle(proc[q], inode[s])
    BY <1>3, There
  <2>2. ~Ending(q)
    BY <1>3 DEF IInv, Apart
  <2> QED
    BY <1>7, <2>1, <2>2 DEF Handle, Ending
<1>13. Standing(p)'
  BY <1>8, <1>10 DEF Standing, Idle
<1>14. Distinct(p)
  <2>1. Modest(p)
    BY <1>10, NoneAssumption DEF Modest, Owns, Locking, Ending, Idle
  <2> QED
    BY <1>10, <2>1, ModestDistinct
<1>15. \A h \in 0 .. NR_IHASH - 1 : Looks(Idle, h) <=> Looks(proc[p], h)
  BY DEF Looks, Idle
<1> QED
  BY <1>9, <1>11, <1>12, <1>13, <1>14, <1>15, ActsInv

LEMMA IputRepeat_Inv ==
    ASSUME IInv, NEW p \in Procs, IputRepeat(p)
    PROVE  IInv'
<1>1. /\ proc[p].pc = "iput_repeat" /\ p \notin update_wait /\ ~inode[proc[p].inode].lock
      /\ IputShared(p, proc[p].inode) \/ IputLast(p, proc[p].inode)
      /\ UNCHANGED <<table, updating, update_wait, fs>>
  BY DEF IputRepeat, Turn
<1>2. /\ proc[p] \in Places /\ Stage(proc[p]) /\ proc[p].inode \in Slots \cup {None}
      /\ proc[p].inode # None => Handle(proc[p], inode[proc[p].inode])
  BY There
<1>3. proc[p].inode # None /\ proc[p].then = "none" /\ proc[p].nr = 0 /\ proc[p].empty = None
  BY <1>1, <1>2 DEF Stage, Places
<1>4. PICK s \in Slots : s = proc[p].inode
  BY <1>2, <1>3
<1>5. Owns(p, s)
  BY <1>3, <1>4 DEF Owns
<1>6. /\ Handle(proc[p], inode[s]) /\ inode[s].count \in Nat /\ inode[s].count >= 1
      /\ inode[s].ino # 0 /\ inode[s].data # None
      /\ \A q \in Procs : q # p /\ Owns(q, s) => inode[s].count >= 2
  <2>1. /\ Handle(proc[p], inode[s]) /\ inode[s].ino # 0
        /\ inode[s].count \in Nat /\ inode[s].count >= 1
        /\ \A q \in Procs : q # p /\ Owns(q, s) => inode[s].count >= 2
    BY <1>5, Held
  <2>2. inode[s].data # None
    BY <1>1, <1>3, <2>1 DEF Handle
  <2> QED
    BY <2>1, <2>2
<1>7. IputReturn(p) => proc' = [proc EXCEPT ![p] = Idle]
  BY <1>3 DEF IputReturn, MaySleep
<1>8. CASE IputShared(p, s)
  <2>1. /\ inode[s].count > 1 /\ inode' = [inode EXCEPT ![s] = [inode[s] EXCEPT !.count = @ - 1]]
        /\ proc' = [proc EXCEPT ![p] = Idle]
        /\ nr_free_inodes' = nr_free_inodes /\ inode_wait' = inode_wait
    BY <1>7, <1>8 DEF IputShared, Set
  <2> QED
    BY <1>1, <1>4, <2>1, DropInv
<1>9. CASE IputLast(p, s) /\ inode[s].nlink # 0 /\ ~inode[s].dirt
  <2>1. /\ inode[s].count <= 1 /\ inode' = [inode EXCEPT ![s] = [inode[s] EXCEPT !.count = @ - 1]]
        /\ proc' = [proc EXCEPT ![p] = Idle]
        /\ nr_free_inodes' = nr_free_inodes + 1 /\ inode_wait' = {}
    BY <1>7, <1>9 DEF IputLast, Set
  <2> QED
    BY <1>1, <1>4, <1>9, <2>1, DropInv
<1>10. CASE IputLast(p, s) /\ inode[s].nlink # 0 /\ inode[s].dirt
  <2>1. PICK r : r = [At(p, "write") EXCEPT !.then = "iput"]
    OBVIOUS
  <2>2. WaitThen(p, r, s) /\ UNCHANGED <<inode, nr_free_inodes>> /\ inode_wait' = {}
    BY <1>10, <2>1 DEF IputLast
  <2>3. /\ r \in Places /\ r.pc = "write" /\ r.nr = 0 /\ r.inode = s
        /\ r.empty = None /\ r.then = "iput"
    BY <1>2, <1>3, <1>4, <2>1 DEF Places, PCs, At
  <2>4. proc' = [proc EXCEPT ![p] = r]
    BY <2>2, Waited
  <2>5. Stage(r) /\ Handle(r, inode[s])
    BY <1>6, <2>3, NoneAssumption DEF Stage, Handle
  <2>6. Onward(p, r)
    BY <1>3, <1>4, <2>3, <2>5 DEF Onward, Owns
  <2>7. Others(p) /\ proc'[p] = r
    BY <2>3, <2>4, Moved
  <2>8. \A h \in 0 .. NR_IHASH - 1 : Looks(proc'[p], h) <=> Looks(proc[p], h)
    BY <1>1, <2>3, <2>7 DEF Looks
  <2>9. Updates'
    BY <1>1, <2>7, <2>8, UpdatesKept
  <2>10. IputWakesSleepers'
    BY <2>2 DEF IputWakesSleepers
  <2> QED
    BY <1>1, <2>2, <2>4, <2>6, <2>9, <2>10, Quiet
<1>11. CASE IputLast(p, s) /\ inode[s].nlink = 0
  <2>1. PICK r : r = At(p, "put_inode")
    OBVIOUS
  <2>2. /\ proc' = [proc EXCEPT ![p] = r] /\ UNCHANGED <<inode, nr_free_inodes>>
        /\ inode_wait' = {} /\ inode[s].count <= 1
    BY <1>11, <2>1 DEF IputLast, MaySleep
  <2>3. /\ r \in Places /\ r.pc = "put_inode" /\ r.nr = 0 /\ r.inode = s
        /\ r.empty = None /\ r.then = "none"
    BY <1>2, <1>3, <1>4, <2>1, AtPlace DEF PCs
  <2>4. Others(p) /\ proc'[p] = r
    BY <2>2, <2>3, Moved
  <2>5. inode[s].count = 1 /\ \A q \in Procs : q # p => ~Owns(q, s)
    BY <1>6, <2>2
  <2>6. Standing(p)'
    <3>1. Stage(r) /\ Handle(r, inode[s])
      BY <1>6, <1>11, <2>3, <2>5, NoneAssumption DEF Stage, Handle
    <3> QED
      BY <2>2, <2>3, <2>4, <3>1 DEF Standing
  <2>7. Distinct(p)
    <3> SUFFICES ASSUME NEW q \in Procs, q # p PROVE Apart(p, q)' /\ Apart(q, p)'
      BY DEF Distinct
    <3>1. Apart(p, q) /\ Apart(q, p) /\ proc'[q] = proc[q] /\ ~Owns(q, s)
      BY <2>4, <2>5 DEF IInv, Others
    <3> QED
      BY <1>3, <1>4, <2>3, <2>4, <3>1 DEF Apart, Owns, Locking, Ending
  <2>8. \A t \in Slots : Ref(proc'[p], t) = Ref(proc[p], t)
    BY <1>3, <1>4, <2>3, <2>4 DEF Ref
  <2>9. \A h \in 0 .. NR_IHASH - 1 : Looks(proc'[p], h) <=> Looks(proc[p], h)
    BY <1>1, <2>3, <2>4 DEF Looks
  <2>10. Updates'
    BY <1>1, <2>4, <2>9, UpdatesKept
  <2>11. IputWakesSleepers'
    BY <2>2 DEF IputWakesSleepers
  <2> QED
    BY <1>1, <2>2, <2>4, <2>6, <2>7, <2>8, <2>10, <2>11, ProcInv
<1> QED
  BY <1>1, <1>4, <1>8, <1>9, <1>10, <1>11

LEMMA MaxZero ==
    ASSUME NEW n \in Nat
    PROVE  Max({n, 0}) = n
BY DEF Max

LEMMA FreshTaken ==
    [Cleared EXCEPT !.count = 1, !.nlink = 1] = Fresh /\ Fresh \in Inodes
<1>1. Fresh \in Inodes
  BY DEF Fresh, Inodes
<1>2. PICK c : c = Cleared
  OBVIOUS
<1>3. /\ c \in Inodes /\ c.ino = 0 /\ ~c.dirt /\ ~c.lock /\ c.data = None
  BY <1>2 DEF Cleared, Inodes
<1>4. PICK v : v = [c EXCEPT !.count = 1, !.nlink = 1]
  OBVIOUS
<1>5. /\ v \in Inodes /\ v.ino = c.ino /\ v.count = 1 /\ v.nlink = 1 /\ v.dirt = c.dirt
      /\ v.lock = c.lock /\ v.data = c.data
  BY <1>3, <1>4 DEF Inodes
<1>6. v = [ino |-> v.ino, count |-> v.count, nlink |-> v.nlink, dirt |-> v.dirt,
           lock |-> v.lock, data |-> v.data]
  BY <1>5 DEF Inodes
<1>7. v = Fresh
  BY <1>3, <1>5, <1>6 DEF Fresh
<1> QED
  BY <1>1, <1>2, <1>4, <1>7

LEMMA EmptyTake_Inv ==
    ASSUME IInv, NEW p \in Procs, EmptyTake(p)
    PROVE  IInv'
<1>1. PICK s \in Unused :
        /\ Clean(s) /\ inode' = Taken(s)
        /\ nr_free_inodes' = Max({nr_free_inodes - 1, 0})
        /\ IF proc[p].nr = 0
           THEN /\ UNCHANGED <<updating, update_wait>>
                /\ Continue(p, [proc[p] EXCEPT !.pc = "new_inode", !.empty = s])
           ELSE /\ DoneUpdating(p)
                /\ Continue(p, [proc[p] EXCEPT !.pc = "iget", !.empty = s])
  BY DEF EmptyTake
<1>2. /\ proc[p].pc = "empty" /\ p \notin update_wait /\ UNCHANGED <<table, inode_wait, fs>>
  BY DEF EmptyTake, Turn
<1>3. /\ proc[p] \in Places /\ Stage(proc[p]) /\ proc[p].nr \in Inos \cup {0} /\ proc[p].nr \in Nat
  BY There
<1>4. proc[p].inode = None /\ proc[p].then = "none" /\ proc[p].empty = None
  BY <1>2, <1>3 DEF Stage, Places
<1>5. /\ s \in table /\ s \in Slots /\ s # None /\ inode[s].count = 0
      /\ ~inode[s].lock /\ ~inode[s].dirt /\ inode[s] \in Inodes
  BY <1>1, NoneAssumption DEF Unused, Clean, IInv, Types
<1>6. PICK r : /\ r = [proc[p] EXCEPT !.pc = IF proc[p].nr = 0 THEN "new_inode" ELSE "iget",
                                      !.empty = s]
  OBVIOUS
<1>7. /\ r \in Places /\ r.pc = (IF proc[p].nr = 0 THEN "new_inode" ELSE "iget")
      /\ r.nr = proc[p].nr /\ r.inode = None /\ r.empty = s /\ r.then = "none"
  BY <1>3, <1>4, <1>5, <1>6 DEF Places, PCs
<1>8. proc' = [proc EXCEPT ![p] = r]
  BY <1>1, <1>6 DEF Continue
<1>9. inode' = [inode EXCEPT ![s] = Fresh] /\ Fresh \in Inodes
  BY <1>1, FreshTaken DEF Taken
<1>10. nr_free_inodes' = nr_free_inodes - 1 /\ nr_free_inodes \in Nat
  <2>1. Unused \subseteq Slots /\ IsFiniteSet(Slots)
    BY FiniteAssumption DEF Unused, IInv, Types
  <2>2. IsFiniteSet(Unused)
    BY <2>1, FS_Subset
  <2>3. Cardinality(Unused) # 0 /\ Cardinality(Unused) \in Nat
    BY <2>2, FS_EmptySet, FS_CardinalityType
  <2>4. nr_free_inodes = Cardinality(Unused)
    BY DEF IInv, FreeCount
  <2>5. nr_free_inodes - 1 \in Nat
    BY <2>3, <2>4
  <2>6. Max({nr_free_inodes - 1, 0}) = nr_free_inodes - 1
    BY <2>5, MaxZero
  <2> QED
    BY <1>1, <2>3, <2>4, <2>6
<1>11. \A q \in Procs : ~Owns(q, s) /\ proc[q].empty # s
  <2>1. \A q \in Procs : ~Owns(q, s)
    BY <1>5, Held
  <2>2. ASSUME NEW q \in Procs, proc[q].empty = s PROVE FALSE
    <3>1. inode[s] = Fresh
      BY <1>5, <2>2, There
    <3> QED
      BY <1>5, <3>1 DEF Fresh
  <2> QED
    BY <2>1, <2>2
<1>12. Acts(p, r, s, Fresh)
  <2>1. \A t \in Slots : t # s => Ref(r, t) = Ref(proc[p], t)
    BY <1>4, <1>7, NoneAssumption DEF Ref
  <2>2. Ref(r, s) = 1 /\ Ref(proc[p], s) = 0
    BY <1>4, <1>5, <1>7 DEF Ref
  <2>3. Fresh.count = 1
    BY DEF Fresh
  <2> QED
    BY <1>2, <1>5, <1>7, <1>8, <1>9, <1>10, <2>1, <2>2, <2>3 DEF Acts
<1>13. /\ Others(p) /\ proc'[p] = r /\ Rest(s) /\ inode'[s] = Fresh
       /\ \A t \in Slots : inode'[t].count = inode[t].count + Ref(proc'[p], t) - Ref(proc[p], t)
       /\ FreeCount' /\ IputWakesSleepers'
  BY <1>2, <1>5, <1>12, ActsCounts
<1>14. Sound(s)
  <2>1. Slot(Fresh)
    BY DEF Slot, Fresh
  <2>2. Slot(inode[s]) /\ inode[s].nlink \in {0, 1}
    BY <1>5 DEF IInv, Inodes
  <2>3. inode[s].ino # 0 /\ inode[s].data # None /\ dir[inode[s].ino] =>
            disk[inode[s].ino].nlink # 0
    BY <1>5, <2>2 DEF Slot
  <2>4. Fresh.ino = 0
    BY DEF Fresh
  <2> QED
    BY <1>5, <1>13, <2>1, <2>3, <2>4 DEF Sound
<1>15. Bystanders(p, s)
  <2> SUFFICES ASSUME NEW q \in Procs, proc[q].inode = s PROVE Handle(proc[q], Fresh)
    BY <1>11, <1>13 DEF Bystanders
  <2>1. Stage(proc[q]) /\ Handle(proc[q], inode[s]) /\ proc[q].then = "sync"
    BY <1>5, <1>11, There DEF Owns
  <2> QED
    BY <1>5, <2>1 DEF Handle, Stage
<1>16. Standing(p)'
  <2>1. Stage(r)
    BY <1>2, <1>3, <1>5, <1>7 DEF Stage
  <2> QED
    BY <1>7, <1>13, <2>1 DEF Standing
<1>17. Distinct(p)
  <2> SUFFICES ASSUME NEW q \in Procs, q # p PROVE Apart(p, q)' /\ Apart(q, p)'
    BY DEF Distinct
  <2>1. /\ Apart(p, q) /\ Apart(q, p) /\ proc'[q] = proc[q] /\ proc[q].empty # s
        /\ Stage(proc[q])
    BY <1>11, <1>13, There DEF IInv, Others
  <2> QED
    BY <1>7, <1>13, <2>1 DEF Apart, Owns, Locking, Ending, Stage
<1>18. Updates'
  <2>1. CASE proc[p].nr = 0
    <3>1. \A h \in 0 .. NR_IHASH - 1 : Looks(proc'[p], h) <=> Looks(proc[p], h)
      BY <1>7, <1>13, <2>1 DEF Looks
    <3> QED
      BY <1>1, <1>2, <1>13, <2>1, <3>1, UpdatesKept
  <2>2. CASE proc[p].nr # 0
    <3>1. PICK k \in 0 .. NR_IHASH - 1 : k = hash(proc[p].nr)
      BY <1>3, HashType
    <3>2. /\ updating' = [updating EXCEPT ![k] = @ - 1]
          /\ update_wait' = IF updating[k] = 1 THEN {} ELSE update_wait
      BY <1>1, <2>2, <3>1 DEF DoneUpdating
    <3>3. updating \in [0 .. NR_IHASH - 1 -> Nat]
      BY DEF IInv, Updates
    <3>4. \A h \in 0 .. NR_IHASH - 1 : (Looks(proc[p], h) <=> h = k) /\ ~Looks(proc'[p], h)
      BY <1>2, <1>7, <1>13, <2>2, <3>1 DEF Looks
    <3>5. /\ updating' \in [0 .. NR_IHASH - 1 -> Int] /\ updating'[k] = updating[k] - 1
          /\ \A h \in 0 .. NR_IHASH - 1 : h # k => updating'[h] = updating[h]
      BY <3>2, <3>3
    <3>6. \A h \in 0 .. NR_IHASH - 1 :
               updating'[h] = updating[h] + (IF Looks(proc'[p], h) THEN 1 ELSE 0)
                                          - (IF Looks(proc[p], h) THEN 1 ELSE 0)
      BY <3>3, <3>4, <3>5
    <3>7. ASSUME NEW q \in update_wait'
          PROVE  /\ q \in Procs /\ proc'[q].pc = "iget_return"
                 /\ updating'[hash(proc'[q].nr)] > 0
      <4>1. q \in update_wait /\ updating[k] # 1
        BY <3>2, <3>7
      <4>2. q \in Procs /\ proc[q].pc = "iget_return" /\ updating[hash(proc[q].nr)] > 0
        BY <4>1 DEF IInv, Updates
      <4>3. proc'[q] = proc[q]
        BY <1>2, <1>13, <4>1, <4>2 DEF Others
      <4>4. PICK m \in 0 .. NR_IHASH - 1 : m = hash(proc[q].nr)
        BY <4>2, There, HashType
      <4>5. updating'[m] > 0
        <5>1. updating[m] > 0 /\ updating[m] \in Nat
          BY <3>3, <4>2, <4>4
        <5> QED
          BY <3>5, <4>1, <5>1
      <4> QED
        BY <4>2, <4>3, <4>4, <4>5
    <3> QED
      BY <1>13, <3>5, <3>6, <3>7, UpdatesStep
  <2> QED
    BY <2>1, <2>2
<1> QED
  BY <1>2, <1>5, <1>13, <1>14, <1>15, <1>16, <1>17, <1>18, StepInv

LEMMA GrowInodes_Inv ==
    ASSUME IInv, NEW p \in Procs, grow_inodes(p)
    PROVE  IInv'
<1>1. /\ proc[p].pc = "grow" /\ p \notin update_wait
      /\ UNCHANGED <<inode, updating, inode_wait, update_wait, fs>>
  BY DEF grow_inodes, Turn
<1>2. /\ proc[p] \in Places /\ Stage(proc[p])
  BY There
<1>3. PICK r : r = At(p, "empty")
  OBVIOUS
<1>4. /\ r \in Places /\ r.pc = "empty" /\ r.nr = proc[p].nr /\ r.inode = proc[p].inode
      /\ r.empty = proc[p].empty /\ r.then = proc[p].then
  BY <1>2, <1>3, AtPlace DEF PCs
<1>5. proc' = [proc EXCEPT ![p] = r]
  BY <1>3 DEF grow_inodes, Continue
<1>6. Stage(r) /\ r.inode = None
  BY <1>1, <1>2, <1>4 DEF Stage
<1>7. Onward(p, r)
  BY <1>1, <1>2, <1>4, <1>6 DEF Onward, Owns
<1>8. \A h \in 0 .. NR_IHASH - 1 : Looks(r, h) <=> Looks(proc[p], h)
  BY <1>1, <1>4 DEF Looks
<1>9. CASE table = Slots
  <2>1. UNCHANGED <<tables, fs>>
    BY <1>1, <1>9 DEF grow_inodes, tables
  <2> QED
    BY <1>1, <1>5, <1>7, <1>8, <2>1, Silent
<1>10. CASE table # Slots
  <2>1. PICK s \in Slots \ table : table' = table \cup {s}
    BY <1>10 DEF grow_inodes
  <2>2. nr_free_inodes' = nr_free_inodes + 1
    BY <1>10 DEF grow_inodes
  <2>3. Others(p) /\ proc'[p] = r
    BY <1>4, <1>5, Moved
  <2>4. Types'
    BY <1>1, <2>1, <2>3 DEF IInv, Types, Others, fs
  <2>5. \A q \in Procs : Standing(q)'
    <3>1. Rest(None) /\ Bystanders(p, None)
      BY <1>1 DEF Rest, Bystanders, IInv, Types
    <3>2. Standing(p)'
      <4>1. r.empty = None
        BY <1>1, <1>4, <1>6 DEF Stage
      <4> QED
        BY <1>1, <1>2, <1>4, <1>6, <2>3, <4>1 DEF Standing
    <3> QED
      BY <2>3, <3>1, <3>2, StandingKept
  <2>6. \A a, b \in Procs : a # b => Apart(a, b)'
    <3>1. Modest(p)
      BY <1>4, <2>3 DEF Modest, Locking, Ending, Owns
    <3> QED
      BY <2>3, <3>1, ModestDistinct, ApartKept
  <2>7. \A t \in Slots : Slot(inode[t])'
    BY <1>1 DEF IInv, Slot, fs
  <2>8. \A n \in Inos : Number(n)'
    BY <1>1 DEF IInv, Number, fs
  <2>9. Outside' /\ OneCopy'
    BY <1>1, <2>1 DEF IInv, Outside, OneCopy
  <2>10. CountsExact'
    <3> SUFFICES ASSUME NEW t \in Slots
                 PROVE  inode'[t].count = inode[t].count + Ref(proc'[p], t) - Ref(proc[p], t)
      <4>1. inode' \in [Slots -> Inodes]
        BY <2>4 DEF Types
      <4> QED
        BY <2>3, <4>1, CountsKept
    <3>1. Ref(proc'[p], t) = Ref(proc[p], t) /\ inode'[t] = inode[t]
      BY <1>1, <1>4, <2>3 DEF Ref
    <3>2. Ref(proc[p], t) \in Nat
      BY DEF Ref
    <3>3. inode[t].count \in Nat
      BY DEF IInv, Types, Inodes
    <3> QED
      BY <3>1, <3>2, <3>3
  <2>11. inode[s] = Cleared
    BY <2>1 DEF IInv, Outside
  <2>12. Unused' = Unused \cup {s} /\ s \notin Unused
    BY <1>1, <2>1, <2>11 DEF Unused, Cleared
  <2>13. FreeCount'
    <3>1. Unused \subseteq Slots /\ IsFiniteSet(Slots)
      BY FiniteAssumption DEF Unused, IInv, Types
    <3>2. IsFiniteSet(Unused)
      BY <3>1, FS_Subset
    <3>3. Cardinality(Unused \cup {s}) = Cardinality(Unused) + 1
      BY <2>12, <3>2, FS_AddElement
    <3> QED
      BY <2>2, <2>12, <3>3 DEF IInv, FreeCount
  <2>14. Updates'
    BY <1>1, <1>8, <2>3, UpdatesKept
  <2>15. IputWakesSleepers'
    BY <1>1, <2>11, <2>12 DEF IInv, IputWakesSleepers, Cleared
  <2> QED
    BY <2>4, <2>5, <2>6, <2>7, <2>8, <2>9, <2>10, <2>13, <2>14, <2>15 DEF IInv
<1> QED
  BY <1>9, <1>10

LEMMA InvalidateInodes_Inv ==
    ASSUME IInv, NEW p \in Procs, invalidate_inodes(p)
    PROVE  IInv'
<1>1. /\ UNCHANGED <<table, nr_free_inodes, updating, inode_wait, update_wait, disk, imap, dir>>
      /\ proc' = [proc EXCEPT ![p] = proc[p]]
      /\ inode' = [s \in Slots |-> IF inode[s].count = 0 /\ Clean(s) THEN Cleared ELSE inode[s]]
  BY DEF invalidate_inodes, MaySleep, fs
<1>2. proc' = proc
  BY <1>1 DEF IInv, Types
<1>3. \A t \in Slots : \/ inode'[t] = inode[t]
                       \/ /\ inode'[t] = Cleared /\ inode[t].count = 0
                          /\ ~inode[t].dirt /\ ~inode[t].lock
  BY <1>1 DEF Clean
<1>4. Cleared \in Inodes /\ Cleared.count = 0 /\ Cleared.ino = 0 /\ Slot(Cleared)
  BY DEF Cleared, Inodes, Slot
<1>5. Types'
  BY <1>1, <1>2, <1>4 DEF IInv, Types
<1>6. ASSUME NEW q \in Procs PROVE Standing(q)'
  <2>1. Standing(q) /\ proc[q].inode \in Slots \cup {None} /\ proc[q].empty \in Slots \cup {None}
    BY There DEF IInv
  <2>2. ASSUME NEW t \in Slots, proc[q].inode = t PROVE Handle(proc[q], inode'[t])
    <3>1. Handle(proc[q], inode[t]) /\ Stage(proc[q])
      BY <2>1, <2>2, NoneAssumption DEF Standing
    <3>2. Owns(q, t) => inode[t].count # 0
      BY Held
    <3>3. CASE inode'[t] = inode[t]
      BY <3>1, <3>3
    <3>4. CASE inode[t].count = 0 /\ ~inode[t].dirt /\ ~inode[t].lock
      <4>1. proc[q].then = "sync"
        BY <2>2, <3>2, <3>4 DEF Owns
      <4> QED
        BY <3>1, <3>4, <4>1 DEF Handle, Stage
    <3> QED
      BY <1>3, <3>3, <3>4
  <2>3. ASSUME NEW t \in Slots, proc[q].empty = t PROVE inode'[t] = Fresh
    <3>1. inode[t] = Fresh
      BY <2>1, <2>3, NoneAssumption DEF Standing
    <3> QED
      BY <1>3, <3>1 DEF Fresh
  <2> QED
    BY <1>1, <1>2, <2>1, <2>2, <2>3 DEF Standing
<1>7. \A a, b \in Procs : a # b => Apart(a, b)'
  BY <1>2 DEF IInv, Apart, Owns, Locking, Ending
<1>8. ASSUME NEW t \in Slots PROVE Slot(inode[t])'
  <2>1. Slot(inode'[t])
    BY <1>3, <1>4 DEF IInv
  <2>2. PICK i : i = inode'[t]
    OBVIOUS
  <2> QED
    BY <1>1, <2>1, <2>2 DEF Slot
<1>9. ASSUME NEW n \in Inos PROVE Number(n)'
  <2>1. Number(n)
    BY DEF IInv
  <2>2. CASE dir[n] /\ disk[n].nlink = 0
    <3>1. PICK t \in Slots : inode[t].ino = n /\ inode[t].data # None
      BY <2>1, <2>2 DEF Number
    <3>2. inode'[t] = inode[t]
      <4>1. Slot(inode[t]) /\ n # 0
        BY InosAssumption DEF IInv
      <4>2. inode[t].dirt \/ inode[t].nlink = 0
        BY <2>2, <3>1, <4>1 DEF Slot
      <4>3. inode[t].nlink # 0
        BY <2>2, <3>1, <4>1 DEF Slot
      <4> QED
        BY <1>3, <4>2, <4>3
    <3> QED
      BY <1>1, <2>1, <2>2, <3>1, <3>2 DEF Number
  <2>3. CASE ~dir[n] \/ disk[n].nlink # 0
    BY <1>1, <2>1, <2>3 DEF Number
  <2> QED
    BY <2>2, <2>3
<1>10. Outside' /\ OneCopy'
  <2>1. Outside'
    BY <1>1, <1>3 DEF IInv, Outside
  <2>2. OneCopy'
    BY <1>3, <1>4 DEF IInv, OneCopy
  <2> QED
    BY <2>1, <2>2
<1>11. \A t \in Slots : inode'[t].count = inode[t].count
  BY <1>3, <1>4
<1>12. CountsExact'
  BY <1>2, <1>11 DEF IInv, CountsExact, Owns
<1>13. FreeCount'
  <2>1. Unused' = Unused
    BY <1>1, <1>11 DEF Unused, IInv, Types
  <2> QED
    BY <1>1, <2>1 DEF IInv, FreeCount
<1>14. Updates'
  BY <1>1, <1>2 DEF IInv, Updates, Looks
<1>15. IputWakesSleepers'
  <2>1. \A t \in Slots : inode[t].ino = 0 => inode'[t].ino = 0
    BY <1>3, <1>4
  <2> QED
    BY <1>1, <1>11, <2>1 DEF IInv, Types, IputWakesSleepers, Unused
<1> QED
  BY <1>5, <1>6, <1>7, <1>8, <1>9, <1>10, <1>12, <1>13, <1>14, <1>15 DEF IInv

-----------------------------------------------------------------------------
(* The actions that change the file system.                                *)

FsTypes ==
    /\ disk \in [Inos -> [nlink : {0, 1}, data : Contents]]
    /\ imap \in [Inos -> BOOLEAN] /\ dir \in [Inos -> BOOLEAN]

LEMMA FsInv ==
    ASSUME IInv, NEW p \in Procs, NEW r, NEW s \in table, NEW v, Acts(p, r, s, v),
           FsTypes', Standing(p)', Bystanders(p, s), Distinct(p),
           \A t \in Slots : Slot(inode[t])', \A n \in Inos : Number(n)', OneCopy',
           p \notin update_wait, \A h \in 0 .. NR_IHASH - 1 : Looks(r, h) <=> Looks(proc[p], h),
           UNCHANGED <<table, updating, update_wait>>
    PROVE  IInv'
<1>1. /\ Others(p) /\ proc'[p] = r /\ Rest(s) /\ inode'[s] = v /\ s \in Slots
      /\ \A t \in Slots : inode'[t].count = inode[t].count + Ref(proc'[p], t) - Ref(proc[p], t)
      /\ FreeCount' /\ IputWakesSleepers'
  BY ActsCounts
<1>2. Types'
  BY <1>1 DEF IInv, Types, FsTypes, Others, Rest
<1>3. \A q \in Procs : Standing(q)'
  BY <1>1, StandingKept
<1>4. \A a, b \in Procs : a # b => Apart(a, b)'
  BY <1>1, ApartKept
<1>5. Outside'
  BY <1>1 DEF IInv, Outside, Rest
<1>6. CountsExact'
  BY <1>1, CountsKept DEF Rest
<1>7. Updates'
  BY <1>1, UpdatesKept
<1> QED
  BY <1>1, <1>2, <1>3, <1>4, <1>5, <1>6, <1>7 DEF IInv

LEMMA UpdateInode_Inv ==
    ASSUME IInv, NEW p \in Procs, update_inode(p)
    PROVE  IInv'
<1>1. /\ proc[p].pc = "writing" /\ p \notin update_wait
      /\ UNCHANGED <<table, nr_free_inodes, updating, inode_wait, update_wait, imap, dir>>
  BY DEF update_inode, Turn
<1>2. /\ proc[p] \in Places /\ Stage(proc[p]) /\ proc[p].inode \in Slots \cup {None}
      /\ proc[p].inode # None => Handle(proc[p], inode[proc[p].inode])
  BY There
<1>3. proc[p].inode # None /\ proc[p].nr = 0 /\ proc[p].then # "none" /\ proc[p].empty = None
  BY <1>1, <1>2 DEF Stage, Places
<1>4. PICK s \in Slots : s = proc[p].inode
  BY <1>2, <1>3
<1>5. inode[s] \in Inodes /\ Slot(inode[s]) /\ Handle(proc[p], inode[s])
  BY <1>2, <1>3, <1>4 DEF IInv, Types
<1>6. /\ inode[s].lock /\ inode[s].ino # 0 /\ inode[s].data # None /\ inode[s].count # 0
  BY <1>1, <1>5 DEF Handle, Slot
<1>7. PICK r : r = At(p, "unlock")
  OBVIOUS
<1>8. PICK v : v = [inode[s] EXCEPT !.dirt = FALSE]
  OBVIOUS
<1>9. PICK raw : raw = [nlink |-> inode[s].nlink, data |-> inode[s].data]
  OBVIOUS
<1>10. /\ proc' = [proc EXCEPT ![p] = r] /\ inode' = [inode EXCEPT ![s] = v]
       /\ disk' = [disk EXCEPT ![inode[s].ino] = raw]
  BY <1>4, <1>7, <1>8, <1>9 DEF update_inode, Set, MaySleep
<1>11. /\ r \in Places /\ r.pc = "unlock" /\ r.nr = 0 /\ r.inode = s
       /\ r.empty = None /\ r.then = proc[p].then
  BY <1>2, <1>3, <1>4, <1>7, AtPlace DEF PCs
<1>12. /\ v \in Inodes /\ v.ino = inode[s].ino /\ v.count = inode[s].count
       /\ v.nlink = inode[s].nlink /\ ~v.dirt /\ v.lock = inode[s].lock /\ v.data = inode[s].data
  BY <1>5, <1>8 DEF Inodes
<1>13. /\ inode[s].ino \in Inos /\ raw \in [nlink : {0, 1}, data : Contents]
       /\ raw.nlink = inode[s].nlink /\ raw.data = inode[s].data
  BY <1>5, <1>6, <1>9 DEF Inodes
<1>14. /\ disk \in [Inos -> [nlink : {0, 1}, data : Contents]] /\ imap \in [Inos -> BOOLEAN]
       /\ dir \in [Inos -> BOOLEAN]
  BY DEF IInv, Types
<1>15. /\ disk' \in [Inos -> [nlink : {0, 1}, data : Contents]] /\ disk'[inode[s].ino] = raw
       /\ \A n \in Inos : n # inode[s].ino => disk'[n] = disk[n]
  BY <1>10, <1>13, <1>14
<1>16. s \in table /\ s # None
  BY <1>6, InTable, NoneAssumption
<1>17. \A t \in Slots : Ref(r, t) = Ref(proc[p], t)
  BY <1>3, <1>4, <1>11 DEF Ref
<1>18. Acts(p, r, s, v)
  <2>1. nr_free_inodes \in Nat
    BY FreeNat
  <2>2. Ref(proc[p], s) \in Nat /\ inode[s].count \in Nat
    BY <1>5 DEF Ref, Inodes
  <2>3. v.count = inode[s].count + Ref(r, s) - Ref(proc[p], s)
    BY <1>12, <1>17, <2>2
  <2>4. nr_free_inodes' = nr_free_inodes + (IF v.count = 0 THEN 1 ELSE 0)
                                        - (IF inode[s].count = 0 THEN 1 ELSE 0)
    BY <1>1, <1>6, <1>12, <2>1
  <2> QED
    BY <1>1, <1>6, <1>10, <1>11, <1>12, <1>17, <2>3, <2>4 DEF Acts
<1>19. Others(p) /\ proc'[p] = r /\ Rest(s) /\ inode'[s] = v
  BY <1>1, <1>16, <1>18, ActsCounts
<1>20. FsTypes'
  BY <1>1, <1>14, <1>15 DEF FsTypes
<1>21. \A q \in Procs : proc[q].empty # s
  <2> SUFFICES ASSUME NEW q \in Procs, proc[q].empty = s PROVE FALSE
    OBVIOUS
  <2>1. inode[s] = Fresh
    BY <1>16, There
  <2> QED
    BY <1>6, <2>1 DEF Fresh
<1>22. Bystanders(p, s)
  <2> SUFFICES ASSUME NEW q \in Procs, proc[q].inode = s PROVE Handle(proc[q], v)
    BY <1>19, <1>21 DEF Bystanders
  <2>1. Handle(proc[q], inode[s])
    BY <1>16, There
  <2> QED
    BY <1>12, <2>1 DEF Handle
<1>23. Standing(p)'
  <2>1. Stage(r) /\ Handle(r, v)
    BY <1>1, <1>3, <1>4, <1>5, <1>6, <1>11, <1>12 DEF Stage, Handle
  <2> QED
    BY <1>11, <1>19, <2>1 DEF Standing
<1>24. Distinct(p)
  <2>1. Modest(p)
    BY <1>1, <1>3, <1>4, <1>11, <1>19 DEF Modest, Owns, Locking, Ending
  <2> QED
    BY <1>19, <2>1, ModestDistinct
<1>25. ASSUME NEW t \in Slots PROVE Slot(inode[t])'
  <2>1. CASE t = s
    BY <1>1, <1>5, <1>6, <1>9, <1>12, <1>15, <1>19, <2>1 DEF Slot
  <2>2. CASE t # s
    <3>1. /\ Slot(inode[t]) /\ inode'[t] = inode[t] /\ inode[t].ino \in Inos \cup {0}
          /\ inode[t].ino # inode[s].ino
      BY <1>6, <1>19, <2>2 DEF IInv, Types, Inodes, OneCopy, Rest
    <3>2. inode[t].ino # 0 => disk'[inode[t].ino] = disk[inode[t].ino]
      BY <1>15, <3>1
    <3> QED
      BY <1>1, <3>1, <3>2 DEF Slot
  <2> QED
    BY <2>1, <2>2
<1>26. ASSUME NEW n \in Inos PROVE Number(n)'
  <2>1. Number(n)
    BY DEF IInv
  <2>2. CASE n = inode[s].ino
    BY <1>1, <1>6, <1>12, <1>19, <2>1, <2>2 DEF Number
  <2>3. CASE n # inode[s].ino
    <3>1. ASSUME NEW t \in Slots, inode[t].ino = n PROVE inode'[t] = inode[t]
      BY <1>19, <2>3, <3>1 DEF Rest
    <3> QED
      BY <1>1, <1>15, <2>1, <2>3, <3>1 DEF Number
  <2> QED
    BY <2>2, <2>3
<1>27. OneCopy'
  BY <1>12, <1>19, UniqueKept
<1>28. \A h \in 0 .. NR_IHASH - 1 : Looks(r, h) <=> Looks(proc[p], h)
  BY <1>1, <1>11 DEF Looks
<1> QED
  BY <1>1, <1>16, <1>18, <1>20, <1>22, <1>23, <1>24, <1>25, <1>26, <1>27, <1>28, FsInv

LEMMA ClearInode_Inv ==
    ASSUME IInv, NEW p \in Procs, clear_inode(p)
    PROVE  IInv'
<1>1. /\ proc[p].pc = "clear" /\ p \notin update_wait /\ ~inode[proc[p].inode].lock
      /\ UNCHANGED <<table, updating, inode_wait, update_wait, disk, dir>>
  BY DEF clear_inode, Turn
<1>2. /\ proc[p] \in Places /\ Stage(proc[p]) /\ proc[p].inode \in Slots \cup {None}
      /\ proc[p].inode # None => Handle(proc[p], inode[proc[p].inode])
  BY There
<1>3. proc[p].inode # None /\ proc[p].nr = 0 /\ proc[p].then = "none" /\ proc[p].empty = None
  BY <1>1, <1>2 DEF Stage, Places
<1>4. PICK s \in Slots : s = proc[p].inode
  BY <1>2, <1>3
<1>5. inode[s] \in Inodes /\ Slot(inode[s]) /\ Handle(proc[p], inode[s])
  BY <1>2, <1>3, <1>4 DEF IInv, Types
<1>6. /\ inode[s].ino # 0 /\ inode[s].data # None /\ inode[s].count = 1 /\ inode[s].nlink = 0
      /\ ~inode[s].lock /\ ~dir[inode[s].ino] /\ inode[s].ino \in Inos
  BY <1>1, <1>3, <1>4, <1>5 DEF Handle, Slot, Inodes
<1>7. /\ proc' = [proc EXCEPT ![p] = Idle] /\ inode' = [inode EXCEPT ![s] = Cleared]
      /\ imap' = [imap EXCEPT ![inode[s].ino] = FALSE]
      /\ nr_free_inodes' = nr_free_inodes + 1
  BY <1>3, <1>4, <1>6 DEF clear_inode, Set, IputReturn, MaySleep
<1>8. Idle \in Places /\ Stage(Idle)
  BY DEF Idle, Places, PCs, Stage
<1>9. Cleared \in Inodes /\ Cleared.count = 0 /\ Cleared.ino = 0
  BY DEF Cleared, Inodes
<1>10. s \in table /\ s # None /\ Owns(p, s)
  BY <1>3, <1>4, <1>6, InTable, NoneAssumption DEF Owns
<1>11. Acts(p, Idle, s, Cleared)
  <2>1. \A t \in Slots : t # s => Ref(Idle, t) = Ref(proc[p], t)
    BY <1>3, <1>4, NoneAssumption DEF Ref, Idle
  <2>2. Ref(Idle, s) = 0 /\ Ref(proc[p], s) = 1
    BY <1>3, <1>4, <1>10 DEF Ref, Idle
  <2>3. nr_free_inodes \in Nat
    BY FreeNat
  <2> QED
    BY <1>1, <1>6, <1>7, <1>8, <1>9, <2>1, <2>2, <2>3 DEF Acts
<1>12. Others(p) /\ proc'[p] = Idle /\ Rest(s) /\ inode'[s] = Cleared
  BY <1>1, <1>10, <1>11, ActsCounts
<1>13. /\ imap' \in [Inos -> BOOLEAN] /\ \A n \in Inos : n # inode[s].ino => imap'[n] = imap[n]
       /\ disk \in [Inos -> [nlink : {0, 1}, data : Contents]] /\ dir \in [Inos -> BOOLEAN]
  BY <1>6, <1>7 DEF IInv, Types
<1>14. FsTypes'
  BY <1>1, <1>13 DEF FsTypes
<1>16. Bystanders(p, s)
  <2>1. \A q \in Procs : proc[q].empty # s
    BY <1>10, Held
  <2> SUFFICES ASSUME NEW q \in Procs, q # p, proc[q].inode = s PROVE Handle(proc[q], Cleared)
    BY <1>12, <2>1 DEF Bystanders
  <2>2. Handle(proc[q], inode[s]) /\ Stage(proc[q])
    BY <1>10, There
  <2>3. proc[q].then = "sync"
    BY <1>1, <1>4 DEF IInv, Apart, Ending, Owns
  <2> QED
    BY <1>6, <2>2, <2>3 DEF Handle, Stage
<1>17. Standing(p)'
  BY <1>8, <1>12 DEF Standing, Idle
<1>18. Distinct(p)
  <2>1. Modest(p)
    BY <1>12, NoneAssumption DEF Modest, Owns, Locking, Ending, Idle
  <2> QED
    BY <1>12, <2>1, ModestDistinct
<1>19. ASSUME NEW t \in Slots PROVE Slot(inode[t])'
  <2>1. CASE t = s
    BY <1>12, <2>1 DEF Slot, Cleared
  <2>2. CASE t # s
    <3>1. /\ Slot(inode[t]) /\ inode'[t] = inode[t] /\ inode[t].ino \in Inos \cup {0}
          /\ inode[t].ino # inode[s].ino
      BY <1>6, <1>12, <2>2 DEF IInv, Types, Inodes, OneCopy, Rest
    <3>2. inode[t].ino # 0 => imap'[inode[t].ino] = imap[inode[t].ino]
      BY <1>13, <3>1
    <3> QED
      BY <1>1, <3>1, <3>2 DEF Slot
  <2> QED
    BY <2>1, <2>2
<1>20. ASSUME NEW n \in Inos PROVE Number(n)'
  <2>1. Number(n)
    BY DEF IInv
  <2>2. CASE n = inode[s].ino
    BY <1>1, <1>6, <2>2 DEF Number
  <2>3. CASE n # inode[s].ino
    <3>1. ASSUME NEW t \in Slots, inode[t].ino = n PROVE inode'[t] = inode[t]
      BY <1>12, <2>3, <3>1 DEF Rest
    <3> QED
      BY <1>1, <1>13, <2>1, <2>3, <3>1 DEF Number
  <2> QED
    BY <2>2, <2>3
<1>21. OneCopy'
  BY <1>9, <1>12, UniqueKept
<1>22. \A h \in 0 .. NR_IHASH - 1 : Looks(Idle, h) <=> Looks(proc[p], h)
  BY <1>1 DEF Looks, Idle
<1> QED
  BY <1>1, <1>10, <1>11, <1>14, <1>16, <1>17, <1>18, <1>19, <1>20, <1>21, <1>22, FsInv

LEMMA NewNumber_Inv ==
    ASSUME IInv, NEW p \in Procs, NewNumber(p)
    PROVE  IInv'
<1>1. /\ proc[p].pc = "new_inode" /\ p \notin update_wait
      /\ UNCHANGED <<table, nr_free_inodes, updating, inode_wait, update_wait, disk, dir>>
  BY DEF NewNumber, Turn
<1>2. PICK n \in Inos, c \in Contents :
        /\ ~imap[n] /\ imap' = [imap EXCEPT ![n] = TRUE]
        /\ Set(proc[p].empty, [Cleared EXCEPT !.ino = n, !.count = 1, !.nlink = 1,
                                              !.dirt = TRUE, !.data = c])
        /\ MaySleep(p, [Idle EXCEPT !.nr = n, !.inode = proc[p].empty])
  BY DEF NewNumber
<1>3. proc[p] \in Places /\ Stage(proc[p]) /\ proc[p].empty \in Slots \cup {None}
  BY There
<1>4. proc[p].inode = None /\ proc[p].then = "none" /\ proc[p].empty # None
  BY <1>1, <1>3 DEF Stage, Places
<1>5. PICK s \in Slots : s = proc[p].empty
  BY <1>3, <1>4
<1>6. /\ inode[s] = Fresh /\ s \in table /\ s # None
      /\ \A q \in Procs : q # p => /\ proc[q].empty # s
                                   /\ proc[q].inode = s => /\ proc[q].then = "sync"
                                                           /\ ~Locking(q) /\ ~Ending(q)
  BY <1>5, Handed, NoneAssumption
<1>7. inode[s].count = 1 /\ inode[s].ino = 0 /\ n # 0 /\ c # None
  BY <1>6, InosAssumption, NoneAssumption DEF Fresh
<1>8. PICK r : r = [Idle EXCEPT !.nr = n, !.inode = s]
  OBVIOUS
<1>9. /\ r \in Places /\ r.pc = "user" /\ r.nr = n /\ r.inode = s /\ r.empty = None
      /\ r.then = "none"
  <2>1. /\ Idle \in Places /\ Idle.pc = "user" /\ Idle.empty = None /\ Idle.then = "none"
    BY DEF Idle, Places, PCs
  <2> QED
    BY <1>8, <2>1 DEF Places
<1>10. PICK v : v = [Cleared EXCEPT !.ino = n, !.count = 1, !.nlink = 1, !.dirt = TRUE, !.data = c]
  OBVIOUS
<1>11. /\ v \in Inodes /\ v.ino = n /\ v.count = 1 /\ v.nlink = 1 /\ v.dirt /\ ~v.lock
       /\ v.data = c
  <2>1. Cleared \in Inodes /\ ~Cleared.lock
    BY DEF Cleared, Inodes
  <2> QED
    BY <1>10, <2>1 DEF Inodes
<1>12. proc' = [proc EXCEPT ![p] = r] /\ inode' = [inode EXCEPT ![s] = v]
  BY <1>2, <1>5, <1>8, <1>10 DEF Set, MaySleep
<1>13. Acts(p, r, s, v)
  <2>1. \A t \in Slots : t # s => Ref(r, t) = Ref(proc[p], t)
    BY <1>4, <1>5, <1>9, NoneAssumption DEF Ref
  <2>2. Ref(r, s) = 1 /\ Ref(proc[p], s) = 1
    BY <1>4, <1>5, <1>6, <1>9 DEF Ref
  <2>3. nr_free_inodes \in Nat
    BY FreeNat
  <2> QED
    BY <1>1, <1>7, <1>9, <1>11, <1>12, <2>1, <2>2, <2>3 DEF Acts
<1>14. Others(p) /\ proc'[p] = r /\ Rest(s) /\ inode'[s] = v
  BY <1>1, <1>6, <1>13, ActsCounts
<1>15. /\ imap' \in [Inos -> BOOLEAN] /\ \A m \in Inos : m # n => imap'[m] = imap[m]
       /\ imap'[n]
       /\ disk \in [Inos -> [nlink : {0, 1}, data : Contents]] /\ dir \in [Inos -> BOOLEAN]
  BY <1>2 DEF IInv, Types
<1>16. ~dir[n] /\ \A t \in Slots : inode[t].ino # n
  <2>1. ~dir[n]
    BY <1>2 DEF IInv, Number
  <2>2. \A t \in Slots : inode[t].ino # n
    BY <1>2, <1>7 DEF IInv, Slot
  <2> QED
    BY <2>1, <2>2
<1>17. FsTypes'
  BY <1>1, <1>15 DEF FsTypes
<1>19. Bystanders(p, s)
  <2> SUFFICES ASSUME NEW q \in Procs, q # p, proc[q].inode = s PROVE Handle(proc[q], v)
    BY <1>6, <1>14 DEF Bystanders
  <2> QED
    BY <1>6 DEF Handle, Locking, Ending
<1>20. Standing(p)'
  <2>1. Stage(r) /\ Handle(r, v)
    BY <1>6, <1>7, <1>9, <1>11 DEF Stage, Handle
  <2> QED
    BY <1>9, <1>14, <2>1 DEF Standing
<1>21. Distinct(p)
  <2> SUFFICES ASSUME NEW q \in Procs, q # p PROVE Apart(p, q)' /\ Apart(q, p)'
    BY DEF Distinct
  <2>1. /\ Apart(p, q) /\ Apart(q, p) /\ proc'[q] = proc[q]
        /\ proc[q].inode = s => ~Ending(q) /\ ~Locking(q)
    BY <1>6, <1>14 DEF IInv, Others
  <2> QED
    BY <1>9, <1>14, <2>1 DEF Apart, Owns, Locking, Ending
<1>22. ASSUME NEW t \in Slots PROVE Slot(inode[t])'
  <2>1. CASE t = s
    BY <1>1, <1>7, <1>11, <1>14, <1>15, <2>1 DEF Slot
  <2>2. CASE t # s
    <3>1. /\ Slot(inode[t]) /\ inode'[t] = inode[t] /\ inode[t].ino \in Inos \cup {0}
          /\ inode[t].ino # n
      BY <1>14, <1>16, <2>2 DEF IInv, Types, Inodes, Rest
    <3>2. inode[t].ino # 0 => imap'[inode[t].ino] = imap[inode[t].ino]
      BY <1>15, <3>1
    <3> QED
      BY <1>1, <3>1, <3>2 DEF Slot
  <2> QED
    BY <2>1, <2>2
<1>23. ASSUME NEW m \in Inos PROVE Number(m)'
  <2>1. Number(m)
    BY DEF IInv
  <2>2. CASE m = n
    BY <1>1, <1>16, <2>2 DEF Number
  <2>3. CASE m # n
    <3>1. ASSUME NEW t \in Slots, inode[t].ino = m PROVE inode'[t] = inode[t]
      <4>1. m # 0
        BY InosAssumption
      <4> QED
        BY <1>7, <1>14, <3>1, <4>1 DEF Rest
    <3> QED
      BY <1>1, <1>15, <2>1, <2>3, <3>1 DEF Number
  <2> QED
    BY <2>2, <2>3
<1>24. OneCopy'
  BY <1>11, <1>14, <1>16, UniqueKept
<1>25. \A h \in 0 .. NR_IHASH - 1 : Looks(r, h) <=> Looks(proc[p], h)
  BY <1>1, <1>9 DEF Looks
<1> QED
  BY <1>1, <1>6, <1>13, <1>17, <1>19, <1>20, <1>21, <1>22, <1>23, <1>24, <1>25, FsInv

LEMMA AddEntry_Inv ==
    ASSUME IInv, NEW p \in Procs, add_entry(p)
    PROVE  IInv'
<1>1. /\ proc[p].pc = "user" /\ p \notin update_wait /\ proc[p].inode # None
      /\ inode[proc[p].inode].nlink = 1 /\ dir' = [dir EXCEPT ![proc[p].nr] = TRUE]
      /\ proc' = [proc EXCEPT ![p] = proc[p]] /\ UNCHANGED <<tables, disk, imap>>
  BY DEF add_entry, Turn, MaySleep
<1>2. /\ proc[p] \in Places /\ Stage(proc[p]) /\ proc[p].inode \in Slots \cup {None}
      /\ proc[p].inode # None => Handle(proc[p], inode[proc[p].inode])
      /\ proc[p].nr \in Inos \cup {0}
  BY There
<1>3. proc[p].then = "none" /\ proc[p].empty = None /\ proc[p].nr \in Inos /\ proc[p].nr # 0
  BY <1>1, <1>2 DEF Stage, Places
<1>4. PICK s \in Slots : s = proc[p].inode
  BY <1>1, <1>2
<1>5. /\ inode[s] \in Inodes /\ Slot(inode[s]) /\ inode[s].ino = proc[p].nr
      /\ inode[s].data # None /\ Owns(p, s)
  BY <1>1, <1>2, <1>3, <1>4 DEF IInv, Types, Handle, Owns
<1>6. s \in table /\ inode[s].count \in Nat /\ inode[s].count # 0 /\ s # None
  BY <1>5, Held, NoneAssumption
<1>7. /\ UNCHANGED <<table, inode, nr_free_inodes, updating, inode_wait, update_wait, disk, imap>>
      /\ inode' = [inode EXCEPT ![s] = inode[s]]
  BY <1>1 DEF tables, IInv, Types
<1>8. Acts(p, proc[p], s, inode[s])
  <2>1. nr_free_inodes \in Nat
    BY FreeNat
  <2>2. Ref(proc[p], s) \in Nat
    BY DEF Ref
  <2>3. inode[s].count = inode[s].count + Ref(proc[p], s) - Ref(proc[p], s)
    BY <1>6, <2>2
  <2>4. nr_free_inodes' = nr_free_inodes + (IF inode[s].count = 0 THEN 1 ELSE 0)
                                        - (IF inode[s].count = 0 THEN 1 ELSE 0)
    BY <1>6, <1>7, <2>1
  <2> QED
    BY <1>1, <1>2, <1>5, <1>6, <1>7, <2>3, <2>4 DEF Acts
<1>9. Others(p) /\ proc'[p] = proc[p] /\ Rest(s)
  BY <1>6, <1>7, <1>8, ActsCounts
<1>10. /\ dir' \in [Inos -> BOOLEAN] /\ dir'[proc[p].nr]
       /\ \A n \in Inos : n # proc[p].nr => dir'[n] = dir[n]
       /\ disk \in [Inos -> [nlink : {0, 1}, data : Contents]] /\ imap \in [Inos -> BOOLEAN]
  BY <1>1, <1>3 DEF IInv, Types
<1>11. FsTypes'
  BY <1>7, <1>10 DEF FsTypes
<1>14. Bystanders(p, s)
  BY <1>6, <1>7, There DEF Bystanders
<1>15. Standing(p)'
  BY <1>2, <1>3, <1>7, <1>9, <1>1 DEF Standing
<1>16. Distinct(p)
  <2>1. Modest(p)
    BY <1>9 DEF Modest, Owns, Locking, Ending
  <2> QED
    BY <1>9, <2>1, ModestDistinct
<1>17. ASSUME NEW t \in Slots PROVE Slot(inode[t])'
  <2>1. /\ Slot(inode[t]) /\ inode'[t] = inode[t] /\ inode[t].ino \in Inos \cup {0}
        /\ inode[t].ino = proc[p].nr => t = s
    BY <1>3, <1>5, <1>7 DEF IInv, Types, Inodes, OneCopy
  <2>2. inode[t].ino # 0 /\ inode[t].nlink = 0 => dir'[inode[t].ino] = dir[inode[t].ino]
    <3>1. CASE inode[t].ino = proc[p].nr
      <4>1. inode[t].nlink = 1
        BY <1>1, <1>4, <2>1, <3>1
      <4> QED
        BY <4>1
    <3>2. CASE inode[t].ino # proc[p].nr
      BY <1>10, <2>1, <3>2
    <3> QED
      BY <3>1, <3>2
  <2> QED
    BY <1>7, <2>1, <2>2 DEF Slot
<1>18. ASSUME NEW n \in Inos PROVE Number(n)'
  <2>1. Number(n)
    BY DEF IInv
  <2>2. CASE n = proc[p].nr
    <3>1. imap[n]
      BY <1>3, <1>5, <2>2 DEF Slot
    <3> QED
      BY <1>5, <1>7, <2>2, <3>1 DEF Number
  <2>3. CASE n # proc[p].nr
    BY <1>7, <1>10, <2>1, <2>3 DEF Number
  <2> QED
    BY <2>2, <2>3
<1>19. OneCopy'
  BY <1>7 DEF IInv, OneCopy
<1> QED
  BY <1>1, <1>6, <1>7, <1>8, <1>11, <1>14, <1>15, <1>16, <1>17, <1>18, <1>19, FsInv

LEMMA Unlink_Inv ==
    ASSUME IInv, NEW p \in Procs, unlink(p)
    PROVE  IInv'
<1>1. /\ proc[p].pc = "user" /\ p \notin update_wait /\ proc[p].inode # None
      /\ dir' = [dir EXCEPT ![proc[p].nr] = FALSE]
      /\ proc' = [proc EXCEPT ![p] = proc[p]]
      /\ UNCHANGED <<table, nr_free_inodes, updating, inode_wait, update_wait, disk, imap>>
  BY DEF unlink, Turn, MaySleep
<1>2. /\ proc[p] \in Places /\ Stage(proc[p]) /\ proc[p].inode \in Slots \cup {None}
      /\ proc[p].inode # None => Handle(proc[p], inode[proc[p].inode])
      /\ proc[p].nr \in Inos \cup {0}
  BY There
<1>3. proc[p].then = "none" /\ proc[p].empty = None /\ proc[p].nr \in Inos /\ proc[p].nr # 0
  BY <1>1, <1>2 DEF Stage, Places
<1>4. PICK s \in Slots : s = proc[p].inode
  BY <1>1, <1>2
<1>5. /\ inode[s] \in Inodes /\ Slot(inode[s]) /\ inode[s].ino = proc[p].nr
      /\ inode[s].data # None /\ Owns(p, s)
  BY <1>1, <1>2, <1>3, <1>4 DEF IInv, Types, Handle, Owns
<1>6. /\ s \in table /\ inode[s].count \in Nat /\ inode[s].count # 0 /\ s # None
      /\ \A q \in Procs : proc[q].empty # s
  BY <1>5, Held, NoneAssumption
<1>7. PICK v : v = [inode[s] EXCEPT !.nlink = 0, !.dirt = TRUE]
  OBVIOUS
<1>8. /\ v \in Inodes /\ v.ino = inode[s].ino /\ v.count = inode[s].count
      /\ v.nlink = 0 /\ v.dirt /\ v.lock = inode[s].lock /\ v.data = inode[s].data
  BY <1>5, <1>7 DEF Inodes
<1>9. inode' = [inode EXCEPT ![s] = v]
  BY <1>4, <1>7 DEF unlink, Set
<1>10. Acts(p, proc[p], s, v)
  <2>1. nr_free_inodes \in Nat
    BY FreeNat
  <2>2. Ref(proc[p], s) \in Nat
    BY DEF Ref
  <2>3. v.count = inode[s].count + Ref(proc[p], s) - Ref(proc[p], s)
    BY <1>6, <1>8, <2>2
  <2>4. nr_free_inodes' = nr_free_inodes + (IF v.count = 0 THEN 1 ELSE 0)
                                        - (IF inode[s].count = 0 THEN 1 ELSE 0)
    BY <1>1, <1>6, <1>8, <2>1
  <2> QED
    BY <1>1, <1>2, <1>6, <1>8, <1>9, <2>3, <2>4 DEF Acts
<1>11. Others(p) /\ proc'[p] = proc[p] /\ Rest(s) /\ inode'[s] = v
  BY <1>1, <1>6, <1>10, ActsCounts
<1>12. /\ dir' \in [Inos -> BOOLEAN] /\ ~dir'[proc[p].nr]
       /\ \A n \in Inos : n # proc[p].nr => dir'[n] = dir[n]
       /\ disk \in [Inos -> [nlink : {0, 1}, data : Contents]] /\ imap \in [Inos -> BOOLEAN]
  BY <1>1, <1>3 DEF IInv, Types
<1>13. FsTypes'
  BY <1>1, <1>12 DEF FsTypes
<1>15. Bystanders(p, s)
  <2> SUFFICES ASSUME NEW q \in Procs, q # p, proc[q].inode = s PROVE Handle(proc[q], v)
    BY <1>6, <1>11 DEF Bystanders
  <2>1. Handle(proc[q], inode[s])
    BY <1>6, There
  <2>2. ~Ending(q)
    BY <1>5 DEF IInv, Apart
  <2> QED
    BY <1>5, <1>8, <2>1, <2>2 DEF Handle, Ending
<1>16. Standing(p)'
  <2>1. Handle(proc[p], v)
    BY <1>1, <1>2, <1>4, <1>5, <1>8 DEF Handle
  <2> QED
    BY <1>1, <1>2, <1>3, <1>4, <1>11, <2>1 DEF Standing
<1>17. Distinct(p)
  <2>1. Modest(p)
    BY <1>11 DEF Modest, Owns, Locking, Ending
  <2> QED
    BY <1>11, <2>1, ModestDistinct
<1>18. ASSUME NEW t \in Slots PROVE Slot(inode[t])'
  <2>1. CASE t = s
    BY <1>1, <1>5, <1>6, <1>8, <1>11, <1>12, <2>1 DEF Slot
  <2>2. CASE t # s
    <3>1. /\ Slot(inode[t]) /\ inode'[t] = inode[t] /\ inode[t].ino \in Inos \cup {0}
          /\ inode[t].ino # proc[p].nr
      BY <1>3, <1>5, <1>11, <2>2 DEF IInv, Types, Inodes, OneCopy, Rest
    <3>2. inode[t].ino # 0 => dir'[inode[t].ino] = dir[inode[t].ino]
      BY <1>12, <3>1
    <3> QED
      BY <1>1, <3>1, <3>2 DEF Slot
  <2> QED
    BY <2>1, <2>2
<1>19. ASSUME NEW n \in Inos PROVE Number(n)'
  <2>1. Number(n)
    BY DEF IInv
  <2>2. CASE n = proc[p].nr
    BY <1>12, <2>2 DEF Number
  <2>3. CASE n # proc[p].nr
    <3>1. ASSUME NEW t \in Slots, inode[t].ino = n PROVE inode'[t] = inode[t]
      BY <1>5, <1>11, <2>3, <3>1 DEF Rest
    <3> QED
      BY <1>1, <1>12, <2>1, <2>3, <3>1 DEF Number
  <2> QED
    BY <2>2, <2>3
<1>20. OneCopy'
  BY <1>8, <1>11, UniqueKept
<1> QED
  BY <1>1, <1>6, <1>10, <1>13, <1>15, <1>16, <1>17, <1>18, <1>19, <1>20, FsInv

-----------------------------------------------------------------------------
(* The theorems.                                                           *)

LEMMA InitInv ==
    Init => IInv
<1> SUFFICES ASSUME Init PROVE IInv
  OBVIOUS
<1>1. /\ table = {} /\ nr_free_inodes = 0 /\ inode_wait = {} /\ update_wait = {}
      /\ inode = [s \in Slots |-> Cleared] /\ proc = [p \in Procs |-> Idle]
      /\ updating = [h \in 0 .. NR_IHASH - 1 |-> 0]
      /\ disk \in [Inos -> [nlink : {1}, data : Contents]]
      /\ imap = [n \in Inos |-> TRUE] /\ dir = [n \in Inos |-> TRUE]
  BY DEF Init
<1>2. Idle \in Places /\ Stage(Idle) /\ Cleared \in Inodes
  BY DEF Idle, Places, PCs, Stage, Cleared, Inodes
<1>3. Types
  BY <1>1, <1>2 DEF Types
<1>4. \A p \in Procs : Standing(p)
  BY <1>1, <1>2 DEF Standing, Idle
<1>5. \A p, q \in Procs : p # q => Apart(p, q)
  BY <1>1 DEF Apart, Idle, Locking, Ending
<1>6. \A s \in Slots : Slot(inode[s])
  BY <1>1 DEF Slot, Cleared
<1>7. \A n \in Inos : Number(n)
  BY <1>1 DEF Number
<1>8. Outside /\ OneCopy
  BY <1>1 DEF Outside, OneCopy, Cleared
<1>9. CountsExact
  <2> SUFFICES ASSUME NEW s \in Slots
               PROVE  inode[s].count = Cardinality({p \in Procs : Owns(p, s)})
                                       + Cardinality({p \in Procs : proc[p].empty = s})
    BY DEF CountsExact
  <2>1. {p \in Procs : Owns(p, s)} = {} /\ {p \in Procs : proc[p].empty = s} = {}
    BY <1>1, NoneAssumption DEF Owns, Idle
  <2>2. inode[s].count = 0
    BY <1>1 DEF Cleared
  <2>3. /\ Cardinality({p \in Procs : Owns(p, s)}) = 0
        /\ Cardinality({p \in Procs : proc[p].empty = s}) = 0
    BY <2>1, FS_EmptySet
  <2> QED
    BY <2>2, <2>3
<1>10. FreeCount
  <2>1. Unused = {}
    BY <1>1 DEF Unused
  <2> QED
    BY <1>1, <2>1, FS_EmptySet DEF FreeCount
<1>11. Updates
  <2>1. \A h \in 0 .. NR_IHASH - 1 : {q \in Procs : Looks(proc[q], h)} = {}
    BY <1>1 DEF Looks, Idle
  <2> QED
    BY <1>1, <2>1, FS_EmptySet DEF Updates
<1>12. IputWakesSleepers
  BY <1>1 DEF IputWakesSleepers
<1> QED
  BY <1>3, <1>4, <1>5, <1>6, <1>7, <1>8, <1>9, <1>10, <1>11, <1>12 DEF IInv

LEMMA StutterInv ==
    IInv /\ UNCHANGED vars => IInv'
BY DEF IInv, vars, Types, Standing, Apart, Owns, Locking, Ending, Slot, Number, Outside,
       OneCopy, CountsExact, FreeCount, Unused, Updates, Looks, IputWakesSleepers

LEMMA NextInv ==
    ASSUME IInv, Next, ~stale'
    PROVE  IInv'
<1>1. PICK p \in Procs : Late(p) \/ Step(p) \/ Call(p)
  BY DEF Next
<1>2. CASE Late(p)
  BY <1>2, IgetFound_Inv, IgetInsert_Inv DEF Late
<1>3. CASE Step(p)
  BY <1>3, IgetNoRoom_Inv, ReadInode_Inv, IgetRecheck_Inv,
     IgetReturn_Inv, EmptyTake_Inv, EmptyGrow_Inv, GrowInodes_Inv, EmptyNone_Inv,
     WriteInode_Inv, UpdateInode_Inv, UnlockInode_Inv, WriteReturn_Inv, IputEnter_Inv,
     IputRepeat_Inv, PutInode_Inv, ClearInode_Inv, NewNumber_Inv, NewNone_Inv DEF Step
<1>4. CASE Call(p)
  BY <1>4, Lookup_Inv, Iput_Inv, NewInode_Inv, AddEntry_Inv, Unlink_Inv, Change_Inv,
     SyncInodes_Inv, InvalidateInodes_Inv DEF Call
<1> QED
  BY <1>1, <1>2, <1>3, <1>4

LEMMA StaleStays ==
    stale /\ [Next]_vars => stale'
BY DEF Next, vars, Late, IgetFound, IgetInsert

\* The invariant holds of every behaviour, whenever names are removed, as long
\* as no lookup has found an inode that was being released or has read one
\* that was free (fs/inode.c, fs/minix).
THEOREM CacheInvariant ==
    Spec => [](stale \/ IInv)
<1>1. Init => stale \/ IInv
  BY InitInv
<1>2. (stale \/ IInv) /\ [Next]_vars => (stale \/ IInv)'
  <2> SUFFICES ASSUME stale \/ IInv, [Next]_vars PROVE stale' \/ IInv'
    OBVIOUS
  <2> QED
    BY NextInv, StutterInv, StaleStays
<1> QED
  BY <1>1, <1>2, PTL DEF Spec

\* Reference counts, the count of free inodes and the cleanliness of unused
\* inodes are right at every moment, whatever iput, clear_inode,
\* get_empty_inode and __iget sleep for in between.
THEOREM CountsStayRight ==
    Spec => []Accounting
<1>1. stale \/ IInv => Accounting
  <2> SUFFICES ASSUME IInv PROVE UnusedClean
    BY DEF Accounting, IInv
  <2> QED
    BY DEF IInv, Types, UnusedClean, Unused, Clean, Slot
<1> QED
  BY <1>1, CacheInvariant, PTL

\* An inode number has one inode in memory, although __iget sleeps between
\* its search and the insertion, and new_inode takes free numbers.
THEOREM InCoreOnce ==
    Spec => []UniqueInCore
<1>1. stale \/ IInv => UniqueInCore
  BY DEF IInv, UniqueInCore
<1> QED
  BY <1>1, CacheInvariant, PTL

\* What a process has found stays what it asked for until it is put, even if
\* its name is removed meanwhile: the branch of __iget for an inode "changed
\* from under us" is taken only after a lookup came upon an inode that
\* minix_put_inode was releasing, or read one that was free.
THEOREM FoundStays ==
    Spec => []HandleStays
<1>1. stale \/ IInv => HandleStays
  <2> SUFFICES ASSUME IInv, NEW p \in Procs
               PROVE  /\ proc[p].pc = "iget_found" => inode[proc[p].inode].ino = proc[p].nr
                      /\ proc[p].pc = "user" /\ proc[p].inode # None =>
                           /\ inode[proc[p].inode].ino = proc[p].nr
                           /\ inode[proc[p].inode].data # None
    BY DEF HandleStays, Unchanged
  <2>1. /\ proc[p] \in Places /\ Stage(proc[p])
        /\ proc[p].inode # None => Handle(proc[p], inode[proc[p].inode])
    BY There
  <2>2. proc[p].pc \in {"iget_found", "user"} => proc[p].then = "none"
    BY <2>1 DEF Stage, Places
  <2> QED
    BY <2>1, <2>2 DEF Stage, Handle
<1> QED
  BY <1>1, CacheInvariant, PTL

\* Whoever sleeps until a bucket is not being updated will be woken by a
\* process that is updating it, and nobody sleeps for want of an inode while
\* one that iput has left is free.
THEOREM SleepersStayCovered ==
    Spec => []SleepersWoken
<1>1. stale \/ IInv => SleepersWoken
  <2> SUFFICES ASSUME IInv, NEW p \in update_wait
               PROVE  \E q \in Procs : /\ proc[q].pc \in {"empty", "grow"} /\ proc[q].nr # 0
                                       /\ hash(proc[q].nr) = hash(proc[p].nr)
    BY DEF SleepersWoken, UpdatersWake, IInv
  <2>1. p \in Procs /\ updating[hash(proc[p].nr)] > 0
    BY DEF IInv, Updates
  <2>2. PICK h \in 0 .. NR_IHASH - 1 : h = hash(proc[p].nr)
    BY <2>1, There, HashType
  <2>3. updating[h] = Cardinality({q \in Procs : Looks(proc[q], h)})
    BY DEF IInv, Updates
  <2>4. {q \in Procs : Looks(proc[q], h)} # {}
    BY <2>1, <2>2, <2>3, FS_EmptySet
  <2> QED
    BY <2>2, <2>4 DEF Looks
<1> QED
  BY <1>1, CacheInvariant, PTL

-----------------------------------------------------------------------------
(* The cache implements InodeStore, step by step.                          *)

LEMMA LatestCopy ==
    ASSUME NEW mem, NEW raw, NEW n, NEW s \in Slots, mem[s].ino = n, mem[s].data # None,
           \A t \in Slots : mem[t].ino = n => t = s
    PROVE  Latest(n, mem, raw) = mem[s].data
<1> DEFINE C == {t \in Slots : mem[t].ino = n /\ mem[t].data # None}
<1>1. C = {s}
  OBVIOUS
<1>2. (CHOOSE t \in C : TRUE) = s
  BY <1>1
<1> QED
  BY <1>1, <1>2 DEF Latest

LEMMA LatestDisk ==
    ASSUME NEW mem, NEW raw, NEW n,
           \A t \in Slots : mem[t].ino = n => mem[t].data = None
    PROVE  Latest(n, mem, raw) = raw[n].data
<1>1. {t \in Slots : mem[t].ino = n /\ mem[t].data # None} = {}
  OBVIOUS
<1> QED
  BY <1>1 DEF Latest

LEMMA StoreInit ==
    Init => Store!Init
<1> SUFFICES ASSUME Init PROVE Store!Init
  OBVIOUS
<1>1. content \in [Inos -> Contents]
  <2> SUFFICES ASSUME NEW n \in Inos PROVE Latest(n, inode, disk) \in Contents
    BY DEF content
  <2>1. \A t \in Slots : inode[t].data = None
    BY DEF Init, Cleared
  <2>2. Latest(n, inode, disk) = disk[n].data
    BY <2>1, LatestDisk
  <2> QED
    BY <2>2 DEF Init
<1>2. held = [p \in Procs |-> 0]
  BY DEF held, Holding, Init, Idle
<1> QED
  BY <1>1, <1>2 DEF Store!Init, Init

Unseen == content' = content /\ dir' = dir /\ held' = held
Holds(r) == r.pc = "user" /\ r.inode # None

\* The content of n is kept: its copy, or its place on the disk, is the same.
LEMMA LatestKept ==
    ASSUME IInv, IInv', NEW n \in Inos, disk'[n] = disk[n],
           \A t \in Slots : /\ inode'[t].ino = n /\ inode'[t].data # None <=>
                                 inode[t].ino = n /\ inode[t].data # None
                            /\ inode[t].ino = n /\ inode[t].data # None =>
                                 inode'[t].data = inode[t].data
    PROVE  Latest(n, inode', disk') = Latest(n, inode, disk)
<1>0. n # 0
  BY InosAssumption
<1>1. CASE \E t \in Slots : inode[t].ino = n /\ inode[t].data # None
  <2>1. PICK s \in Slots : inode[s].ino = n /\ inode[s].data # None
    BY <1>1
  <2>2. \A t \in Slots : inode[t].ino = n => t = s
    BY <1>0, <2>1 DEF IInv, OneCopy
  <2>3. inode'[s].ino = n /\ inode'[s].data = inode[s].data /\ inode'[s].data # None
    BY <2>1
  <2>4. \A t \in Slots : inode'[t].ino = n => t = s
    BY <1>0, <2>3 DEF IInv, OneCopy
  <2>5. Latest(n, inode, disk) = inode[s].data
    BY <2>1, <2>2, LatestCopy
  <2>6. Latest(n, inode', disk') = inode'[s].data
    BY <2>3, <2>4, LatestCopy
  <2> QED
    BY <2>3, <2>5, <2>6
<1>2. CASE ~ \E t \in Slots : inode[t].ino = n /\ inode[t].data # None
  <2>1. Latest(n, inode, disk) = disk[n].data
    BY <1>2, LatestDisk
  <2>2. \A t \in Slots : inode'[t].ino = n => inode'[t].data = None
    BY <1>2
  <2>3. Latest(n, inode', disk') = disk'[n].data
    BY <2>2, LatestDisk
  <2> QED
    BY <2>1, <2>3
<1> QED
  BY <1>1, <1>2

LEMMA ContentKept ==
    ASSUME IInv, IInv', disk' = disk,
           \A t \in Slots : inode'[t].ino = inode[t].ino /\ inode'[t].data = inode[t].data
    PROVE  content' = content
<1>1. \A n \in Inos : Latest(n, inode', disk') = Latest(n, inode, disk)
  BY LatestKept
<1> QED
  BY <1>1 DEF content

LEMMA HeldKept ==
    ASSUME IInv, NEW p \in Procs, NEW r, proc' = [proc EXCEPT ![p] = r],
           Holding(r) = Holding(proc[p])
    PROVE  held' = held
BY DEF held, IInv, Types

\* A step that nobody above the cache can see.
LEMMA UnseenStep ==
    ASSUME IInv, IInv', NEW p \in Procs, NEW r, proc' = [proc EXCEPT ![p] = r],
           Holding(r) = Holding(proc[p]), disk' = disk, dir' = dir,
           \A t \in Slots : inode'[t].ino = inode[t].ino /\ inode'[t].data = inode[t].data
    PROVE  Unseen
BY ContentKept, HeldKept DEF Unseen

LEMMA UnseenProc ==
    ASSUME IInv, IInv', NEW p \in Procs, NEW r, proc' = [proc EXCEPT ![p] = r],
           ~Holds(proc[p]), ~Holds(r), disk' = disk, dir' = dir, inode' = inode
    PROVE  Unseen
BY UnseenStep DEF Holds, Holding

\* The fields that count above are those of the other inodes and of s.
LEMMA FieldsKept ==
    ASSUME IInv, NEW s \in Slots, NEW v, inode' = [inode EXCEPT ![s] = v],
           v.ino = inode[s].ino, v.data = inode[s].data
    PROVE  \A t \in Slots : inode'[t].ino = inode[t].ino /\ inode'[t].data = inode[t].data
BY DEF IInv, Types

\* A change of a copy that has no number or no data, before and after.
LEMMA BlankKept ==
    ASSUME IInv, IInv', NEW s \in Slots, Rest(s), disk' = disk,
           inode[s].ino = 0 \/ inode[s].data = None, inode'[s].ino = 0 \/ inode'[s].data = None
    PROVE  content' = content
<1> SUFFICES ASSUME NEW n \in Inos
             PROVE  Latest(n, inode', disk') = Latest(n, inode, disk)
  BY DEF content
<1>0. n # 0
  BY InosAssumption
<1>1. \A t \in Slots : /\ inode'[t].ino = n /\ inode'[t].data # None <=>
                            inode[t].ino = n /\ inode[t].data # None
                       /\ inode[t].ino = n /\ inode[t].data # None =>
                            inode'[t].data = inode[t].data
  BY <1>0 DEF Rest
<1> QED
  BY <1>1, LatestKept

LEMMA Lookup_Seen ==
    ASSUME IInv, IInv', NEW p \in Procs, NEW n \in Inos, lookup(p, n)
    PROVE  Unseen
<1>1. PICK r : r = [proc[p] EXCEPT !.pc = "iget", !.nr = n]
  OBVIOUS
<1>2. /\ proc' = [proc EXCEPT ![p] = r] /\ proc[p].inode = None
      /\ disk' = disk /\ dir' = dir /\ inode' = inode
  BY <1>1 DEF lookup, MaySleep, tables, fs
<1>3. ~Holds(r) /\ ~Holds(proc[p])
  BY <1>1, <1>2, There DEF Holds, Places
<1> QED
  BY <1>2, <1>3, UnseenProc

LEMMA IgetFound_Seen ==
    ASSUME IInv, IInv', NEW p \in Procs, IgetFound(p)
    PROVE  Unseen
<1>1. PICK s \in Found(proc[p].nr) :
        /\ Set(s, [inode[s] EXCEPT !.count = @ + 1])
        /\ WaitThen(p, AtWith(p, "iget_found", s), s)
  BY DEF IgetFound
<1>2. proc[p].pc = "iget" /\ disk' = disk /\ dir' = dir
  BY DEF IgetFound, Turn, fs
<1>3. PICK r : r = AtWith(p, "iget_found", s)
  OBVIOUS
<1>4. proc' = [proc EXCEPT ![p] = r] /\ r.pc = "iget_found"
  <2>1. proc[p] \in Places
    BY There
  <2> QED
    BY <1>1, <1>3, <2>1, Waited DEF AtWith, Places
<1>5. s \in Slots /\ inode[s] \in Inodes
  BY DEF Found, IInv, Types
<1>6. PICK v : v = [inode[s] EXCEPT !.count = @ + 1]
  OBVIOUS
<1>7. v.ino = inode[s].ino /\ v.data = inode[s].data /\ inode' = [inode EXCEPT ![s] = v]
  BY <1>1, <1>5, <1>6 DEF Inodes, Set
<1>8. \A t \in Slots : inode'[t].ino = inode[t].ino /\ inode'[t].data = inode[t].data
  BY <1>5, <1>7, FieldsKept
<1>9. Holding(r) = Holding(proc[p])
  BY <1>2, <1>4 DEF Holding
<1> QED
  BY <1>2, <1>4, <1>8, <1>9, UnseenStep

LEMMA IgetNoRoom_Seen ==
    ASSUME IInv, IInv', NEW p \in Procs, IgetNoRoom(p)
    PROVE  Unseen
<1>1. /\ EnterEmpty(p, At(p, "empty")) /\ proc[p].pc = "iget"
      /\ disk' = disk /\ dir' = dir /\ inode' = inode
  BY DEF IgetNoRoom, Turn, fs
<1>2. PICK r : /\ r \in {At(p, "empty"), [At(p, "empty") EXCEPT !.pc = "grow"]}
               /\ proc' = [proc EXCEPT ![p] = r]
  BY <1>1, Entered
<1>3. r.pc \in {"empty", "grow"}
  <2>1. proc[p] \in Places
    BY There
  <2> QED
    BY <1>2, <2>1 DEF At, Places
<1>4. ~Holds(r) /\ ~Holds(proc[p])
  BY <1>1, <1>3 DEF Holds
<1> QED
  BY <1>1, <1>2, <1>4, UnseenProc

LEMMA NewInode_Seen ==
    ASSUME IInv, IInv', NEW p \in Procs, new_inode(p)
    PROVE  Unseen
<1>1. /\ EnterEmpty(p, At(p, "empty")) /\ proc[p].inode = None
      /\ disk' = disk /\ dir' = dir /\ inode' = inode
  BY DEF new_inode, tables, fs
<1>2. PICK r : /\ r \in {At(p, "empty"), [At(p, "empty") EXCEPT !.pc = "grow"]}
               /\ proc' = [proc EXCEPT ![p] = r]
  BY <1>1, Entered
<1>3. r.pc \in {"empty", "grow"}
  <2>1. proc[p] \in Places
    BY There
  <2> QED
    BY <1>2, <2>1 DEF At, Places
<1>4. ~Holds(r) /\ ~Holds(proc[p])
  BY <1>1, <1>3 DEF Holds
<1> QED
  BY <1>1, <1>2, <1>4, UnseenProc

\* Copies that agree with the disk may be dropped.
LEMMA CleanDropped ==
    ASSUME IInv, IInv', disk' = disk,
           \A t \in Slots : inode'[t] = inode[t] \/ (inode'[t].ino = 0 /\ ~inode[t].dirt)
    PROVE  content' = content
<1> SUFFICES ASSUME NEW n \in Inos
             PROVE  Latest(n, inode', disk') = Latest(n, inode, disk)
  BY DEF content
<1>0. n # 0
  BY InosAssumption
<1>1. CASE \E s \in Slots : inode[s].ino = n /\ inode[s].data # None /\ inode'[s] # inode[s]
  <2>1. PICK s \in Slots : inode[s].ino = n /\ inode[s].data # None /\ inode'[s] # inode[s]
    BY <1>1
  <2>2. \A t \in Slots : inode[t].ino = n => t = s
    BY <1>0, <2>1 DEF IInv, OneCopy
  <2>3. Latest(n, inode, disk) = inode[s].data
    BY <2>1, <2>2, LatestCopy
  <2>4. \A t \in Slots : inode'[t].ino # n
    BY <1>0, <2>1, <2>2
  <2>5. Latest(n, inode', disk') = disk'[n].data
    BY <2>4, LatestDisk
  <2>6. Slot(inode[s]) /\ ~inode[s].dirt
    BY <2>1 DEF IInv
  <2>7. disk[n] = [nlink |-> inode[s].nlink, data |-> inode[s].data]
    BY <1>0, <2>1, <2>6 DEF Slot
  <2> QED
    BY <2>3, <2>5, <2>7
<1>2. CASE \A s \in Slots : inode[s].ino = n /\ inode[s].data # None => inode'[s] = inode[s]
  <2>1. \A t \in Slots : /\ inode'[t].ino = n /\ inode'[t].data # None <=>
                              inode[t].ino = n /\ inode[t].data # None
                         /\ inode[t].ino = n /\ inode[t].data # None =>
                              inode'[t].data = inode[t].data
    BY <1>0, <1>2
  <2> QED
    BY <2>1, LatestKept
<1> QED
  BY <1>1, <1>2

LEMMA IgetInsert_Seen ==
    ASSUME IInv, IInv', NEW p \in Procs, IgetInsert(p)
    PROVE  Unseen
<1>1. proc[p].pc = "iget" /\ proc[p].empty # None /\ disk' = disk /\ dir' = dir
  BY DEF IgetInsert, Turn, fs
<1>2. proc[p] \in Places /\ proc[p].empty \in Slots \cup {None}
  BY There
<1>3. PICK s \in Slots : s = proc[p].empty
  BY <1>1, <1>2
<1>4. inode[s] = Fresh /\ inode[s] \in Inodes
  BY <1>3, Handed DEF IInv, Types
<1>5. PICK v : v = [inode[s] EXCEPT !.ino = proc[p].nr, !.lock = TRUE]
  OBVIOUS
<1>6. PICK r : r = [proc[p] EXCEPT !.pc = "iget_read", !.inode = s, !.empty = None]
  OBVIOUS
<1>7. proc' = [proc EXCEPT ![p] = r] /\ inode' = [inode EXCEPT ![s] = v]
  BY <1>3, <1>5, <1>6 DEF IgetInsert, Set, MaySleep
<1>8. inode[s].data = None /\ inode'[s].data = None
  <2>1. inode[s].data = None
    BY <1>4 DEF Fresh
  <2>2. v.data = inode[s].data
    BY <1>4, <1>5 DEF Inodes
  <2>3. inode'[s] = v
    BY <1>7 DEF IInv, Types
  <2> QED
    BY <2>1, <2>2, <2>3
<1>9. Rest(s)
  BY <1>7 DEF Rest, IInv, Types
<1>10. content' = content
  BY <1>1, <1>8, <1>9, BlankKept
<1>11. Holding(r) = Holding(proc[p])
  BY <1>1, <1>2, <1>6 DEF Holding, Places
<1> QED
  BY <1>1, <1>7, <1>10, <1>11, HeldKept DEF Unseen

LEMMA ReadInode_Seen ==
    ASSUME IInv, IInv', NEW p \in Procs, read_inode(p)
    PROVE  Unseen
<1>1. proc[p].pc = "iget_read" /\ disk' = disk /\ dir' = dir
  BY DEF read_inode, Turn, fs
<1>2. /\ proc[p] \in Places /\ Stage(proc[p]) /\ proc[p].inode \in Slots \cup {None}
      /\ proc[p].inode # None => Handle(proc[p], inode[proc[p].inode])
  BY There
<1>3. PICK s \in Slots : s = proc[p].inode
  BY <1>1, <1>2 DEF Stage
<1>4. inode[s].data = None /\ inode[s].ino # 0 /\ inode[s] \in Inodes
  BY <1>1, <1>2, <1>3, NoneAssumption DEF Handle, Stage, IInv, Types
<1>5. PICK m \in Inos : m = inode[s].ino
  BY <1>4 DEF Inodes
<1>6. PICK v : v = [inode[s] EXCEPT !.data = disk[m].data, !.nlink = disk[m].nlink, !.lock = FALSE]
  OBVIOUS
<1>7. PICK r : r = At(p, "iget_return")
  OBVIOUS
<1>8. proc' = [proc EXCEPT ![p] = r] /\ inode' = [inode EXCEPT ![s] = v]
  BY <1>3, <1>5, <1>6, <1>7 DEF read_inode, Set, Continue
<1>9. /\ inode'[s].ino = m /\ inode'[s].data = disk[m].data
      /\ \A t \in Slots : t # s => inode'[t] = inode[t]
  <2>1. v.ino = m /\ v.data = disk[m].data
    BY <1>4, <1>5, <1>6 DEF Inodes
  <2> QED
    BY <1>8, <2>1 DEF IInv, Types
<1>10. disk[m].data \in Contents /\ disk[m].data # None /\ m # 0
  BY NoneAssumption, InosAssumption DEF IInv, Types
<1>11. ASSUME NEW n \in Inos PROVE Latest(n, inode', disk') = Latest(n, inode, disk)
  <2>1. CASE n = m
    <3>1. \A t \in Slots : inode[t].ino = m => t = s
      BY <1>5, <1>10 DEF IInv, OneCopy
    <3>2. \A t \in Slots : inode'[t].ino = m => t = s
      BY <1>9, <3>1
    <3>3. Latest(m, inode, disk) = disk[m].data
      BY <1>4, <3>1, LatestDisk
    <3>4. Latest(m, inode', disk') = inode'[s].data
      BY <1>9, <1>10, <3>2, LatestCopy
    <3> QED
      BY <1>9, <2>1, <3>3, <3>4
  <2>2. CASE n # m
    <3>1. \A t \in Slots : /\ inode'[t].ino = n /\ inode'[t].data # None <=>
                                inode[t].ino = n /\ inode[t].data # None
                           /\ inode[t].ino = n /\ inode[t].data # None =>
                                inode'[t].data = inode[t].data
      BY <1>5, <1>9, <2>2
    <3> QED
      BY <1>1, <3>1, LatestKept
  <2> QED
    BY <2>1, <2>2
<1>12. content' = content
  BY <1>11 DEF content
<1>13. Holding(r) = Holding(proc[p])
  BY <1>1, <1>2, <1>7 DEF Holding, Places, At
<1> QED
  BY <1>1, <1>8, <1>12, <1>13, HeldKept DEF Unseen

LEMMA PutEmpty_Fields ==
    ASSUME IInv, NEW e \in Slots, inode' = PutEmpty(e)
    PROVE  \A t \in Slots : inode'[t].ino = inode[t].ino /\ inode'[t].data = inode[t].data
<1>1. PICK v : v = [inode[e] EXCEPT !.count = @ - 1]
  OBVIOUS
<1>2. inode[e] \in Inodes
  BY DEF IInv, Types
<1>3. v.ino = inode[e].ino /\ v.data = inode[e].data
  BY <1>1, <1>2 DEF Inodes
<1>4. inode' = [inode EXCEPT ![e] = v]
  BY <1>1 DEF PutEmpty
<1> QED
  BY <1>3, <1>4, FieldsKept

LEMMA IgetRecheck_Seen ==
    ASSUME IInv, IInv', NEW p \in Procs, IgetRecheck(p)
    PROVE  Unseen
<1>1. proc[p].pc = "iget_found" /\ disk' = disk /\ dir' = dir
  BY DEF IgetRecheck, Turn, fs
<1>2. proc[p] \in Places /\ proc[p].empty \in Slots \cup {None}
  BY There
<1>3. PICK r : r \in {[At(p, "iget_return") EXCEPT !.empty = None], At(p, "iput")}
               /\ proc' = [proc EXCEPT ![p] = r]
  BY DEF IgetRecheck, IgetSame, IgetChanged, Continue
<1>4. r.pc # "user"
  BY <1>2, <1>3 DEF At, Places
<1>5. inode' = inode \/ (proc[p].empty # None /\ inode' = PutEmpty(proc[p].empty))
  BY DEF IgetRecheck, IgetSame, IgetChanged, tables
<1>6. \A t \in Slots : inode'[t].ino = inode[t].ino /\ inode'[t].data = inode[t].data
  BY <1>2, <1>5, PutEmpty_Fields
<1>7. Holding(r) = Holding(proc[p])
  BY <1>1, <1>4 DEF Holding
<1> QED
  BY <1>1, <1>3, <1>6, <1>7, UnseenStep

LEMMA NewNone_Seen ==
    ASSUME IInv, IInv', NEW p \in Procs, NewNone(p)
    PROVE  Unseen
<1>1. /\ proc[p].pc = "new_inode" /\ disk' = disk /\ dir' = dir
      /\ proc' = [proc EXCEPT ![p] = Idle] /\ inode' = PutEmpty(proc[p].empty)
  BY DEF NewNone, Turn, fs, MaySleep
<1>2. proc[p].empty \in Slots
  BY <1>1, There DEF Stage
<1>3. \A t \in Slots : inode'[t].ino = inode[t].ino /\ inode'[t].data = inode[t].data
  BY <1>1, <1>2, PutEmpty_Fields
<1>4. Holding(Idle) = Holding(proc[p])
  BY <1>1 DEF Holding, Idle
<1> QED
  BY <1>1, <1>3, <1>4, UnseenStep

LEMMA EmptyTake_Seen ==
    ASSUME IInv, IInv', NEW p \in Procs, EmptyTake(p)
    PROVE  Unseen
<1>1. PICK s \in Unused :
        /\ Clean(s) /\ inode' = Taken(s)
        /\ proc[p].nr = 0 => Continue(p, [proc[p] EXCEPT !.pc = "new_inode", !.empty = s])
        /\ proc[p].nr # 0 => Continue(p, [proc[p] EXCEPT !.pc = "iget", !.empty = s])
  BY DEF EmptyTake
<1>2. proc[p].pc = "empty" /\ disk' = disk /\ dir' = dir
  BY DEF EmptyTake, Turn, fs
<1>3. PICK r \in {[proc[p] EXCEPT !.pc = "new_inode", !.empty = s],
                    [proc[p] EXCEPT !.pc = "iget", !.empty = s]} :
            proc' = [proc EXCEPT ![p] = r]
  BY <1>1 DEF Continue
<1>4. r.pc \in {"new_inode", "iget"}
  <2>1. proc[p] \in Places
    BY There
  <2> QED
    BY <1>3, <2>1 DEF Places
<1>5. inode' = [inode EXCEPT ![s] = Fresh] /\ s \in Slots /\ ~inode[s].dirt
  BY <1>1, FreshTaken DEF Taken, Clean, Unused, IInv, Types
<1>6. \A t \in Slots : inode'[t] = inode[t] \/ (inode'[t].ino = 0 /\ ~inode[t].dirt)
  BY <1>5 DEF Fresh, IInv, Types
<1>7. content' = content
  BY <1>2, <1>6, CleanDropped
<1>8. Holding(r) = Holding(proc[p])
  BY <1>2, <1>4 DEF Holding
<1> QED
  BY <1>2, <1>3, <1>7, <1>8, HeldKept DEF Unseen

LEMMA Invalidate_Seen ==
    ASSUME IInv, IInv', NEW p \in Procs, invalidate_inodes(p)
    PROVE  Unseen
<1>1. /\ disk' = disk /\ dir' = dir /\ proc' = [proc EXCEPT ![p] = proc[p]]
      /\ inode' = [s \in Slots |-> IF inode[s].count = 0 /\ Clean(s) THEN Cleared ELSE inode[s]]
  BY DEF invalidate_inodes, MaySleep, fs
<1>2. \A t \in Slots : inode'[t] = inode[t] \/ (inode'[t].ino = 0 /\ ~inode[t].dirt)
  BY <1>1 DEF Clean, Cleared
<1> QED
  BY <1>1, <1>2, CleanDropped, HeldKept DEF Unseen

LEMMA EmptyMoves_Seen ==
    ASSUME IInv, IInv', NEW p \in Procs, EmptyGrow(p) \/ grow_inodes(p) \/ EmptyNone(p)
    PROVE  Unseen
<1>1. proc[p].pc \in {"empty", "grow"} /\ disk' = disk /\ dir' = dir /\ inode' = inode
  BY DEF EmptyGrow, grow_inodes, EmptyNone, Turn, tables, fs
<1>2. PICK r \in {proc[p], At(p, "grow"), At(p, "empty")} : proc' = [proc EXCEPT ![p] = r]
  BY DEF EmptyGrow, grow_inodes, EmptyNone, MaySleep, Continue
<1>3. proc[p] \in Places
  BY There
<1>4. ~Holds(r) /\ ~Holds(proc[p])
  BY <1>1, <1>2, <1>3 DEF Holds, At, Places
<1> QED
  BY <1>1, <1>2, <1>4, UnseenProc

\* A step of a system call that is not over changes only marks of its inode.
LEMMA MarksSeen ==
    ASSUME IInv, IInv', NEW p \in Procs, NEW r, NEW s \in Slots, NEW v,
           ~Holds(proc[p]), ~Holds(r), proc' = [proc EXCEPT ![p] = r],
           inode' = [inode EXCEPT ![s] = v], v.ino = inode[s].ino, v.data = inode[s].data,
           disk' = disk, dir' = dir
    PROVE  Unseen
<1>1. \A t \in Slots : inode'[t].ino = inode[t].ino /\ inode'[t].data = inode[t].data
  BY FieldsKept
<1>2. Holding(r) = Holding(proc[p])
  BY DEF Holds, Holding
<1> QED
  BY <1>1, <1>2, UnseenStep

LEMMA Pointed ==
    ASSUME IInv, NEW p \in Procs,
           proc[p].pc \in {"write", "writing", "unlock", "written", "iput", "iput_repeat",
                           "put_inode", "clear"}
    PROVE  proc[p].inode \in Slots /\ inode[proc[p].inode] \in Inodes /\ ~Holds(proc[p])
<1>1. Stage(proc[p]) /\ proc[p].inode \in Slots \cup {None}
  BY There
<1> QED
  BY <1>1 DEF Stage, Holds, IInv, Types

LEMMA WriteInode_Seen ==
    ASSUME IInv, IInv', NEW p \in Procs, write_inode(p)
    PROVE  Unseen
<1>1. proc[p].pc = "write" /\ disk' = disk /\ dir' = dir
  BY DEF write_inode, Turn, fs
<1>2. proc[p].inode \in Slots /\ inode[proc[p].inode] \in Inodes /\ ~Holds(proc[p])
  BY <1>1, Pointed
<1>3. PICK s \in Slots : s = proc[p].inode
  BY <1>2
<1>4. PICK v : v = [inode[s] EXCEPT !.lock = TRUE]
  OBVIOUS
<1>5. v.ino = inode[s].ino /\ v.data = inode[s].data
  BY <1>2, <1>3, <1>4 DEF Inodes
<1>6. ~Holds(At(p, "writing")) /\ ~Holds(At(p, "written"))
  BY There DEF Holds, At, Places
<1>7. CASE inode[s].dirt
  <2>1. inode' = [inode EXCEPT ![s] = v] /\ proc' = [proc EXCEPT ![p] = At(p, "writing")]
    BY <1>3, <1>4, <1>7 DEF write_inode, Set, MaySleep
  <2> QED
    BY <1>1, <1>2, <1>5, <1>6, <2>1, MarksSeen
<1>8. CASE ~inode[s].dirt
  <2>1. inode' = inode /\ proc' = [proc EXCEPT ![p] = At(p, "written")]
    BY <1>3, <1>8 DEF write_inode, Continue
  <2> QED
    BY <1>1, <1>2, <1>6, <2>1, UnseenProc
<1> QED
  BY <1>7, <1>8

LEMMA UnlockInode_Seen ==
    ASSUME IInv, IInv', NEW p \in Procs, unlock_inode(p)
    PROVE  Unseen
<1>1. proc[p].pc = "unlock" /\ disk' = disk /\ dir' = dir
  BY DEF unlock_inode, Turn, fs
<1>2. proc[p].inode \in Slots /\ inode[proc[p].inode] \in Inodes /\ ~Holds(proc[p])
  BY <1>1, Pointed
<1>3. PICK s \in Slots : s = proc[p].inode
  BY <1>2
<1>4. PICK v : v = [inode[s] EXCEPT !.lock = FALSE]
  OBVIOUS
<1>5. v.ino = inode[s].ino /\ v.data = inode[s].data
  BY <1>2, <1>3, <1>4 DEF Inodes
<1>6. ~Holds(At(p, "written"))
  BY There DEF Holds, At, Places
<1>7. inode' = [inode EXCEPT ![s] = v] /\ proc' = [proc EXCEPT ![p] = At(p, "written")]
  BY <1>3, <1>4 DEF unlock_inode, Set, Continue
<1> QED
  BY <1>1, <1>2, <1>5, <1>6, <1>7, MarksSeen

LEMMA WriteReturn_Seen ==
    ASSUME IInv, IInv', NEW p \in Procs, WriteReturn(p)
    PROVE  Unseen
<1>1. proc[p].pc = "written" /\ disk' = disk /\ dir' = dir /\ inode' = inode
  BY DEF WriteReturn, Turn, fs, tables
<1>2. proc[p] \in Places /\ Stage(proc[p])
  BY There
<1>3. proc[p].then \in {"iput", "sync"}
  BY <1>1, <1>2 DEF Stage, Places
<1>4. ~Holds([At(p, "iput_repeat") EXCEPT !.then = "none"]) /\ ~Holds(Idle) /\ ~Holds(proc[p])
  BY <1>1, <1>2 DEF Holds, At, Places, Idle
<1>5. CASE proc[p].then = "iput"
  <2>1. WaitThen(p, [At(p, "iput_repeat") EXCEPT !.then = "none"], proc[p].inode)
    BY <1>5 DEF WriteReturn
  <2>2. proc' = [proc EXCEPT ![p] = [At(p, "iput_repeat") EXCEPT !.then = "none"]]
    BY <2>1, Waited
  <2> QED
    BY <1>1, <1>4, <2>2, UnseenProc
<1>6. CASE proc[p].then = "sync"
  <2>1. proc' = [proc EXCEPT ![p] = Idle]
    BY <1>6 DEF WriteReturn, MaySleep
  <2> QED
    BY <1>1, <1>4, <2>1, UnseenProc
<1> QED
  BY <1>3, <1>5, <1>6

LEMMA SyncInodes_Seen ==
    ASSUME IInv, IInv', NEW p \in Procs, NEW s \in Slots, sync_inodes(p, s)
    PROVE  Unseen
<1>1. /\ proc[p].inode = None /\ disk' = disk /\ dir' = dir /\ inode' = inode
      /\ WaitThen(p, [AtWith(p, "write", s) EXCEPT !.then = "sync"], s)
  BY DEF sync_inodes, fs, tables
<1>2. PICK r : r = [AtWith(p, "write", s) EXCEPT !.then = "sync"]
  OBVIOUS
<1>3. proc' = [proc EXCEPT ![p] = r]
  BY <1>1, <1>2, Waited
<1>4. ~Holds(r) /\ ~Holds(proc[p])
  <2>1. proc[p] \in Places
    BY There
  <2> QED
    BY <1>1, <1>2, <2>1 DEF Holds, AtWith, Places
<1> QED
  BY <1>1, <1>3, <1>4, UnseenProc

LEMMA ReturnPlace ==
    ASSUME IInv, NEW p \in Procs, IputReturn(p)
    PROVE  \E r : ~Holds(r) /\ proc' = [proc EXCEPT ![p] = r]
<1>1. proc' = [proc EXCEPT ![p] = Idle] \/ proc' = [proc EXCEPT ![p] = AtWith(p, "iget", None)]
  BY DEF IputReturn, MaySleep, Continue
<1>2. ~Holds(Idle) /\ ~Holds(AtWith(p, "iget", None))
  BY There DEF Holds, AtWith, Places, Idle
<1> QED
  BY <1>1, <1>2

LEMMA IputEnter_Seen ==
    ASSUME IInv, IInv', NEW p \in Procs, IputEnter(p)
    PROVE  Unseen
<1>1. proc[p].pc = "iput" /\ disk' = disk /\ dir' = dir /\ inode' = inode
  BY DEF IputEnter, Turn, fs, tables
<1>2. ~Holds(proc[p])
  BY <1>1, Pointed
<1>3. ~Holds(At(p, "iput_repeat"))
  BY There DEF Holds, At, Places
<1>4. IputReturn(p) \/ proc' = [proc EXCEPT ![p] = At(p, "iput_repeat")]
  BY DEF IputEnter, Continue
<1>5. PICK r : ~Holds(r) /\ proc' = [proc EXCEPT ![p] = r]
  BY <1>3, <1>4, ReturnPlace
<1> QED
  BY <1>1, <1>2, <1>5, UnseenProc

LEMMA IputRepeat_Seen ==
    ASSUME IInv, IInv', NEW p \in Procs, IputRepeat(p)
    PROVE  Unseen
<1>1. proc[p].pc = "iput_repeat" /\ disk' = disk /\ dir' = dir
  BY DEF IputRepeat, Turn, fs
<1>2. proc[p].inode \in Slots /\ inode[proc[p].inode] \in Inodes /\ ~Holds(proc[p])
  BY <1>1, Pointed
<1>3. PICK s \in Slots : s = proc[p].inode
  BY <1>2
<1>4. IputShared(p, s) \/ IputLast(p, s)
  BY <1>3 DEF IputRepeat
<1>5. PICK v : v = [inode[s] EXCEPT !.count = @ - 1]
  OBVIOUS
<1>6. v.ino = inode[s].ino /\ v.data = inode[s].data
  BY <1>2, <1>3, <1>5 DEF Inodes
<1>7. CASE inode' = [inode EXCEPT ![s] = v] /\ IputReturn(p)
  <2>1. PICK r : ~Holds(r) /\ proc' = [proc EXCEPT ![p] = r]
    BY <1>7, ReturnPlace
  <2> QED
    BY <1>1, <1>2, <1>6, <1>7, <2>1, MarksSeen
<1>8. CASE inode' = inode /\ \/ MaySleep(p, At(p, "put_inode"))
                             \/ WaitThen(p, [At(p, "write") EXCEPT !.then = "iput"], s)
  <2>1. ~Holds(At(p, "put_inode")) /\ ~Holds([At(p, "write") EXCEPT !.then = "iput"])
    BY There DEF Holds, At, Places
  <2>2. PICK r \in {At(p, "put_inode"), [At(p, "write") EXCEPT !.then = "iput"]} :
            proc' = [proc EXCEPT ![p] = r]
    BY <1>8, Waited DEF MaySleep
  <2> QED
    BY <1>1, <1>2, <1>8, <2>1, <2>2, UnseenProc
<1>9. CASE IputShared(p, s)
  BY <1>5, <1>7, <1>9 DEF IputShared, Set
<1>10. CASE IputLast(p, s)
  <2>1. CASE inode[s].nlink = 0
    BY <1>8, <1>10, <2>1 DEF IputLast
  <2>2. CASE inode[s].nlink # 0 /\ inode[s].dirt
    BY <1>8, <1>10, <2>2 DEF IputLast
  <2>3. CASE inode[s].nlink # 0 /\ ~inode[s].dirt
    BY <1>5, <1>7, <1>10, <2>3 DEF IputLast, Set
  <2> QED
    BY <2>1, <2>2, <2>3
<1> QED
  BY <1>4, <1>9, <1>10

LEMMA PutInode_Seen ==
    ASSUME IInv, IInv', NEW p \in Procs, put_inode(p)
    PROVE  Unseen
<1>1. proc[p].pc = "put_inode" /\ disk' = disk /\ dir' = dir
  BY DEF put_inode, Turn, fs
<1>2. proc[p].inode \in Slots /\ inode[proc[p].inode] \in Inodes /\ ~Holds(proc[p])
  BY <1>1, Pointed
<1>3. PICK s \in Slots : s = proc[p].inode
  BY <1>2
<1>4. PICK v : v = [inode[s] EXCEPT !.dirt = TRUE]
  OBVIOUS
<1>5. v.ino = inode[s].ino /\ v.data = inode[s].data
  BY <1>2, <1>3, <1>4 DEF Inodes
<1>6. inode' = [inode EXCEPT ![s] = v] /\ (IputReturn(p) \/ WaitThen(p, At(p, "clear"), s))
  BY <1>3, <1>4 DEF put_inode, Set
<1>7. ~Holds(At(p, "clear"))
  BY There DEF Holds, At, Places
<1>8. PICK r : ~Holds(r) /\ proc' = [proc EXCEPT ![p] = r]
  BY <1>6, <1>7, ReturnPlace, Waited
<1> QED
  BY <1>1, <1>2, <1>5, <1>6, <1>8, MarksSeen

\* Writing a copy back changes where its content is, not what it is.
LEMMA UpdateInode_Seen ==
    ASSUME IInv, IInv', NEW p \in Procs, update_inode(p)
    PROVE  Unseen
<1>1. proc[p].pc = "writing" /\ dir' = dir
  BY DEF update_inode, Turn
<1>2. /\ proc[p].inode \in Slots /\ inode[proc[p].inode] \in Inodes /\ ~Holds(proc[p])
      /\ proc[p].inode # None => Handle(proc[p], inode[proc[p].inode])
  BY <1>1, Pointed, There
<1>3. PICK s \in Slots : s = proc[p].inode
  BY <1>2
<1>4. inode[s].ino # 0 /\ inode[s].data # None
  BY <1>1, <1>2, <1>3, NoneAssumption DEF Handle
<1>5. PICK m \in Inos : m = inode[s].ino
  BY <1>2, <1>3, <1>4 DEF Inodes
<1>6. PICK v : v = [inode[s] EXCEPT !.dirt = FALSE]
  OBVIOUS
<1>7. v.ino = inode[s].ino /\ v.data = inode[s].data
  BY <1>2, <1>3, <1>6 DEF Inodes
<1>8. PICK raw : disk' = [disk EXCEPT ![m] = raw]
  BY <1>3, <1>5 DEF update_inode
<1>9. inode' = [inode EXCEPT ![s] = v] /\ proc' = [proc EXCEPT ![p] = At(p, "unlock")]
  BY <1>3, <1>6 DEF update_inode, Set, MaySleep
<1>10. \A t \in Slots : inode'[t].ino = inode[t].ino /\ inode'[t].data = inode[t].data
  BY <1>7, <1>9, FieldsKept
<1>11. ASSUME NEW n \in Inos PROVE Latest(n, inode', disk') = Latest(n, inode, disk)
  <2>1. CASE n = m
    <3>1. m # 0
      BY InosAssumption
    <3>2. \A t \in Slots : inode[t].ino = m => t = s
      BY <1>5, <3>1 DEF IInv, OneCopy
    <3>3. Latest(m, inode, disk) = inode[s].data
      BY <1>4, <1>5, <3>2, LatestCopy
    <3>4. /\ inode'[s].ino = m /\ inode'[s].data # None /\ inode'[s].data = inode[s].data
          /\ \A t \in Slots : inode'[t].ino = m => t = s
      BY <1>4, <1>5, <1>10, <3>2
    <3>5. Latest(m, inode', disk') = inode'[s].data
      BY <3>4, LatestCopy
    <3> QED
      BY <2>1, <3>3, <3>4, <3>5
  <2>2. CASE n # m
    <3>1. disk'[n] = disk[n]
      BY <1>8, <2>2 DEF IInv, Types
    <3> QED
      BY <1>10, <3>1, LatestKept
  <2> QED
    BY <2>1, <2>2
<1>12. content' = content
  BY <1>11 DEF content
<1>13. ~Holds(At(p, "unlock"))
  BY There DEF Holds, At, Places
<1>14. Holding(At(p, "unlock")) = Holding(proc[p])
  BY <1>2, <1>13 DEF Holds, Holding
<1> QED
  BY <1>1, <1>9, <1>12, <1>14, HeldKept DEF Unseen

-----------------------------------------------------------------------------
(* The steps that show are steps of InodeStore.                            *)

\* A process that holds an inode owns it: the number, and the only copy.
LEMMA HeldCopy ==
    ASSUME IInv, NEW p \in Procs, Holds(proc[p])
    PROVE  \E s \in Slots : /\ s = proc[p].inode /\ Owns(p, s) /\ inode[s] \in Inodes
                            /\ proc[p].nr \in Inos /\ inode[s].ino = proc[p].nr
                            /\ inode[s].data # None
                            /\ \A t \in Slots : inode[t].ino = proc[p].nr => t = s
                            /\ held[p] = proc[p].nr /\ held[p] # 0
<1>1. /\ proc[p].pc = "user" /\ proc[p].inode # None /\ Stage(proc[p])
      /\ proc[p].inode \in Slots \cup {None} /\ proc[p].nr \in Inos \cup {0}
      /\ Handle(proc[p], inode[proc[p].inode])
  BY There DEF Holds
<1>2. PICK s \in Slots : s = proc[p].inode
  BY <1>1
<1>3. proc[p].nr # 0 /\ proc[p].then = "none"
  BY <1>1 DEF Stage
<1>4. Owns(p, s) /\ inode[s] \in Inodes
  BY <1>2, <1>3 DEF Owns, IInv, Types
<1>5. inode[s].ino = proc[p].nr /\ inode[s].data # None
  BY <1>1, <1>2, <1>3 DEF Handle
<1>6. \A t \in Slots : inode[t].ino = proc[p].nr => t = s
  BY <1>3, <1>5 DEF IInv, OneCopy
<1>7. held[p] = proc[p].nr
  BY <1>1 DEF held, Holding
<1> QED
  BY <1>1, <1>2, <1>3, <1>4, <1>5, <1>6, <1>7

LEMMA IgetReturn_Seen ==
    ASSUME IInv, IInv', NEW p \in Procs, IgetReturn(p)
    PROVE  Unseen \/ \E n \in Inos : Store!Get(p, n)
<1>1. proc[p].pc = "iget_return" /\ disk' = disk /\ dir' = dir /\ inode' = inode
  BY DEF IgetReturn, Turn, fs
<1>2. proc[p] \in Places /\ Stage(proc[p]) /\ proc[p].nr \in Inos \cup {0}
  BY There
<1>3. proc[p].inode # None /\ proc[p].nr \in Inos
  BY <1>1, <1>2 DEF Stage
<1>4. CASE proc' = [proc EXCEPT ![p] = proc[p]]
  <2>1. ~Holds(proc[p])
    BY <1>1 DEF Holds
  <2> QED
    BY <1>1, <1>4, <2>1, UnseenProc
<1>5. CASE proc' = [proc EXCEPT ![p] = At(p, "user")]
  <2>1. PICK r : r = At(p, "user")
    OBVIOUS
  <2>2. r.pc = "user" /\ r.inode = proc[p].inode /\ r.nr = proc[p].nr
    BY <1>2, <2>1 DEF At, Places
  <2>3. Holding(r) = proc[p].nr /\ Holding(proc[p]) = 0
    BY <1>1, <1>3, <2>2 DEF Holding
  <2>4. held[p] = 0
    BY <2>3 DEF held
  <2>5. held' = [held EXCEPT ![p] = proc[p].nr]
    BY <1>5, <2>1, <2>3 DEF held, IInv, Types
  <2>6. content' = content
    BY <1>1, ContentKept
  <2>7. Store!Get(p, proc[p].nr)
    BY <1>1, <2>4, <2>5, <2>6 DEF Store!Get
  <2> QED
    BY <1>3, <2>7
<1> QED
  BY <1>4, <1>5 DEF IgetReturn, MaySleep

LEMMA Iput_Seen ==
    ASSUME IInv, IInv', NEW p \in Procs, iput(p)
    PROVE  Store!Put(p)
<1>1. /\ disk' = disk /\ dir' = dir /\ inode' = inode /\ Holds(proc[p])
      /\ WaitThen(p, [proc[p] EXCEPT !.pc = "iput", !.nr = 0], proc[p].inode)
  BY DEF iput, Turn, tables, fs, Holds
<1>2. PICK r : r = [proc[p] EXCEPT !.pc = "iput", !.nr = 0]
  OBVIOUS
<1>3. proc' = [proc EXCEPT ![p] = r]
  BY <1>1, <1>2, Waited
<1>4. Holding(r) = 0
  <2>1. proc[p] \in Places
    BY There
  <2> QED
    BY <1>2, <2>1 DEF Holding, Places
<1>5. held[p] # 0
  BY <1>1, HeldCopy
<1>6. held' = [held EXCEPT ![p] = 0]
  BY <1>3, <1>4 DEF held, IInv, Types
<1>7. content' = content
  BY <1>1, ContentKept
<1> QED
  BY <1>1, <1>5, <1>6, <1>7 DEF Store!Put

LEMMA Change_Seen ==
    ASSUME IInv, IInv', NEW p \in Procs, NEW c \in Contents, Change(p, c)
    PROVE  Store!Change(p)
<1>1. disk' = disk /\ dir' = dir /\ Holds(proc[p]) /\ proc' = [proc EXCEPT ![p] = proc[p]]
  BY DEF Change, Turn, fs, Holds, MaySleep
<1>2. PICK s \in Slots : /\ s = proc[p].inode /\ Owns(p, s) /\ inode[s] \in Inodes
                         /\ proc[p].nr \in Inos /\ inode[s].ino = proc[p].nr
                         /\ inode[s].data # None
                         /\ \A t \in Slots : inode[t].ino = proc[p].nr => t = s
                         /\ held[p] = proc[p].nr /\ held[p] # 0
  BY <1>1, HeldCopy
<1>3. PICK m \in Inos : m = proc[p].nr
  BY <1>2
<1>4. PICK v : v = [inode[s] EXCEPT !.data = c, !.dirt = TRUE]
  OBVIOUS
<1>5. v.ino = m /\ v.data = c
  BY <1>2, <1>3, <1>4 DEF Inodes
<1>6. inode' = [inode EXCEPT ![s] = v]
  BY <1>2, <1>4 DEF Change, Set
<1>7. /\ inode'[s].ino = m /\ inode'[s].data = c
      /\ \A t \in Slots : t # s => inode'[t] = inode[t]
  BY <1>5, <1>6 DEF IInv, Types
<1>8. held' = held
  BY <1>1, HeldKept
<1>9. Latest(m, inode', disk') = c
  <2>1. \A t \in Slots : inode'[t].ino = m => t = s
    BY <1>2, <1>3, <1>7
  <2>2. c # None
    BY NoneAssumption
  <2>3. Latest(m, inode', disk') = inode'[s].data
    BY <1>7, <2>1, <2>2, LatestCopy
  <2> QED
    BY <1>7, <2>3
<1>10. ASSUME NEW n \in Inos, n # m PROVE Latest(n, inode', disk') = Latest(n, inode, disk)
  <2>1. \A t \in Slots : /\ inode'[t].ino = n /\ inode'[t].data # None <=>
                              inode[t].ino = n /\ inode[t].data # None
                         /\ inode[t].ino = n /\ inode[t].data # None =>
                              inode'[t].data = inode[t].data
    BY <1>2, <1>3, <1>7, <1>10
  <2> QED
    BY <1>1, <2>1, LatestKept
<1>11. content' = [content EXCEPT ![m] = c]
  BY <1>9, <1>10 DEF content
<1>12. held[p] = m
  BY <1>2, <1>3
<1> QED
  BY <1>1, <1>2, <1>8, <1>11, <1>12 DEF Store!Change

LEMMA AddEntry_Seen ==
    ASSUME IInv, IInv', NEW p \in Procs, add_entry(p)
    PROVE  Store!Name(p, TRUE)
<1>1. /\ disk' = disk /\ inode' = inode /\ Holds(proc[p])
      /\ proc' = [proc EXCEPT ![p] = proc[p]] /\ dir' = [dir EXCEPT ![proc[p].nr] = TRUE]
  BY DEF add_entry, Turn, tables, Holds, MaySleep
<1>2. held[p] = proc[p].nr /\ held[p] # 0
  BY <1>1, HeldCopy
<1>3. held' = held
  BY <1>1, HeldKept
<1>4. content' = content
  BY <1>1, ContentKept
<1>5. dir' = [dir EXCEPT ![held[p]] = TRUE]
  BY <1>1, <1>2
<1> QED
  BY <1>2, <1>3, <1>4, <1>5 DEF Store!Name

LEMMA Unlink_Seen ==
    ASSUME IInv, IInv', NEW p \in Procs, unlink(p)
    PROVE  Store!Name(p, FALSE)
<1>1. /\ disk' = disk /\ Holds(proc[p]) /\ proc' = [proc EXCEPT ![p] = proc[p]]
      /\ dir' = [dir EXCEPT ![proc[p].nr] = FALSE]
  BY DEF unlink, Turn, Holds, MaySleep
<1>2. PICK s \in Slots : /\ s = proc[p].inode /\ inode[s] \in Inodes
                         /\ held[p] = proc[p].nr /\ held[p] # 0
  BY <1>1, HeldCopy
<1>3. PICK v : v = [inode[s] EXCEPT !.nlink = 0, !.dirt = TRUE]
  OBVIOUS
<1>4. v.ino = inode[s].ino /\ v.data = inode[s].data
  BY <1>2, <1>3 DEF Inodes
<1>5. inode' = [inode EXCEPT ![s] = v]
  BY <1>2, <1>3 DEF unlink, Set
<1>6. \A t \in Slots : inode'[t].ino = inode[t].ino /\ inode'[t].data = inode[t].data
  BY <1>4, <1>5, FieldsKept
<1>7. content' = content
  BY <1>1, <1>6, ContentKept
<1>8. held' = held
  BY <1>1, HeldKept
<1>9. dir' = [dir EXCEPT ![held[p]] = FALSE]
  BY <1>1, <1>2
<1> QED
  BY <1>2, <1>7, <1>8, <1>9 DEF Store!Name

\* Nobody above holds a number that no copy in memory has.
LEMMA NotHeld ==
    ASSUME IInv, NEW n \in Inos, \A t \in Slots : inode[t].ino # n
    PROVE  \A q \in Procs : held[q] # n
<1> SUFFICES ASSUME NEW q \in Procs, held[q] = n PROVE FALSE
  OBVIOUS
<1>1. n # 0
  BY InosAssumption
<1>2. Holds(proc[q])
  BY <1>1 DEF held, Holding, Holds
<1> QED
  BY <1>2, HeldCopy

LEMMA NewNumber_Seen ==
    ASSUME IInv, IInv', NEW p \in Procs, NewNumber(p)
    PROVE  \E n \in Inos : Store!Create(p, n)
<1>1. proc[p].pc = "new_inode" /\ disk' = disk /\ dir' = dir
  BY DEF NewNumber, Turn
<1>2. PICK n \in Inos, c \in Contents :
        /\ ~imap[n]
        /\ Set(proc[p].empty, [Cleared EXCEPT !.ino = n, !.count = 1, !.nlink = 1,
                                              !.dirt = TRUE, !.data = c])
        /\ MaySleep(p, [Idle EXCEPT !.nr = n, !.inode = proc[p].empty])
  BY DEF NewNumber
<1>3. Stage(proc[p]) /\ proc[p].empty \in Slots \cup {None}
  BY There
<1>4. PICK s \in Slots : s = proc[p].empty
  BY <1>1, <1>3 DEF Stage
<1>5. inode[s].ino = 0 /\ n # 0 /\ c # None /\ s # None
  BY <1>4, Handed, InosAssumption, NoneAssumption DEF Fresh
<1>6. PICK r : r = [Idle EXCEPT !.nr = n, !.inode = s]
  OBVIOUS
<1>7. r.pc = "user" /\ r.nr = n /\ r.inode = s
  <2>1. Idle \in Places /\ Idle.pc = "user"
    BY DEF Idle, Places, PCs
  <2> QED
    BY <1>6, <2>1 DEF Places
<1>8. PICK v : v = [Cleared EXCEPT !.ino = n, !.count = 1, !.nlink = 1, !.dirt = TRUE, !.data = c]
  OBVIOUS
<1>9. v.ino = n /\ v.data = c
  <2>1. Cleared \in Inodes
    BY DEF Cleared, Inodes
  <2> QED
    BY <1>8, <2>1 DEF Inodes
<1>10. proc' = [proc EXCEPT ![p] = r] /\ inode' = [inode EXCEPT ![s] = v]
  BY <1>2, <1>4, <1>6, <1>8 DEF Set, MaySleep
<1>11. inode'[s].ino = n /\ inode'[s].data = c /\ \A t \in Slots : t # s => inode'[t] = inode[t]
  BY <1>9, <1>10 DEF IInv, Types
<1>12. ~dir[n] /\ \A t \in Slots : inode[t].ino # n
  <2>1. ~dir[n]
    BY <1>2 DEF IInv, Number
  <2>2. \A t \in Slots : inode[t].ino # n
    BY <1>2, <1>5 DEF IInv, Slot
  <2> QED
    BY <2>1, <2>2
<1>13. Store!Released(n)
  BY <1>12, NotHeld DEF Store!Released
<1>14. held[p] = 0
  BY <1>1 DEF held, Holding
<1>15. held' = [held EXCEPT ![p] = n]
  <2>1. Holding(r) = n
    BY <1>5, <1>7 DEF Holding
  <2> QED
    BY <1>10, <2>1 DEF held, IInv, Types
<1>16. content' = [content EXCEPT ![n] = c]
  <2>1. Latest(n, inode', disk') = c
    <3>1. \A t \in Slots : inode'[t].ino = n => t = s
      BY <1>11, <1>12
    <3>2. Latest(n, inode', disk') = inode'[s].data
      BY <1>5, <1>11, <3>1, LatestCopy
    <3> QED
      BY <1>11, <3>2
  <2>2. ASSUME NEW m \in Inos, m # n PROVE Latest(m, inode', disk') = Latest(m, inode, disk)
    <3>1. m # 0
      BY InosAssumption
    <3>2. \A t \in Slots : /\ inode'[t].ino = m /\ inode'[t].data # None <=>
                                inode[t].ino = m /\ inode[t].data # None
                           /\ inode[t].ino = m /\ inode[t].data # None =>
                                inode'[t].data = inode[t].data
      BY <1>5, <1>11, <2>2, <3>1
    <3> QED
      BY <1>1, <3>2, LatestKept
  <2> QED
    BY <2>1, <2>2 DEF content
<1>17. Store!Create(p, n)
  BY <1>1, <1>13, <1>14, <1>15, <1>16 DEF Store!Create
<1> QED
  BY <1>17

\* clear_inode: the inode has no name and its only holder is iput itself, so
\* what the disk says instead of the copy is nobody's business.
LEMMA ClearInode_Seen ==
    ASSUME IInv, IInv', NEW p \in Procs, clear_inode(p)
    PROVE  \E n \in Inos : Store!Discard(n)
<1>1. proc[p].pc = "clear" /\ disk' = disk /\ dir' = dir /\ IputReturn(p)
  BY DEF clear_inode, Turn
<1>2. /\ proc[p].inode \in Slots /\ inode[proc[p].inode] \in Inodes /\ ~Holds(proc[p])
      /\ Stage(proc[p])
      /\ proc[p].inode # None => Handle(proc[p], inode[proc[p].inode])
  BY <1>1, Pointed, There
<1>3. PICK s \in Slots : s = proc[p].inode
  BY <1>2
<1>4. proc[p].then = "none" /\ Owns(p, s) /\ Handle(proc[p], inode[s])
  BY <1>1, <1>2, <1>3, NoneAssumption DEF Stage, Owns
<1>5. inode[s].ino # 0 /\ inode[s].data # None /\ inode[s].nlink = 0
  BY <1>1, <1>4 DEF Handle
<1>6. PICK n \in Inos : n = inode[s].ino
  BY <1>2, <1>3, <1>5 DEF Inodes
<1>7. inode' = [inode EXCEPT ![s] = Cleared]
  BY <1>3 DEF clear_inode, Set
<1>8. inode'[s].ino = 0 /\ \A t \in Slots : t # s => inode'[t] = inode[t]
  BY <1>7 DEF IInv, Types, Cleared
<1>9. ~dir[n]
  <2>1. Slot(inode[s])
    BY DEF IInv
  <2> QED
    BY <1>5, <1>6, <2>1 DEF Slot
<1>10. \A t \in Slots : inode[t].ino = n => t = s
  BY <1>5, <1>6 DEF IInv, OneCopy
<1>11. ASSUME NEW q \in Procs PROVE held[q] # n
  <2> SUFFICES ASSUME held[q] = n PROVE FALSE
    OBVIOUS
  <2>1. Holds(proc[q])
    BY <1>5, <1>6 DEF held, Holding, Holds
  <2>2. PICK t \in Slots : Owns(q, t) /\ inode[t].ino = proc[q].nr /\ held[q] = proc[q].nr
    BY <2>1, HeldCopy
  <2>3. Owns(q, s)
    BY <1>10, <2>2
  <2>4. q # p
    BY <1>2, <2>1
  <2>5. Apart(p, q)
    BY <2>4 DEF IInv
  <2> QED
    BY <1>1, <1>3, <2>3, <2>5 DEF Apart, Ending
<1>12. Store!Released(n)
  BY <1>9, <1>11 DEF Store!Released
<1>13. held' = held
  <2>1. PICK r : ~Holds(r) /\ proc' = [proc EXCEPT ![p] = r]
    BY <1>1, ReturnPlace
  <2>2. Holding(r) = Holding(proc[p])
    BY <1>2, <2>1 DEF Holds, Holding
  <2> QED
    BY <2>1, <2>2, HeldKept
<1>14. content' = [content EXCEPT ![n] = disk[n].data]
  <2>1. Latest(n, inode', disk') = disk[n].data
    <3>1. \A t \in Slots : inode'[t].ino # n
      BY <1>5, <1>6, <1>8, <1>10
    <3> QED
      BY <1>1, <3>1, LatestDisk
  <2>2. ASSUME NEW m \in Inos, m # n PROVE Latest(m, inode', disk') = Latest(m, inode, disk)
    <3>1. m # 0
      BY InosAssumption
    <3>2. \A t \in Slots : /\ inode'[t].ino = m /\ inode'[t].data # None <=>
                                inode[t].ino = m /\ inode[t].data # None
                           /\ inode[t].ino = m /\ inode[t].data # None =>
                                inode'[t].data = inode[t].data
      BY <1>6, <1>8, <2>2, <3>1
    <3> QED
      BY <1>1, <3>2, LatestKept
  <2> QED
    BY <2>1, <2>2 DEF content
<1>15. disk[n].data \in Contents
  BY DEF IInv, Types
<1>16. Store!Discard(n)
  BY <1>1, <1>12, <1>13, <1>14, <1>15 DEF Store!Discard
<1> QED
  BY <1>16

LEMMA UnseenStutter ==
    Unseen => UNCHANGED Store!vars
BY DEF Unseen, Store!vars

LEMMA NextRefines ==
    ASSUME IInv, IInv', Next
    PROVE  Store!Next \/ UNCHANGED Store!vars
<1>1. PICK p \in Procs : Late(p) \/ Step(p) \/ Call(p)
  BY DEF Next
<1>0. CASE Late(p)
  BY <1>0, IgetFound_Seen, IgetInsert_Seen, UnseenStutter DEF Late
<1>2. CASE Step(p)
  <2>1. \/ Unseen \/ \E n \in Inos : Store!Get(p, n)
        \/ \E n \in Inos : Store!Create(p, n)
        \/ \E n \in Inos : Store!Discard(n)
    BY <1>2, IgetNoRoom_Seen, ReadInode_Seen,
       IgetRecheck_Seen, IgetReturn_Seen, EmptyTake_Seen, EmptyMoves_Seen, WriteInode_Seen,
       UpdateInode_Seen, UnlockInode_Seen, WriteReturn_Seen, IputEnter_Seen, IputRepeat_Seen,
       PutInode_Seen, ClearInode_Seen, NewNumber_Seen, NewNone_Seen DEF Step
  <2> QED
    BY <2>1, UnseenStutter DEF Store!Next
<1>3. CASE Call(p)
  <2>1. \/ Unseen \/ Store!Put(p) \/ Store!Change(p)
        \/ \E b \in BOOLEAN : Store!Name(p, b)
    BY <1>3, Lookup_Seen, Iput_Seen, NewInode_Seen, AddEntry_Seen, Unlink_Seen, Change_Seen,
       SyncInodes_Seen, Invalidate_Seen DEF Call
  <2> QED
    BY <2>1, UnseenStutter DEF Store!Next
<1> QED
  BY <1>0, <1>1, <1>2, <1>3

LEMMA StutterRefines ==
    UNCHANGED vars => UNCHANGED Store!vars
BY DEF vars, Store!vars, content, held

\* Whoever holds an inode sees and changes its one current content: copies in
\* memory, writing them back, recycling and reading again never lose a change
\* and never show an older one (fs/inode.c:262-285, 398-402, 447-460, 526-580).
THEOREM CacheImplementsStore ==
    Spec => ImplementsStore
<1>1. (stale \/ IInv) /\ (stale \/ IInv)' /\ [Next]_vars
        => [stale' \/ Store!Next]_(Store!vars)
  <2> SUFFICES ASSUME stale \/ IInv, stale' \/ IInv', [Next]_vars
               PROVE  stale' \/ Store!Next \/ UNCHANGED Store!vars
    OBVIOUS
  <2> QED
    BY NextRefines, StutterRefines, StaleStays
<1>2. Spec => [](stale \/ IInv)
  BY CacheInvariant
<1> QED
  BY <1>1, <1>2, StoreInit, PTL DEF Spec, ImplementsStore

=============================================================================
