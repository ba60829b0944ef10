-------------------------- MODULE BufferCacheProofs --------------------------
(***************************************************************************)
(* Proofs about BufferCache, for every number of processes, buffers and    *)
(* blocks: reference counts are exact, every locked buffer has one owner,  *)
(* no loop runs off the list of buffers, a block is in the cache once, and *)
(* the cache implements BlockStore if no write fails.                      *)
(***************************************************************************)
EXTENDS BufferCache, FiniteSetTheorems, WellFoundedInduction, TLAPS

-----------------------------------------------------------------------------
(* The inductive invariant.                                                *)

Holding == {"user", "found", "got", "bread", "readahead", "aheaddone",
            "brelse", "rw", "slot", "wrote", "shrunk"}

Buffers == [blk : Blocks \cup {None}, count : Int, dirt : BOOLEAN, lock : BOOLEAN,
            uptodate : BOOLEAN, data : Contents \cup {None}]

Pcs == Holding \cup {"sync", "getblk", "chosen", "shrink0", "shrink", "free"}
Rws == {"READ", "READA", "WRITE", "WRITEA"}
Rets == {"user", "bread", "readahead", "aheaddone", "wrote", "shrunk"}
Thens == {"user", "getblk", "shrink0"}
Passes == 0 .. 2
Urgency == 0 .. 6

Places == [pc : Pcs, waiting : BOOLEAN, bh : Bufs \cup {None}, rw : Rws,
           todo : {<<>>}, plugged : {FALSE}, ret : Rets,
           n : Blocks \cup {None}, block : Blocks \cup {None}, ahead : Blocks \cup {None},
           first : Bufs \cup {None}, i : Nat, pass : Passes, wait : BOOLEAN, retry : BOOLEAN,
           priority : Urgency, then : Thens]

Requests == [cmd : {"READ", "WRITE"}, bhs : Seq(Bufs), slot : {"low", "high"}]

Types ==
    /\ buf \in [Bufs -> Buffers]
    /\ queue \in Seq(Requests) /\ moved \in BOOLEAN
    /\ disk \in [Blocks -> Contents \cup {None}]
    /\ proc \in [Procs -> Places]
    /\ free_list \in Seq(Bufs) /\ free_list # <<>>

\* Which local variables are in use at each place of a process.
Searching(r) ==
    r.pc \in {"getblk", "found", "chosen", "got"}
    \/ (r.pc \in {"sync", "wrote", "rw", "slot"} /\ r.then = "getblk")
Stage(r) ==
    /\ r.pc \notin {"user", "getblk", "shrink0"} => r.bh # None
    /\ r.pc = "shrink0" => r.bh = None
    /\ r.waiting => r.pc \in {"sync", "found", "chosen", "bread", "brelse", "free", "rw"}
    /\ r.pc \in {"rw", "slot"} <=> r.ret # "user"
    /\ r.pc \in {"wrote", "free", "shrunk"} \/ r.ret \in {"wrote", "shrunk"} => r.i > 0
    /\ r.pc \in {"shrink0", "shrink", "free", "shrunk"} \/ r.ret = "shrunk" => r.then # "getblk"
    /\ r.pc = "aheaddone" \/ r.ret = "aheaddone" => r.first # None
    /\ r.pc = "readahead" \/ r.ret = "readahead" => r.ahead # None
    /\ r.pc = "user" /\ r.bh = None => r = Idle
    /\ Searching(r) => r.block # None /\ r.n # None
    /\ r.pc \notin {"user", "bread", "brelse", "aheaddone"} /\ r.first = None => r.block = r.n
    /\ r.first # None => /\ r.ahead = None
                         /\ r.pc \in {"getblk", "found", "chosen", "got", "aheaddone",
                                      "sync", "wrote", "rw", "slot"}
                         /\ r.ret \in {"user", "aheaddone", "wrote"}
                         /\ r.pc \in {"sync", "wrote"} \/ r.ret = "wrote" => r.then = "getblk"

\* A process that is not at a place where it may have slept is the one that runs.
Runs(p) ==
    ~proc[p].waiting /\ proc[p].pc \notin {"user", "slot", "getblk"} => current = p

\* The buffers a process refers to are in the list.
InList(r, l) ==
    /\ r.pc # "getblk" => r.bh \in ToSet(l) \cup {None}
    /\ r.first \in ToSet(l) \cup {None}

\* A buffer without a block is as grow_buffers and try_to_free leave it, and
\* so are those that are not in the list.
Blank ==
    /\ \A b \in Bufs : buf[b].blk = None => buf[b] = Unused
    /\ \A b \in Bufs \ ToSet(free_list) : buf[b].blk = None

\* A block is in the cache once.
BlockOnce ==
    \A a, b \in Bufs : a # b /\ buf[a].blk # None => buf[a].blk # buf[b].blk

\* The block that a process has looked up is the one it wanted.
Found(r) ==
    /\ r.pc = "got" => buf[r.bh].blk = r.block
    /\ r.pc \in {"bread", "readahead"} => buf[r.bh].blk = r.n
    /\ r.pc \in {"rw", "slot"} /\ r.ret \in {"bread", "readahead"} => buf[r.bh].blk = r.n
    /\ r.first # None => buf[r.first].blk = r.n
    /\ r.pc = "user" /\ r.bh # None => buf[r.bh].blk = r.n

\* Buffer b is the j-th one of the k-th request of queue q; a buffer is in a
\* queue once.
Spot(q, b, k, j) == k \in 1 .. Len(q) /\ j \in 1 .. Len(q[k].bhs) /\ q[k].bhs[j] = b
In(q, b) == \E k, j : Spot(q, b, k, j)
Once(q) ==
    /\ \A k \in 1 .. Len(q) : q[k].bhs # <<>>
    /\ \A b, k, l, i, j : Spot(q, b, k, i) /\ Spot(q, b, l, j) => k = l /\ i = j

\* A process in the loop of make_request, with buffer b.
InLoop(p, b) == proc[p].pc = "slot" /\ proc[p].bh = b

\* A buffer is locked for a request or for one process.
Owned ==
    /\ Once(queue)
    /\ \A b \in Bufs : buf[b].lock <=> In(queue, b) \/ \E p \in Procs : InLoop(p, b)
    /\ \A b \in Bufs, p \in Procs : InLoop(p, b) =>
          ~In(queue, b) /\ \A q \in Procs : InLoop(q, b) => q = p

IInv ==
    /\ Types
    /\ \A p \in Procs : Stage(proc[p]) /\ Runs(p) /\ InList(proc[p], free_list) /\ Found(proc[p])
    /\ RefsExact
    /\ Blank /\ BlockOnce
    /\ Owned

-----------------------------------------------------------------------------
(* Counting.                                                               *)

LEMMA MinIsLeast ==
    ASSUME NEW S, S \subseteq Nat, S # {}
    PROVE  Min(S) \in S /\ \A y \in S : Min(S) <= y
<1>1. PICK m \in S : \A y \in S : <<y, m>> \notin OpToRel(<, Nat)
  BY NatLessThanWellFounded, WFMin
<1>2. ASSUME NEW y \in S PROVE m <= y
  <2>1. m \in Nat /\ y \in Nat
    OBVIOUS
  <2>2. y < m => <<y, m>> \in OpToRel(<, Nat)
    BY <2>1 DEF OpToRel
  <2>3. ~(y < m)
    BY <1>1, <2>2, Zenon
  <2> QED
    BY <2>1, <2>3
<1> QED
  BY <1>2 DEF Min

\* A set of processes that gains or loses at most p.
LEMMA CardChange ==
    ASSUME NEW A \in SUBSET Procs, NEW B \in SUBSET Procs, NEW p \in Procs,
           \A q \in Procs : q # p => (q \in A <=> q \in B)
    PROVE  /\ Cardinality(A) \in Nat /\ Cardinality(B) \in Nat
           /\ Cardinality(B) = Cardinality(A) + (IF p \in B THEN 1 ELSE 0)
                                              - (IF p \in A THEN 1 ELSE 0)
<1>1. IsFiniteSet(A) /\ IsFiniteSet(B)
  BY FS_Subset, ProcsAssumption
<1>2. Cardinality(A) \in Nat /\ Cardinality(B) \in Nat
  BY <1>1, FS_CardinalityType
<1>3. CASE p \in A <=> p \in B
  <2>1. A = B
    BY <1>3
  <2> QED
    BY <1>2, <1>3, <2>1
<1>4. CASE p \in B /\ p \notin A
  <2>1. B = A \cup {p}
    BY <1>4
  <2>2. Cardinality(A \cup {p}) = Cardinality(A) + 1
    BY <1>1, <1>4, FS_AddElement
  <2> QED
    BY <1>2, <1>4, <2>1, <2>2
<1>5. CASE p \in A /\ p \notin B
  <2>1. A = B \cup {p}
    BY <1>5
  <2>2. Cardinality(B \cup {p}) = Cardinality(B) + 1
    BY <1>1, <1>5, FS_AddElement
  <2> QED
    BY <1>2, <1>5, <2>1, <2>2
<1> QED
  BY <1>3, <1>4, <1>5

\* The references of a process at place r to buffer b.
Bit(x) == IF x THEN 1 ELSE 0
Refs(r, b) == Bit(r.waiting /\ r.bh = b) + Bit(r.bh = b /\ r.pc \in Holding) + Bit(r.first = b)

\* A process that takes up or gives back references tells the buffer.
LEMMA RefsStep ==
    ASSUME Types, RefsExact, NEW p \in Procs, NEW v, proc' = [proc EXCEPT ![p] = v],
           \A b \in Bufs : buf'[b].count = buf[b].count + Refs(v, b) - Refs(proc[p], b)
    PROVE  RefsExact'
<1> SUFFICES ASSUME NEW b \in Bufs
             PROVE  buf'[b].count = Cardinality({q \in Procs : Waits(q, b)'})
                                  + Cardinality({q \in Procs : Holds(q, b)'})
                                  + Cardinality({q \in Procs : Keeps(q, b)'})
  BY DEF RefsExact
<1> DEFINE W == {q \in Procs : Waits(q, b)}   W1 == {q \in Procs : Waits(q, b)'}
           H == {q \in Procs : Holds(q, b)}   H1 == {q \in Procs : Holds(q, b)'}
           K == {q \in Procs : Keeps(q, b)}   K1 == {q \in Procs : Keeps(q, b)'}
<1>1. proc'[p] = v /\ \A q \in Procs : q # p => proc'[q] = proc[q]
  BY DEF Types
<1>2. /\ Cardinality(W) \in Nat /\ Cardinality(W1) \in Nat
      /\ Cardinality(W1) = Cardinality(W) + Bit(p \in W1) - Bit(p \in W)
  <2>1. \A q \in Procs : q # p => (q \in W <=> q \in W1)
    BY <1>1 DEF Waits
  <2> HIDE DEF W, W1
  <2>2. W \in SUBSET Procs /\ W1 \in SUBSET Procs
    BY DEF W, W1
  <2> QED
    BY <2>1, <2>2, CardChange DEF Bit
<1>3. /\ Cardinality(H) \in Nat /\ Cardinality(H1) \in Nat
      /\ Cardinality(H1) = Cardinality(H) + Bit(p \in H1) - Bit(p \in H)
  <2>1. \A q \in Procs : q # p => (q \in H <=> q \in H1)
    BY <1>1 DEF Holds
  <2> HIDE DEF H, H1
  <2>2. H \in SUBSET Procs /\ H1 \in SUBSET Procs
    BY DEF H, H1
  <2> QED
    BY <2>1, <2>2, CardChange DEF Bit
<1>4. /\ Cardinality(K) \in Nat /\ Cardinality(K1) \in Nat
      /\ Cardinality(K1) = Cardinality(K) + Bit(p \in K1) - Bit(p \in K)
  <2>1. \A q \in Procs : q # p => (q \in K <=> q \in K1)
    BY <1>1 DEF Keeps
  <2> HIDE DEF K, K1
  <2>2. K \in SUBSET Procs /\ K1 \in SUBSET Procs
    BY DEF K, K1
  <2> QED
    BY <2>1, <2>2, CardChange DEF Bit
<1>5. /\ (p \in W1) = (v.waiting /\ v.bh = b) /\ (p \in W) = (proc[p].waiting /\ proc[p].bh = b)
      /\ (p \in H1) = (v.bh = b /\ v.pc \in Holding) /\ (p \in H) = (proc[p].bh = b /\ proc[p].pc \in Holding)
      /\ (p \in K1) = (v.first = b) /\ (p \in K) = (proc[p].first = b)
  BY <1>1 DEF Waits, Holds, Keeps, Holding
<1>6. buf[b].count = Cardinality(W) + Cardinality(H) + Cardinality(K)
  BY DEF RefsExact
<1>7. buf'[b].count = buf[b].count + Refs(v, b) - Refs(proc[p], b)
  OBVIOUS
<1>8. /\ Refs(v, b) = Bit(p \in W1) + Bit(p \in H1) + Bit(p \in K1)
      /\ Refs(proc[p], b) = Bit(p \in W) + Bit(p \in H) + Bit(p \in K)
  BY <1>5 DEF Refs
<1>9. \A x : Bit(x) \in 0 .. 1
  BY DEF Bit
<1> HIDE DEF W, W1, H, H1, K, K1
<1>10. buf'[b].count = Cardinality(W1) + Cardinality(H1) + Cardinality(K1)
  BY <1>2, <1>3, <1>4, <1>6, <1>7, <1>8, <1>9
<1> QED
  BY <1>10 DEF W1, H1, K1

\* A buffer that somebody refers to is counted.
LEMMA RefsPositive ==
    ASSUME Types, RefsExact, NEW b \in Bufs
    PROVE  /\ buf[b].count \in Nat
           /\ \A p \in Procs : Waits(p, b) \/ Holds(p, b) \/ Keeps(p, b) => buf[b].count > 0
<1> DEFINE W == {q \in Procs : Waits(q, b)}
           H == {q \in Procs : Holds(q, b)}
           K == {q \in Procs : Keeps(q, b)}
<1>1. buf[b].count = Cardinality(W) + Cardinality(H) + Cardinality(K)
  BY DEF RefsExact
<1>2. IsFiniteSet(W) /\ IsFiniteSet(H) /\ IsFiniteSet(K)
  <2>1. W \subseteq Procs /\ H \subseteq Procs /\ K \subseteq Procs
    OBVIOUS
  <2> HIDE DEF W, H, K
  <2> QED
    BY <2>1, FS_Subset, ProcsAssumption
<1>3. /\ Cardinality(W) \in Nat /\ Cardinality(H) \in Nat /\ Cardinality(K) \in Nat
      /\ (Cardinality(W) = 0 <=> W = {}) /\ (Cardinality(H) = 0 <=> H = {}) /\ (Cardinality(K) = 0 <=> K = {})
  <2> HIDE DEF W, H, K
  <2> QED
    BY <1>2, FS_CardinalityType, FS_EmptySet
<1>4. ASSUME NEW p \in Procs, Waits(p, b) \/ Holds(p, b) \/ Keeps(p, b)
      PROVE  W # {} \/ H # {} \/ K # {}
  BY <1>4
<1> HIDE DEF W, H, K
<1>5. ASSUME W # {} \/ H # {} \/ K # {} PROVE buf[b].count > 0
  <2>1. Cardinality(W) # 0 \/ Cardinality(H) # 0 \/ Cardinality(K) # 0
    BY <1>3, <1>5
  <2>2. \A x, y, z \in Nat : x # 0 \/ y # 0 \/ z # 0 => x + y + z > 0
    OBVIOUS
  <2> QED
    BY <1>1, <1>3, <2>1, <2>2
<1> QED
  BY <1>1, <1>3, <1>4, <1>5

-----------------------------------------------------------------------------
(* The list.                                                               *)

LEMMA ListOf ==
    ASSUME NEW l \in Seq(Bufs)
    PROVE  /\ ToSet(l) \subseteq Bufs
           /\ \A b : b \in ToSet(l) <=> \E k \in 1 .. Len(l) : l[k] = b
           /\ \A b \in ToSet(l) : Place(l, b) \in 1 .. Len(l) /\ l[Place(l, b)] = b
<1>1. DOMAIN l = 1 .. Len(l) /\ Len(l) \in Nat /\ \A k \in 1 .. Len(l) : l[k] \in Bufs
  OBVIOUS
<1>2. \A b : b \in ToSet(l) <=> \E k \in 1 .. Len(l) : l[k] = b
  BY <1>1 DEF ToSet
<1>3. \A b \in ToSet(l) : Place(l, b) \in 1 .. Len(l) /\ l[Place(l, b)] = b
  BY <1>2 DEF Place
<1> QED
  BY <1>1, <1>2, <1>3

LEMMA Remainder ==
    ASSUME NEW a \in Nat, NEW b \in Nat \ {0}
    PROVE  a % b \in 0 .. b - 1
  OBVIOUS

LEMMA BehindIsInList ==
    ASSUME NEW l \in Seq(Bufs), NEW b \in ToSet(l), NEW j \in Nat
    PROVE  Behind(l, b, j) \in ToSet(l)
<1>1. Place(l, b) \in 1 .. Len(l) /\ Len(l) \in Nat
  BY ListOf
<1>2. Len(l) \in Nat \ {0} /\ Place(l, b) + j - 1 \in Nat
  BY <1>1
<1>3. (Place(l, b) + j - 1) % Len(l) \in 0 .. Len(l) - 1
  BY <1>2, Remainder
<1>4. ((Place(l, b) + j - 1) % Len(l)) + 1 \in 1 .. Len(l)
  BY <1>2, <1>3
<1> QED
  BY <1>4, ListOf DEF Behind

LEMMA HeadIsInList ==
    ASSUME NEW l \in Seq(Bufs), l # <<>>
    PROVE  Head(l) \in ToSet(l) /\ Len(l) \in Nat \ {0}
<1>1. Len(l) \in Nat \ {0} /\ Head(l) = l[1]
  OBVIOUS
<1> QED
  BY <1>1, ListOf

LEMMA Joining ==
    ASSUME NEW S, NEW s \in Seq(S), NEW t \in Seq(S)
    PROVE  /\ s \o t \in Seq(S) /\ Len(s \o t) = Len(s) + Len(t)
           /\ Len(s) \in Nat /\ Len(t) \in Nat
           /\ \A i \in 1 .. Len(s) : (s \o t)[i] = s[i]
           /\ \A i \in Len(s) + 1 .. Len(s) + Len(t) : (s \o t)[i] = t[i - Len(s)]
  OBVIOUS

LEMMA RemovedFromList ==
    ASSUME NEW l \in Seq(Bufs), NEW b \in ToSet(l)
    PROVE  /\ RemoveAt(l, Place(l, b)) \in Seq(Bufs)
           /\ Len(RemoveAt(l, Place(l, b))) = Len(l) - 1
           /\ \A c : c # b => (c \in ToSet(RemoveAt(l, Place(l, b))) <=> c \in ToSet(l))
<1> DEFINE k == Place(l, b)   m == RemoveAt(l, k)
<1>1. k \in 1 .. Len(l) /\ l[k] = b /\ Len(l) \in Nat
  BY ListOf
<1> HIDE DEF k
<1> DEFINE s == SubSeq(l, 1, k - 1)   t == SubSeq(l, k + 1, Len(l))
<1>2. /\ s \in Seq(Bufs) /\ Len(s) = k - 1 /\ \A i \in 1 .. k - 1 : s[i] = l[i]
      /\ t \in Seq(Bufs) /\ Len(t) = Len(l) - k /\ \A i \in 1 .. Len(l) - k : t[i] = l[k + i]
  BY <1>1, SMTT(20)
<1>3. m = s \o t
  BY DEF RemoveAt
<1> HIDE DEF s, t, m
<1>4. /\ m \in Seq(Bufs) /\ Len(m) = Len(l) - 1
      /\ \A i \in 1 .. k - 1 : m[i] = l[i]
      /\ \A i \in k .. Len(l) - 1 : m[i] = l[i + 1]
  <2>0. s \in Seq(Bufs) /\ t \in Seq(Bufs)
    BY <1>2
  <2>1. m \in Seq(Bufs) /\ Len(m) = Len(s) + Len(t)
    BY <2>0, <1>3, Joining
  <2>2. \A i \in 1 .. Len(s) : m[i] = s[i]
    BY <2>0, <1>3, Joining
  <2>3. ASSUME NEW i \in k .. Len(l) - 1 PROVE m[i] = l[i + 1]
    <3>1. i \in Len(s) + 1 .. Len(s) + Len(t) /\ i - Len(s) \in 1 .. Len(l) - k /\ k + (i - Len(s)) = i + 1
      BY <1>1, <1>2
    <3>2. m[i] = t[i - Len(s)]
      BY <2>0, <1>3, <3>1, Joining
    <3> QED
      BY <1>2, <3>1, <3>2
  <2> QED
    BY <1>1, <1>2, <2>1, <2>2, <2>3
<1>5. ASSUME NEW c, c # b, c \in ToSet(m) PROVE c \in ToSet(l)
  <2>1. PICK i \in 1 .. Len(m) : m[i] = c
    BY <1>4, <1>5, ListOf
  <2>2. CASE i <= k - 1
    BY <1>1, <1>4, <2>1, <2>2, ListOf
  <2>3. CASE i > k - 1
    <3>1. i \in k .. Len(l) - 1 /\ i + 1 \in 1 .. Len(l)
      BY <1>1, <1>4, <2>1, <2>3
    <3> QED
      BY <1>4, <2>1, <3>1, ListOf
  <2> QED
    BY <1>1, <2>1, <2>2, <2>3
<1>6. ASSUME NEW c, c # b, c \in ToSet(l) PROVE c \in ToSet(m)
  <2>1. PICK i \in 1 .. Len(l) : l[i] = c
    BY <1>6, ListOf
  <2>2. i # k
    BY <1>1, <1>6, <2>1
  <2>3. CASE i <= k - 1
    <3>1. i \in 1 .. k - 1 /\ i \in 1 .. Len(m)
      BY <1>1, <1>4, <2>1, <2>3
    <3> QED
      BY <1>4, <2>1, <3>1, ListOf
  <2>4. CASE i > k
    <3>1. i - 1 \in k .. Len(l) - 1 /\ i - 1 \in 1 .. Len(m) /\ (i - 1) + 1 = i
      BY <1>1, <1>4, <2>1, <2>4
    <3> QED
      BY <1>4, <2>1, <3>1, ListOf
  <2> QED
    BY <1>1, <2>1, <2>2, <2>3, <2>4
<1> QED
  BY <1>4, <1>5, <1>6 DEF m, k

LEMMA AddedToList ==
    ASSUME NEW l \in Seq(Bufs), NEW b \in Bufs
    PROVE  /\ Append(l, b) \in Seq(Bufs) /\ Append(l, b) # <<>>
           /\ \A c : c \in ToSet(Append(l, b)) <=> c \in ToSet(l) \/ c = b
           /\ <<b>> \o l \in Seq(Bufs) /\ <<b>> \o l # <<>>
           /\ \A c : c \in ToSet(<<b>> \o l) <=> c \in ToSet(l) \/ c = b
<1> DEFINE m == Append(l, b)   h == <<b>> \o l
<1>1. /\ m \in Seq(Bufs) /\ Len(m) = Len(l) + 1 /\ m[Len(l) + 1] = b
      /\ \A i \in 1 .. Len(l) : m[i] = l[i]
      /\ h \in Seq(Bufs) /\ Len(h) = Len(l) + 1 /\ h[1] = b
      /\ \A i \in 1 .. Len(l) : h[i + 1] = l[i]
      /\ Len(l) \in Nat
  OBVIOUS
<1> HIDE DEF m, h
<1>2. m # <<>> /\ h # <<>>
  BY <1>1
<1>3. \A c : c \in ToSet(m) <=> c \in ToSet(l) \/ c = b
  BY <1>1, ListOf
<1>4. ASSUME NEW c PROVE c \in ToSet(h) <=> c \in ToSet(l) \/ c = b
  <2>1. ASSUME c \in ToSet(h) PROVE c \in ToSet(l) \/ c = b
    <3>1. PICK i \in 1 .. Len(h) : h[i] = c
      BY <1>1, <2>1, ListOf
    <3>2. CASE i = 1
      BY <1>1, <3>1, <3>2
    <3>3. CASE i # 1
      <4>1. i - 1 \in 1 .. Len(l) /\ (i - 1) + 1 = i
        BY <1>1, <3>1, <3>3
      <4>2. h[(i - 1) + 1] = l[i - 1]
        BY <1>1, <4>1
      <4>3. l[i - 1] = c
        BY <3>1, <4>1, <4>2
      <4> QED
        BY <4>1, <4>3, ListOf
    <3> QED
      BY <3>2, <3>3
  <2>2. ASSUME c \in ToSet(l) PROVE c \in ToSet(h)
    <3>1. PICK i \in 1 .. Len(l) : l[i] = c
      BY <2>2, ListOf
    <3>2. i + 1 \in 1 .. Len(h) /\ h[i + 1] = c
      BY <1>1, <3>1
    <3> QED
      BY <1>1, <3>2, ListOf
  <2>3. b \in ToSet(h)
    <3>1. 1 \in 1 .. Len(h)
      BY <1>1
    <3> QED
      BY <1>1, <3>1, ListOf
  <2> QED
    BY <2>1, <2>2, <2>3
<1> QED
  BY <1>1, <1>2, <1>3, <1>4 DEF m, h

\* put_last_free leaves the same buffers in the list.
LEMMA MovedInList ==
    ASSUME free_list \in Seq(Bufs), NEW b \in ToSet(free_list)
    PROVE  /\ Moved(b) \in Seq(Bufs) /\ Moved(b) # <<>>
           /\ \A c : c \in ToSet(Moved(b)) <=> c \in ToSet(free_list)
<1>1. /\ Without(b) \in Seq(Bufs)
      /\ \A c : c # b => (c \in ToSet(Without(b)) <=> c \in ToSet(free_list))
  BY RemovedFromList DEF Without
<1>2. b \in Bufs
  BY ListOf
<1>3. /\ Append(Without(b), b) \in Seq(Bufs) /\ Append(Without(b), b) # <<>>
      /\ \A c : c \in ToSet(Append(Without(b), b)) <=> c \in ToSet(Without(b)) \/ c = b
  BY <1>1, <1>2, AddedToList
<1> QED
  BY <1>1, <1>3 DEF Moved

LEMMA ShiftIsNat ==
    ASSUME NEW a \in Nat, NEW k \in 0 .. 6
    PROVE  a \div 2 ^ k \in Nat
<1>1. 2 ^ k \in Nat \ {0}
  <2>1. /\ 2 ^ 0 = 1 /\ 2 ^ 1 = 2 /\ 2 ^ 2 = 4 /\ 2 ^ 3 = 8
        /\ 2 ^ 4 = 16 /\ 2 ^ 5 = 32 /\ 2 ^ 6 = 64
    OBVIOUS
  <2>2. k = 0 \/ k = 1 \/ k = 2 \/ k = 3 \/ k = 4 \/ k = 5 \/ k = 6
    OBVIOUS
  <2>3. 2 ^ k \in {2 ^ 0, 2 ^ 1, 2 ^ 2, 2 ^ 3, 2 ^ 4, 2 ^ 5, 2 ^ 6}
    BY <2>2, Zenon
  <2>4. 2 ^ k \in {1, 2, 4, 8, 16, 32, 64}
    BY <2>1, <2>3, Zenon
  <2> QED
    BY <2>4
<1> QED
  BY <1>1

-----------------------------------------------------------------------------
(* One step of a process.                                                  *)

\* The invariant without the locks.
Frame ==
    /\ Types
    /\ \A p \in Procs : Stage(proc[p]) /\ Runs(p) /\ InList(proc[p], free_list) /\ Found(proc[p])
    /\ RefsExact
    /\ Blank /\ BlockOnce

\* Process p goes on to v, buffer b becomes w and the list l: what each of them
\* must be like.
Goes(p, v) ==
    /\ current \in {None, p}
    /\ proc' = [proc EXCEPT ![p] = v]
    /\ v \in Places /\ Stage(v) /\ InList(v, free_list') /\ Found(v)'
    /\ current' = p \/ (current' = None /\ (v.waiting \/ v.pc \in {"user", "slot", "getblk"}))
    /\ queue' \in Seq(Requests) /\ moved' \in BOOLEAN /\ disk' = disk

Turns(b, w, l) ==
    /\ buf' = [buf EXCEPT ![b] = w] /\ w \in Buffers
    /\ w.blk = buf[b].blk \/ (buf[b].count = 0 /\ (w.blk = None \/ find_buffer(w.blk) = {}))
    /\ w.blk = None => w = Unused
    /\ free_list' = l /\ l \in Seq(Bufs) /\ l # <<>>
    /\ b \in ToSet(l) \/ w.blk = None
    /\ \A c \in Bufs : c # b /\ c \in ToSet(free_list) => c \in ToSet(l)

LEMMA ProcStep ==
    ASSUME Frame, NEW p \in Procs, NEW v, NEW b \in Bufs, NEW w, NEW l,
           Goes(p, v), Turns(b, w, l),
           b \in ToSet(free_list) /\ b \notin ToSet(l) => buf[b].count = 0 /\ current = p,
           \A c \in Bufs : buf'[c].count = buf[c].count + Refs(v, c) - Refs(proc[p], c)
    PROVE  Frame'
<1>0. Types /\ RefsExact
  BY DEF Frame
<1>1. /\ buf \in [Bufs -> Buffers] /\ buf'[b] = w /\ buf' \in [Bufs -> Buffers]
      /\ \A c \in Bufs : c # b => buf'[c] = buf[c]
  BY DEF Frame, Types, Turns
<1>2. /\ proc \in [Procs -> Places] /\ proc'[p] = v /\ proc' \in [Procs -> Places]
      /\ \A q \in Procs : q # p => proc'[q] = proc[q]
  BY DEF Frame, Types, Goes
<1>3. free_list \in Seq(Bufs) /\ free_list' = l /\ l \in Seq(Bufs) /\ l # <<>>
  BY DEF Frame, Types, Turns
<1>4. Types'
  BY <1>1, <1>2, <1>3 DEF Frame, Types, Goes
<1>5. RefsExact'
  BY <1>0, RefsStep DEF Goes
<1>6. ASSUME NEW q \in Procs, Waits(q, b) \/ Holds(q, b) \/ Keeps(q, b)
      PROVE  buf[b].count # 0
  BY <1>0, <1>6, RefsPositive
<1>7. ASSUME NEW q \in Procs PROVE Stage(proc[q])' /\ Runs(q)'
  <2>1. CASE q = p
    BY <2>1, <1>2 DEF Goes, Runs, Stage, Searching
  <2>2. CASE q # p
    <3>1. Stage(proc[q]) /\ Runs(q) /\ proc'[q] = proc[q]
      BY <2>2, <1>2 DEF Frame
    <3>2. current \in {None, p} /\ None # q
      BY NoneAssumption DEF Goes
    <3>3. ~proc[q].waiting => proc[q].pc \in {"user", "slot", "getblk"}
      BY <2>2, <3>1, <3>2 DEF Runs
    <3> QED
      BY <3>1, <3>3 DEF Runs, Stage, Searching
  <2> QED
    BY <2>1, <2>2
<1>8. ASSUME NEW q \in Procs PROVE InList(proc[q], free_list)'
  <2>1. CASE q = p
    BY <2>1, <1>2 DEF Goes
  <2>2. CASE q # p
    <3>1. InList(proc[q], free_list) /\ Runs(q) /\ proc'[q] = proc[q]
      BY <2>2, <1>2 DEF Frame
    <3>2. \A c \in Bufs : c # b /\ c \in ToSet(free_list) => c \in ToSet(l)
      BY DEF Turns
    <3>3. ToSet(free_list) \subseteq Bufs
      BY <1>3, ListOf
    <3>4. proc[q].first \in ToSet(l) \cup {None}
      <4>1. CASE proc[q].first = b /\ b \notin ToSet(l) /\ b # None
        <5>1. b \in ToSet(free_list)
          BY <3>1, <4>1 DEF InList
        <5> QED
          BY <4>1, <5>1, <1>6 DEF Keeps
      <4>2. CASE proc[q].first # b \/ b \in ToSet(l) \/ b = None
        BY <3>1, <3>2, <3>3, <4>2 DEF InList
      <4> QED
        BY <4>1, <4>2
    <3>5. proc[q].pc # "getblk" => proc[q].bh \in ToSet(l) \cup {None}
      <4>1. CASE proc[q].pc # "getblk" /\ proc[q].bh = b /\ b \notin ToSet(l) /\ b # None
        <5>1. b \in ToSet(free_list)
          BY <3>1, <4>1 DEF InList
        <5>2. current = p /\ buf[b].count = 0
          BY <4>1, <5>1
        <5>3. proc[q].waiting \/ proc[q].pc \in {"user", "slot"}
          BY <2>2, <3>1, <4>1, <5>2 DEF Runs
        <5>4. Waits(q, b) \/ Holds(q, b)
          BY <4>1, <5>3 DEF Waits, Holds
        <5> QED
          BY <5>2, <5>4, <1>6
      <4>2. CASE ~(proc[q].pc # "getblk" /\ proc[q].bh = b /\ b \notin ToSet(l) /\ b # None)
        BY <3>1, <3>2, <3>3, <4>2 DEF InList
      <4> QED
        BY <4>1, <4>2
    <3> QED
      BY <1>3, <3>1, <3>4, <3>5 DEF InList
  <2> QED
    BY <2>1, <2>2
<1>9. ASSUME NEW q \in Procs PROVE Found(proc[q])'
  <2>1. CASE q = p
    BY <2>1, <1>2 DEF Goes, Found
  <2>2. CASE q # p
    <3>1. Found(proc[q]) /\ Stage(proc[q]) /\ proc'[q] = proc[q] /\ proc[q] \in Places
      BY <2>2, <1>2 DEF Frame
    <3>2. w.blk = buf[b].blk \/ buf[b].count = 0
      BY DEF Turns
    <3>3. ASSUME NEW c \in Bufs, Holds(q, c) \/ Keeps(q, c)
          PROVE  buf'[c].blk = buf[c].blk
      <4>1. CASE c = b
        BY <4>1, <3>2, <3>3, <1>1, <1>6
      <4>2. CASE c # b
        BY <4>2, <1>1
      <4> QED
        BY <4>1, <4>2
    <3>4. proc[q].first # None => buf'[proc[q].first].blk = buf[proc[q].first].blk
      BY <3>1, <3>3 DEF Keeps, Places
    <3>5. proc[q].pc \in Holding /\ proc[q].bh # None => buf'[proc[q].bh].blk = buf[proc[q].bh].blk
      BY <3>1, <3>3 DEF Holds, Holding, Places
    <3>6. proc[q].pc \in {"got", "bread", "readahead", "rw", "slot"} => proc[q].bh # None
      BY <3>1 DEF Stage
    <3> QED
      BY <3>1, <3>4, <3>5, <3>6 DEF Found, Holding
  <2> QED
    BY <2>1, <2>2
<1>10. Blank'
  <2>1. Blank
    BY DEF Frame
  <2>2. ASSUME NEW c \in Bufs, buf'[c].blk = None PROVE buf'[c] = Unused
    BY <1>1, <2>1, <2>2 DEF Blank, Turns
  <2>3. ASSUME NEW c \in Bufs \ ToSet(l) PROVE buf'[c].blk = None
    BY <1>1, <2>1 DEF Blank, Turns
  <2> QED
    BY <1>3, <2>2, <2>3 DEF Blank, Unused
<1>11. BlockOnce'
  <2> SUFFICES ASSUME NEW a \in Bufs, NEW c \in Bufs, a # c, buf'[a].blk # None
               PROVE  buf'[a].blk # buf'[c].blk
    BY DEF BlockOnce
  <2>1. BlockOnce
    BY DEF Frame
  <2>2. w.blk = buf[b].blk \/ w.blk = None \/ \A d \in Bufs : buf[d].blk # w.blk
    BY DEF Turns, find_buffer
  <2>3. CASE a = b
    BY <2>1, <2>2, <2>3, <1>1 DEF BlockOnce
  <2>4. CASE c = b
    BY <2>1, <2>2, <2>4, <1>1 DEF BlockOnce
  <2>5. CASE a # b /\ c # b
    BY <2>1, <2>5, <1>1 DEF BlockOnce
  <2> QED
    BY <2>3, <2>4, <2>5
<1> QED
  BY <1>4, <1>5, <1>7, <1>8, <1>9, <1>10, <1>11 DEF Frame

-----------------------------------------------------------------------------
(* The queue.                                                              *)

\* Buffer b is in queue q to be read or written.
Has(q, b, x) == \E k, j : Spot(q, b, k, j) /\ q[k].cmd = x

LEMMA InHas ==
    ASSUME NEW q \in Seq(Requests), NEW b
    PROVE  In(q, b) <=> Has(q, b, "READ") \/ Has(q, b, "WRITE")
<1>1. \A k \in 1 .. Len(q) : q[k] \in Requests
  OBVIOUS
<1>2. \A k, j : Spot(q, b, k, j) => q[k].cmd = "READ" \/ q[k].cmd = "WRITE"
  BY <1>1 DEF Requests, Spot
<1> QED
  BY <1>2, Zenon DEF In, Has

LEMMA RequestOf ==
    ASSUME NEW q \in Seq(Requests), NEW k \in 1 .. Len(q)
    PROVE  /\ q[k] \in Requests /\ q[k].bhs \in Seq(Bufs) /\ q[k].cmd \in {"READ", "WRITE"}
           /\ Len(q) \in Nat /\ Len(q[k].bhs) \in Nat
           /\ \A j \in 1 .. Len(q[k].bhs) : q[k].bhs[j] \in Bufs
<1>1. q[k] \in Requests
  OBVIOUS
<1>2. q[k].bhs \in Seq(Bufs) /\ q[k].cmd \in {"READ", "WRITE"}
  BY <1>1 DEF Requests
<1>3. Len(q) \in Nat
  OBVIOUS
<1> QED
  BY <1>1, <1>2, <1>3

\* Queue t is q with r in place m.
Put(q, t, r, m) ==
    /\ Len(t) = Len(q) + 1 /\ t[m] = r
    /\ \A i \in 1 .. m - 1 : t[i] = q[i]
    /\ \A i \in m + 1 .. Len(t) : t[i] = q[i - 1]

\* A request for buffer b alone is put into place m.
LEMMA Inserted ==
    ASSUME NEW q \in Seq(Requests), NEW t \in Seq(Requests), NEW r \in Requests,
           NEW b \in Bufs, r.bhs = <<b>>, Once(q), ~In(q, b), NEW m \in 1 .. Len(q) + 1,
           Put(q, t, r, m)
    PROVE  /\ Once(t)
           /\ \A c, x : Has(t, c, x) <=> Has(q, c, x) \/ (c = b /\ x = r.cmd)
<1> DEFINE Old(k) == IF k < m THEN k ELSE k - 1
           New(k) == IF k < m THEN k ELSE k + 1
<1>0. Len(t) = Len(q) + 1 /\ t[m] = r /\ Len(q) \in Nat
  BY DEF Put
<1>1. \A k \in 1 .. Len(t) : k # m => Old(k) \in 1 .. Len(q) /\ t[k] = q[Old(k)]
  <2> SUFFICES ASSUME NEW k \in 1 .. Len(t), k # m
               PROVE  Old(k) \in 1 .. Len(q) /\ t[k] = q[Old(k)]
    OBVIOUS
  <2>1. CASE k < m
    <3>1. k \in 1 .. m - 1 /\ k \in 1 .. Len(q)
      BY <1>0, <2>1
    <3> QED
      BY <2>1, <3>1 DEF Put
  <2>2. CASE k > m
    <3>1. k \in m + 1 .. Len(t) /\ k - 1 \in 1 .. Len(q) /\ ~(k < m)
      BY <1>0, <2>2
    <3> QED
      BY <2>2, <3>1 DEF Put
  <2> QED
    BY <2>1, <2>2
<1>2. \A k, l \in 1 .. Len(t) : k # m /\ l # m /\ Old(k) = Old(l) => k = l
  OBVIOUS
<1>3. \A k \in 1 .. Len(q) : New(k) \in 1 .. Len(t) /\ New(k) # m /\ t[New(k)] = q[k]
  <2> SUFFICES ASSUME NEW k \in 1 .. Len(q)
               PROVE  New(k) \in 1 .. Len(t) /\ New(k) # m /\ t[New(k)] = q[k]
    OBVIOUS
  <2>1. New(k) \in 1 .. Len(t) /\ New(k) # m /\ Old(New(k)) = k
    BY <1>0
  <2> HIDE DEF Old, New
  <2> QED
    BY <2>1, <1>1
<1> HIDE DEF Old, New
<1>4. Len(t[m].bhs) = 1 /\ t[m].bhs[1] = b /\ t[m].bhs # <<>> /\ m \in 1 .. Len(t)
  <2>1. t[m].bhs = <<b>> /\ m \in 1 .. Len(t)
    BY <1>0
  <2>2. Len(<<b>>) = 1 /\ <<b>>[1] = b /\ <<b>> # <<>>
    OBVIOUS
  <2> QED
    BY <2>1, <2>2
<1>5. \A c, k, j : Spot(t, c, k, j) /\ k # m => Spot(q, c, Old(k), j) /\ k \in 1 .. Len(t) /\ t[k] = q[Old(k)]
  BY <1>1 DEF Spot
<1>6. \A c, k, j : Spot(q, c, k, j) => Spot(t, c, New(k), j) /\ t[New(k)] = q[k]
  BY <1>3 DEF Spot
<1>7. \A c, j : Spot(t, c, m, j) <=> c = b /\ j = 1
  BY <1>4 DEF Spot
<1>8. \A k, j : ~Spot(q, b, k, j)
  BY DEF In
<1>9. Once(t)
  <2>1. \A k \in 1 .. Len(t) : t[k].bhs # <<>>
    BY <1>1, <1>4 DEF Once
  <2>2. ASSUME NEW c, NEW k, NEW l, NEW i, NEW j, Spot(t, c, k, i), Spot(t, c, l, j)
        PROVE  k = l /\ i = j
    <3>1. CASE k = m /\ l = m
      <4>1. Spot(t, c, m, i) /\ Spot(t, c, m, j)
        BY <2>2, <3>1
      <4>2. i = 1 /\ j = 1
        BY <4>1, <1>7
      <4> QED
        BY <3>1, <4>2
    <3>2. CASE k = m /\ l # m
      BY <2>2, <3>2, <1>5, <1>7, <1>8, Zenon
    <3>3. CASE k # m /\ l = m
      BY <2>2, <3>3, <1>5, <1>7, <1>8, Zenon
    <3>4. CASE k # m /\ l # m
      <4>1. /\ Spot(q, c, Old(k), i) /\ Spot(q, c, Old(l), j)
            /\ k \in 1 .. Len(t) /\ l \in 1 .. Len(t)
        BY <2>2, <3>4, <1>5, Zenon
      <4>2. Old(k) = Old(l) /\ i = j
        BY <4>1, Zenon DEF Once
      <4> QED
        BY <3>4, <4>1, <4>2, <1>2
    <3> QED
      BY <3>1, <3>2, <3>3, <3>4
  <2> QED
    BY <2>1, <2>2, Zenon DEF Once
<1>10. ASSUME NEW c, NEW x PROVE Has(t, c, x) <=> Has(q, c, x) \/ (c = b /\ x = r.cmd)
  <2>1. ASSUME Has(t, c, x) PROVE Has(q, c, x) \/ (c = b /\ x = r.cmd)
    <3>1. PICK k, j : Spot(t, c, k, j) /\ t[k].cmd = x
      BY <2>1 DEF Has
    <3>2. CASE k = m
      BY <3>1, <3>2, <1>0, <1>7
    <3>3. CASE k # m
      <4>1. Spot(q, c, Old(k), j) /\ t[k] = q[Old(k)]
        BY <3>1, <3>3, <1>5, Zenon
      <4> QED
        BY <3>1, <4>1 DEF Has
    <3> QED
      BY <3>2, <3>3
  <2>2. ASSUME Has(q, c, x) PROVE Has(t, c, x)
    <3>1. PICK k, j : Spot(q, c, k, j) /\ q[k].cmd = x
      BY <2>2 DEF Has
    <3>2. Spot(t, c, New(k), j) /\ t[New(k)] = q[k]
      BY <3>1, <1>6, Zenon
    <3> QED
      BY <3>1, <3>2 DEF Has
  <2>3. Has(t, b, r.cmd)
    BY <1>0, <1>7, Zenon DEF Has
  <2> QED
    BY <2>1, <2>2, <2>3
<1> QED
  BY <1>9, <1>10

\* Buffer b joins request k at its end or in front.
Longer(q, k, b, t) ==
    \/ t = [q EXCEPT ![k].bhs = Append(q[k].bhs, b)]
    \/ t = [q EXCEPT ![k].bhs = <<b>> \o q[k].bhs]

LEMMA Lengthened ==
    ASSUME NEW q \in Seq(Requests), NEW k \in 1 .. Len(q), NEW b \in Bufs, NEW t,
           Once(q), ~In(q, b), Longer(q, k, b, t)
    PROVE  /\ t \in Seq(Requests) /\ Len(t) = Len(q) /\ Once(t)
           /\ \A l \in 1 .. Len(q) : l # k => t[l] = q[l]
           /\ \A c, x : Has(t, c, x) <=> Has(q, c, x) \/ (c = b /\ x = q[k].cmd)
<1> DEFINE s == q[k].bhs
<1>1. q[k] \in Requests /\ s \in Seq(Bufs) /\ Len(s) \in Nat /\ Len(q) \in Nat
  BY RequestOf
<1>2. \A u \in Seq(Bufs) : LET v == [q EXCEPT ![k].bhs = u] IN
         /\ v \in Seq(Requests) /\ Len(v) = Len(q) /\ v[k].bhs = u /\ v[k].cmd = q[k].cmd
         /\ \A l \in 1 .. Len(q) : l # k => v[l] = q[l]
  <2> SUFFICES ASSUME NEW u \in Seq(Bufs)
               PROVE  LET v == [q EXCEPT ![k].bhs = u] IN
                        /\ v \in Seq(Requests) /\ Len(v) = Len(q) /\ v[k].bhs = u /\ v[k].cmd = q[k].cmd
                        /\ \A l \in 1 .. Len(q) : l # k => v[l] = q[l]
    OBVIOUS
  <2>1. [q[k] EXCEPT !.bhs = u] \in Requests
    BY <1>1 DEF Requests
  <2>2. [q[k] EXCEPT !.bhs = u].bhs = u /\ [q[k] EXCEPT !.bhs = u].cmd = q[k].cmd
    BY <1>1 DEF Requests
  <2>3. PICK z \in Requests : z = [q[k] EXCEPT !.bhs = u]
    BY <2>1
  <2>4. [q EXCEPT ![k].bhs = u] = [q EXCEPT ![k] = z]
    BY <2>3
  <2>5. /\ [q EXCEPT ![k] = z] \in Seq(Requests) /\ Len([q EXCEPT ![k] = z]) = Len(q)
        /\ [q EXCEPT ![k] = z][k] = z
        /\ \A l \in 1 .. Len(q) : l # k => [q EXCEPT ![k] = z][l] = q[l]
    OBVIOUS
  <2> QED
    BY <2>2, <2>3, <2>4, <2>5
<1>3. Append(s, b) \in Seq(Bufs) /\ <<b>> \o s \in Seq(Bufs)
  BY <1>1
<1>4. \/ t = [q EXCEPT ![k].bhs = Append(s, b)]
      \/ t = [q EXCEPT ![k].bhs = <<b>> \o s]
  BY DEF Longer
<1>5. /\ t \in Seq(Requests) /\ Len(t) = Len(q) /\ t[k].cmd = q[k].cmd
      /\ \A l \in 1 .. Len(q) : l # k => t[l] = q[l]
      /\ t[k].bhs = Append(s, b) \/ t[k].bhs = <<b>> \o s
  <2>1. PICK u \in Seq(Bufs) : t = [q EXCEPT ![k].bhs = u] /\ (u = Append(s, b) \/ u = <<b>> \o s)
    BY <1>3, <1>4
  <2>2. /\ t \in Seq(Requests) /\ Len(t) = Len(q) /\ t[k].bhs = u /\ t[k].cmd = q[k].cmd
        /\ \A l \in 1 .. Len(q) : l # k => t[l] = q[l]
    BY <2>1, <1>2
  <2> QED
    BY <2>1, <2>2
<1>6. \A l, j, i, c : l # k => (Spot(t, c, l, j) <=> Spot(q, c, l, j))
  BY <1>5 DEF Spot
<1>7. \A j, l : ~Spot(q, b, l, j)
  BY DEF In
<1>8. CASE t[k].bhs = Append(s, b)
  <2>1. \A c, j : Spot(t, c, k, j) <=> Spot(q, c, k, j) \/ (c = b /\ j = Len(s) + 1)
    <3>1. /\ Len(t[k].bhs) = Len(s) + 1 /\ t[k].bhs[Len(s) + 1] = b
          /\ \A j \in 1 .. Len(s) : t[k].bhs[j] = s[j]
      BY <1>1, <1>8
    <3>2. \A j : j \in 1 .. Len(s) + 1 <=> j \in 1 .. Len(s) \/ j = Len(s) + 1
      BY <1>1
    <3> QED
      BY <3>1, <3>2, <1>5 DEF Spot
  <2>2. \A c, l, j : Spot(t, c, l, j) <=> Spot(q, c, l, j) \/ (c = b /\ l = k /\ j = Len(s) + 1)
    <3> SUFFICES ASSUME NEW c, NEW l, NEW j
                 PROVE  Spot(t, c, l, j) <=> Spot(q, c, l, j) \/ (c = b /\ l = k /\ j = Len(s) + 1)
      OBVIOUS
    <3>1. CASE l = k
      BY <2>1, <3>1
    <3>2. CASE l # k
      BY <1>6, <3>2
    <3> QED
      BY <3>1, <3>2
  <2>3. \A l \in 1 .. Len(t) : t[l].bhs # <<>>
    BY <1>5, <1>8, <1>1 DEF Once
  <2>4. ASSUME NEW c, NEW e, NEW l, NEW i, NEW j, Spot(t, c, e, i), Spot(t, c, l, j)
        PROVE  e = l /\ i = j
    <3>1. CASE c = b
      <4>1. (e = k /\ i = Len(s) + 1) /\ (l = k /\ j = Len(s) + 1)
        BY <2>2, <2>4, <3>1, <1>7, Zenon
      <4> QED
        BY <4>1
    <3>2. CASE c # b
      <4>1. Spot(q, c, e, i)
        BY <2>2, <2>4, <3>2, Zenon
      <4>2. Spot(q, c, l, j)
        BY <2>2, <2>4, <3>2, Zenon
      <4> QED
        BY <4>1, <4>2, Zenon DEF Once
    <3> QED
      BY <3>1, <3>2
  <2>5. Once(t)
    BY <2>3, <2>4, Zenon DEF Once
  <2>6. ASSUME NEW c, NEW x PROVE Has(t, c, x) <=> Has(q, c, x) \/ (c = b /\ x = q[k].cmd)
    <3>1. \A l, j : Spot(q, c, l, j) => t[l].cmd = q[l].cmd
      BY <1>5 DEF Spot
    <3> QED
      BY <2>2, <3>1, <1>5, Zenon DEF Has
  <2> QED
    BY <1>5, <2>5, <2>6
<1>9. CASE t[k].bhs = <<b>> \o s
  <2>1. /\ \A c : Spot(t, c, k, 1) <=> c = b
        /\ \A c, j : Spot(t, c, k, j) /\ j # 1 => j - 1 \in Nat /\ Spot(q, c, k, j - 1) /\ (j - 1) + 1 = j
        /\ \A c, j : Spot(q, c, k, j) => Spot(t, c, k, j + 1) /\ j + 1 # 1
    <3>1. /\ Len(t[k].bhs) = Len(s) + 1 /\ t[k].bhs[1] = b
          /\ \A j \in 2 .. Len(s) + 1 : t[k].bhs[j] = s[j - 1]
      BY <1>1, <1>9
    <3>2. \A c : Spot(t, c, k, 1) <=> c = b
      BY <3>1, <1>1, <1>5 DEF Spot
    <3>3. ASSUME NEW c, NEW j, Spot(t, c, k, j), j # 1
          PROVE  j - 1 \in Nat /\ Spot(q, c, k, j - 1) /\ (j - 1) + 1 = j
      <4>1. j \in 1 .. Len(s) + 1 /\ t[k].bhs[j] = c
        BY <3>1, <3>3 DEF Spot
      <4>2. j \in 2 .. Len(s) + 1 /\ j - 1 \in 1 .. Len(s) /\ (j - 1) + 1 = j /\ j - 1 \in Nat
        BY <3>3, <4>1, <1>1
      <4> QED
        BY <3>1, <4>1, <4>2 DEF Spot
    <3>4. ASSUME NEW c, NEW j, Spot(q, c, k, j) PROVE Spot(t, c, k, j + 1) /\ j + 1 # 1
      <4>1. j \in 1 .. Len(s) /\ s[j] = c
        BY <3>4 DEF Spot
      <4>2. j + 1 \in 2 .. Len(s) + 1 /\ j + 1 \in 1 .. Len(s) + 1 /\ (j + 1) - 1 = j /\ j + 1 # 1
        BY <4>1, <1>1
      <4>3. t[k].bhs[j + 1] = s[(j + 1) - 1]
        BY <4>2, <3>1
      <4> QED
        BY <3>1, <4>1, <4>2, <4>3, <1>5 DEF Spot
    <3> QED
      BY <3>2, <3>3, <3>4
  <2>3. \A l \in 1 .. Len(t) : t[l].bhs # <<>>
    <3>1. t[k].bhs # <<>>
      BY <1>9, <1>1
    <3> QED
      BY <3>1, <1>5 DEF Once
  <2>4. ASSUME NEW c, NEW e, NEW l, NEW i, NEW j, Spot(t, c, e, i), Spot(t, c, l, j)
        PROVE  e = l /\ i = j
    <3>0. Once(q)
      OBVIOUS
    <3>1. CASE c = b
      <4>1. e = k /\ l = k
        BY <2>4, <3>1, <1>6, <1>7, Zenon
      <4>2. i = 1 /\ j = 1
        BY <2>1, <2>4, <3>1, <4>1, <1>7, Zenon
      <4> QED
        BY <4>1, <4>2
    <3>2. CASE c # b /\ e = k /\ l = k
      <4>0. Spot(t, c, k, i) /\ Spot(t, c, k, j)
        BY <2>4, <3>2
      <4>1. i # 1 /\ j # 1
        BY <2>1, <3>2, <4>0
      <4>2. /\ Spot(q, c, k, i - 1) /\ Spot(q, c, k, j - 1)
            /\ (i - 1) + 1 = i /\ (j - 1) + 1 = j
        BY <2>1, <4>0, <4>1
      <4>3. i - 1 = j - 1
        BY <3>0, <4>2, Zenon DEF Once
      <4> QED
        BY <3>2, <4>2, <4>3
    <3>3. CASE c # b /\ e = k /\ l # k
      <4>0. Spot(t, c, k, i) /\ i # 1
        BY <2>1, <2>4, <3>3
      <4>1. Spot(q, c, k, i - 1) /\ Spot(q, c, l, j)
        BY <2>1, <2>4, <3>3, <4>0, <1>6
      <4>2. PICK h : Spot(q, c, k, h)
        BY <4>1
      <4>3. l = k
        BY <3>0, <4>1, <4>2, Zenon DEF Once
      <4> QED
        BY <3>3, <4>3
    <3>4. CASE c # b /\ e # k /\ l = k
      <4>0. Spot(t, c, k, j) /\ j # 1
        BY <2>1, <2>4, <3>4
      <4>1. Spot(q, c, k, j - 1) /\ Spot(q, c, e, i)
        BY <2>1, <2>4, <3>4, <4>0, <1>6
      <4>2. PICK h : Spot(q, c, k, h)
        BY <4>1
      <4>3. e = k
        BY <3>0, <4>1, <4>2, Zenon DEF Once
      <4> QED
        BY <3>4, <4>3
    <3>5. CASE e # k /\ l # k
      <4>1. Spot(q, c, e, i) /\ Spot(q, c, l, j)
        BY <2>4, <3>5, <1>6, Zenon
      <4> QED
        BY <3>0, <4>1, Zenon DEF Once
    <3> QED
      BY <3>1, <3>2, <3>3, <3>4, <3>5
  <2>5. Once(t)
    BY <2>3, <2>4, Zenon DEF Once
  <2>6. ASSUME NEW c, NEW x PROVE Has(t, c, x) <=> Has(q, c, x) \/ (c = b /\ x = q[k].cmd)
    <3>1. \A l, j : Spot(q, c, l, j) => t[l].cmd = q[l].cmd
      BY <1>5 DEF Spot
    <3>2. ASSUME Has(t, c, x) PROVE Has(q, c, x) \/ (c = b /\ x = q[k].cmd)
      <4>1. PICK l, j : Spot(t, c, l, j) /\ t[l].cmd = x
        BY <3>2, Zenon DEF Has
      <4>2. CASE l = k /\ j = 1
        BY <4>1, <4>2, <2>1, <1>5
      <4>3. CASE l = k /\ j # 1
        <5>1. Spot(q, c, k, j - 1)
          BY <4>1, <4>3, <2>1
        <5> QED
          BY <4>1, <4>3, <5>1, <3>1, Zenon DEF Has
      <4>4. CASE l # k
        <5>1. Spot(q, c, l, j)
          BY <4>1, <4>4, <1>6
        <5> QED
          BY <4>1, <5>1, <3>1, Zenon DEF Has
      <4> QED
        BY <4>2, <4>3, <4>4
    <3>3. ASSUME Has(q, c, x) PROVE Has(t, c, x)
      <4>1. PICK l, j : Spot(q, c, l, j) /\ q[l].cmd = x
        BY <3>3, Zenon DEF Has
      <4>2. Spot(t, c, l, j) \/ Spot(t, c, l, j + 1)
        BY <4>1, <2>1, <1>6
      <4>3. t[l].cmd = x
        BY <4>1, <3>1
      <4> QED
        BY <4>2, <4>3, Zenon DEF Has
    <3>4. Has(t, b, q[k].cmd)
      BY <2>1, <1>5, Zenon DEF Has
    <3> QED
      BY <3>2, <3>3, <3>4
  <2> QED
    BY <1>5, <2>5, <2>6
<1> QED
  BY <1>5, <1>8, <1>9

LEMMA TailOf ==
    ASSUME NEW S, NEW s \in Seq(S), s # <<>>
    PROVE  /\ Tail(s) \in Seq(S) /\ Len(Tail(s)) = Len(s) - 1
           /\ \A j \in 1 .. Len(s) - 1 : Tail(s)[j] = s[j + 1]
  OBVIOUS

LEMMA ReplacedAt ==
    ASSUME NEW S, NEW s \in Seq(S), NEW k \in 1 .. Len(s), NEW z \in S
    PROVE  /\ [s EXCEPT ![k] = z] \in Seq(S) /\ Len([s EXCEPT ![k] = z]) = Len(s)
           /\ [s EXCEPT ![k] = z][k] = z
           /\ \A l \in 1 .. Len(s) : l # k => [s EXCEPT ![k] = z][l] = s[l]
  OBVIOUS

\* The first buffer of the queue is done.
Shorter(q) == IF Len(Head(q).bhs) > 1 THEN [q EXCEPT ![1].bhs = Tail(@)] ELSE Tail(q)

LEMMA AtLeastOne ==
    \A x \in Nat : (x > 1 => x - 1 # 0) /\ (x >= 1 /\ ~(x > 1) => x = 1)
  OBVIOUS

LEMMA Ended ==
    ASSUME NEW q \in Seq(Requests), q # <<>>, Once(q), NEW t, t = Shorter(q)
    PROVE  /\ t \in Seq(Requests) /\ Once(t)
           /\ Head(Head(q).bhs) \in Bufs /\ Has(q, Head(Head(q).bhs), Head(q).cmd)
           /\ \A c, x : Has(t, c, x) <=> Has(q, c, x) /\ c # Head(Head(q).bhs)
<1> DEFINE s == q[1].bhs   b == s[1]
<1>1. /\ 1 \in 1 .. Len(q) /\ Len(q) \in Nat /\ Head(q) = q[1]
      /\ q[1] \in Requests /\ s \in Seq(Bufs) /\ Len(s) \in Nat
  <2>1. 1 \in 1 .. Len(q) /\ Head(q) = q[1]
    OBVIOUS
  <2> QED
    BY <2>1, RequestOf
<1>2. s # <<>> /\ Len(s) >= 1 /\ Head(s) = b /\ b \in Bufs
  <2>1. s # <<>>
    BY <1>1 DEF Once
  <2> QED
    BY <2>1, <1>1
<1>3. Head(Head(q).bhs) = b
  BY <1>1, <1>2
<1>4. Spot(q, b, 1, 1)
  BY <1>1, <1>2 DEF Spot
<1>5. \A k, j : Spot(q, b, k, j) => k = 1 /\ j = 1
  BY <1>4, Zenon DEF Once
<1>6. \A k, j, c : Spot(q, c, k, j) => k \in 1 .. Len(q) /\ j \in 1 .. Len(q[k].bhs)
  BY DEF Spot
<1>7. CASE Len(s) > 1
  <2>1. t = [q EXCEPT ![1].bhs = Tail(s)]
    BY <1>1, <1>7 DEF Shorter
  <2>2. /\ Tail(s) \in Seq(Bufs) /\ Len(Tail(s)) = Len(s) - 1 /\ Tail(s) # <<>>
        /\ \A j \in 1 .. Len(s) - 1 : Tail(s)[j] = s[j + 1]
    <3>1. s \in Seq(Bufs) /\ s # <<>>
      BY <1>1, <1>2
    <3>2. /\ Tail(s) \in Seq(Bufs) /\ Len(Tail(s)) = Len(s) - 1
          /\ \A j \in 1 .. Len(s) - 1 : Tail(s)[j] = s[j + 1]
      BY <3>1, TailOf
    <3>3. Tail(s) # <<>>
      <4>1. Len(s) - 1 # 0
        BY <1>1, <1>7, AtLeastOne, Zenon
      <4>2. Len(<<>>) = 0
        OBVIOUS
      <4> QED
        BY <3>2, <4>1, <4>2, Zenon
    <3> QED
      BY <3>2, <3>3
  <2>3. PICK z \in Requests : z = [q[1] EXCEPT !.bhs = Tail(s)]
    BY <1>1, <2>2 DEF Requests
  <2>4. z.bhs = Tail(s) /\ z.cmd = q[1].cmd
    BY <1>1, <2>3 DEF Requests
  <2>5. t = [q EXCEPT ![1] = z]
    BY <2>1, <2>3
  <2>6. /\ t \in Seq(Requests) /\ Len(t) = Len(q) /\ t[1] = z
        /\ \A l \in 1 .. Len(q) : l # 1 => t[l] = q[l]
    <3> HIDE DEF s, b
    <3> QED
      BY <1>1, <2>5, ReplacedAt
  <2>7. \A c, l, j : l # 1 => (Spot(t, c, l, j) <=> Spot(q, c, l, j))
    BY <2>6 DEF Spot
  <2>8. ASSUME NEW c, NEW j, Spot(t, c, 1, j) PROVE j \in Nat /\ Spot(q, c, 1, j + 1) /\ j + 1 # 1
    <3>1. j \in 1 .. Len(s) - 1 /\ Tail(s)[j] = c
      BY <2>2, <2>4, <2>6, <2>8 DEF Spot
    <3>2. j + 1 \in 1 .. Len(s) /\ s[j + 1] = c /\ j \in Nat /\ j + 1 # 1
      BY <1>1, <2>2, <3>1
    <3> QED
      BY <1>1, <3>2 DEF Spot
  <2>9. ASSUME NEW c, NEW j, Spot(q, c, 1, j), c # b
        PROVE  j - 1 \in Nat /\ Spot(t, c, 1, j - 1) /\ (j - 1) + 1 = j
    <3>1. j \in 1 .. Len(s) /\ s[j] = c
      BY <2>9 DEF Spot
    <3>2. j # 1
      BY <2>9, <3>1
    <3>3. j - 1 \in 1 .. Len(s) - 1 /\ (j - 1) + 1 = j /\ j - 1 \in Nat
      BY <1>1, <3>1, <3>2
    <3>4. Tail(s)[j - 1] = s[(j - 1) + 1]
      BY <2>2, <3>3
    <3> QED
      BY <2>2, <2>4, <2>6, <1>1, <3>1, <3>3, <3>4 DEF Spot
  <2>10. Once(t)
    <3>1. \A k \in 1 .. Len(t) : t[k].bhs # <<>>
      BY <2>2, <2>4, <2>6 DEF Once
    <3>2. ASSUME NEW c, NEW k, NEW l, NEW i, NEW j, Spot(t, c, k, i), Spot(t, c, l, j)
          PROVE  k = l /\ i = j
      <4>0. Once(q)
        OBVIOUS
      <4>1. CASE k = 1 /\ l = 1
        <5>1. /\ i \in Nat /\ Spot(q, c, 1, i + 1) /\ j \in Nat /\ Spot(q, c, 1, j + 1)
          BY <2>8, <3>2, <4>1
        <5>2. i + 1 = j + 1
          BY <4>0, <5>1, Zenon DEF Once
        <5> QED
          BY <4>1, <5>1, <5>2
      <4>2. CASE k = 1 /\ l # 1
        <5>1. Spot(q, c, 1, i + 1) /\ Spot(q, c, l, j)
          BY <2>7, <2>8, <3>2, <4>2
        <5> QED
          BY <4>0, <4>2, <5>1, Zenon DEF Once
      <4>3. CASE k # 1 /\ l = 1
        <5>1. Spot(q, c, 1, j + 1) /\ Spot(q, c, k, i)
          BY <2>7, <2>8, <3>2, <4>3
        <5> QED
          BY <4>0, <4>3, <5>1, Zenon DEF Once
      <4>4. CASE k # 1 /\ l # 1
        <5>1. Spot(q, c, k, i) /\ Spot(q, c, l, j)
          BY <2>7, <3>2, <4>4
        <5> QED
          BY <4>0, <5>1, Zenon DEF Once
      <4> QED
        BY <4>1, <4>2, <4>3, <4>4
    <3> QED
      BY <3>1, <3>2, Zenon DEF Once
  <2>11. ASSUME NEW c, NEW x PROVE Has(t, c, x) <=> Has(q, c, x) /\ c # b
    <3>1. \A l, j : Spot(q, c, l, j) => t[l].cmd = q[l].cmd
      BY <2>4, <2>6 DEF Spot
    <3>2. ASSUME Has(t, c, x) PROVE Has(q, c, x) /\ c # b
      <4>1. PICK l, j : Spot(t, c, l, j) /\ t[l].cmd = x
        BY <3>2, Zenon DEF Has
      <4>2. CASE l = 1
        <5>1. Spot(q, c, 1, j + 1) /\ j + 1 # 1
          BY <2>8, <4>1, <4>2
        <5>2. c # b
          BY <5>1, <1>5, Zenon
        <5> QED
          BY <3>1, <4>1, <4>2, <5>1, <5>2, Zenon DEF Has
      <4>3. CASE l # 1
        <5>1. Spot(q, c, l, j)
          BY <2>7, <4>1, <4>3
        <5>2. c # b
          BY <4>3, <5>1, <1>5, Zenon
        <5> QED
          BY <3>1, <4>1, <5>1, <5>2, Zenon DEF Has
      <4> QED
        BY <4>2, <4>3
    <3>3. ASSUME Has(q, c, x), c # b PROVE Has(t, c, x)
      <4>1. PICK l, j : Spot(q, c, l, j) /\ q[l].cmd = x
        BY <3>3, Zenon DEF Has
      <4>2. t[l].cmd = x
        BY <3>1, <4>1
      <4>3. CASE l = 1
        <5>1. Spot(t, c, 1, j - 1)
          BY <2>9, <3>3, <4>1, <4>3
        <5> QED
          BY <4>2, <4>3, <5>1, Zenon DEF Has
      <4>4. CASE l # 1
        <5>1. Spot(t, c, l, j)
          BY <2>7, <4>1, <4>4
        <5> QED
          BY <4>2, <5>1, Zenon DEF Has
      <4> QED
        BY <4>3, <4>4
    <3> QED
      BY <3>2, <3>3
  <2>12. Has(q, b, q[1].cmd)
    BY <1>4, Zenon DEF Has
  <2> QED
    BY <1>1, <1>2, <1>3, <2>6, <2>10, <2>11, <2>12
<1>8. CASE ~(Len(s) > 1)
  <2>0. Len(Head(q).bhs) = Len(s)
    BY <1>1
  <2>1. Len(s) = 1 /\ t = Tail(q)
    <3>1. Len(s) = 1
      BY <1>1, <1>2, <1>8, AtLeastOne, Zenon
    <3>2. t = Tail(q)
      BY <2>0, <1>8 DEF Shorter
    <3> QED
      BY <3>1, <3>2
  <2>2. /\ t \in Seq(Requests) /\ Len(t) = Len(q) - 1
        /\ \A l \in 1 .. Len(q) - 1 : t[l] = q[l + 1]
    BY <1>1, <2>1, TailOf
  <2>3. ASSUME NEW c, NEW l, NEW j, Spot(t, c, l, j)
        PROVE  l \in 1 .. Len(q) - 1 /\ t[l] = q[l + 1] /\ Spot(q, c, l + 1, j) /\ l + 1 # 1
    <3>1. l \in 1 .. Len(q) - 1 /\ t[l] = q[l + 1]
      BY <2>2, <2>3 DEF Spot
    <3>2. l + 1 \in 1 .. Len(q) /\ l + 1 # 1
      BY <1>1, <3>1
    <3> QED
      BY <2>3, <3>1, <3>2 DEF Spot
  <2>4. ASSUME NEW c, NEW l, NEW j, Spot(q, c, l, j), c # b
        PROVE  Spot(t, c, l - 1, j) /\ t[l - 1] = q[l]
    <3>1. l \in 1 .. Len(q)
      BY <2>4 DEF Spot
    <3>2. l # 1
      <4>1. ASSUME l = 1 PROVE FALSE
        <5>1. j \in 1 .. Len(s) /\ s[j] = c
          BY <2>4, <4>1 DEF Spot
        <5>2. j = 1
          BY <2>1, <5>1
        <5> QED
          BY <2>4, <5>1, <5>2
      <4> QED
        BY <4>1
    <3>3. l - 1 \in 1 .. Len(q) - 1 /\ (l - 1) + 1 = l
      BY <1>1, <3>1, <3>2
    <3>4. t[l - 1] = q[(l - 1) + 1]
      BY <2>2, <3>3
    <3>5. t[l - 1] = q[l]
      BY <3>3, <3>4
    <3> QED
      BY <2>2, <2>4, <3>3, <3>5 DEF Spot
  <2>5. Once(t)
    <3>1. ASSUME NEW k \in 1 .. Len(t) PROVE t[k].bhs # <<>>
      <4>1. k \in 1 .. Len(q) - 1 /\ k + 1 \in 1 .. Len(q)
        BY <1>1, <2>2
      <4>2. t[k] = q[k + 1] /\ q[k + 1].bhs # <<>>
        BY <2>2, <4>1 DEF Once
      <4> QED
        BY <4>2
    <3>2. ASSUME NEW c, NEW k, NEW l, NEW i, NEW j, Spot(t, c, k, i), Spot(t, c, l, j)
          PROVE  k = l /\ i = j
      <4>0. Once(q)
        OBVIOUS
      <4>1. /\ k \in 1 .. Len(q) - 1 /\ Spot(q, c, k + 1, i)
            /\ l \in 1 .. Len(q) - 1 /\ Spot(q, c, l + 1, j)
        BY <2>3, <3>2
      <4>2. k + 1 = l + 1 /\ i = j
        BY <4>0, <4>1, Zenon DEF Once
      <4> QED
        BY <4>1, <4>2
    <3> QED
      BY <3>1, <3>2, Zenon DEF Once
  <2>6. ASSUME NEW c, NEW x PROVE Has(t, c, x) <=> Has(q, c, x) /\ c # b
    <3>1. ASSUME Has(t, c, x) PROVE Has(q, c, x) /\ c # b
      <4>1. PICK l, j : Spot(t, c, l, j) /\ t[l].cmd = x
        BY <3>1, Zenon DEF Has
      <4>2. Spot(q, c, l + 1, j) /\ q[l + 1].cmd = x /\ l + 1 # 1
        BY <2>3, <4>1
      <4>3. c # b
        BY <4>2, <1>5, Zenon
      <4> QED
        BY <4>2, <4>3, Zenon DEF Has
    <3>2. ASSUME Has(q, c, x), c # b PROVE Has(t, c, x)
      <4>1. PICK l, j : Spot(q, c, l, j) /\ q[l].cmd = x
        BY <3>2, Zenon DEF Has
      <4>2. Spot(t, c, l - 1, j) /\ t[l - 1].cmd = x
        BY <2>4, <3>2, <4>1
      <4> QED
        BY <4>2, Zenon DEF Has
    <3> QED
      BY <3>1, <3>2
  <2>7. Has(q, b, q[1].cmd)
    BY <1>4, Zenon DEF Has
  <2> QED
    BY <1>1, <1>2, <1>3, <2>2, <2>5, <2>6, <2>7
<1> QED
  BY <1>7, <1>8

\* add_request puts a request behind the first one.
LEMMA InsertPuts ==
    ASSUME queue \in Seq(Requests), NEW r \in Requests
    PROVE  /\ Insert(r) \in Seq(Requests)
           /\ \E m \in 1 .. Len(queue) + 1 : Put(queue, Insert(r), r, m) /\ (queue # <<>> => m > 1)
<1> DEFINE P == {k \in 1 .. Len(queue) - 1 :
                   /\ \/ IN_ORDER(queue[k], r)
                      \/ ~IN_ORDER(queue[k], queue[k + 1])
                   /\ IN_ORDER(r, queue[k + 1])}
<1>0. Len(queue) \in Nat
  OBVIOUS
<1>1. Insert(r) = IF P = {} THEN Append(queue, r) ELSE InsertAt(queue, Min(P) + 1, r)
  BY DEF Insert
<1>2. P \subseteq 1 .. Len(queue) - 1
  OBVIOUS
<1> HIDE DEF P
<1>3. CASE P = {}
  <2>1. Insert(r) = Append(queue, r)
    BY <1>1, <1>3
  <2>2. /\ Append(queue, r) \in Seq(Requests) /\ Len(Append(queue, r)) = Len(queue) + 1
        /\ Append(queue, r)[Len(queue) + 1] = r
        /\ \A i \in 1 .. Len(queue) : Append(queue, r)[i] = queue[i]
    OBVIOUS
  <2>3. Put(queue, Append(queue, r), r, Len(queue) + 1)
    BY <1>0, <2>2 DEF Put
  <2>4. queue # <<>> => Len(queue) + 1 > 1
    BY <1>0
  <2> QED
    BY <1>0, <2>1, <2>2, <2>3, <2>4
<1>4. CASE P # {}
  <2>1. P \subseteq Nat
    BY <1>0, <1>2
  <2>2. Min(P) \in 1 .. Len(queue) - 1
    BY <1>2, <1>4, <2>1, MinIsLeast
  <2>3. PICK m \in 2 .. Len(queue) : m = Min(P) + 1
    BY <1>0, <2>2
  <2> DEFINE s == SubSeq(queue, 1, m - 1)   u == SubSeq(queue, m, Len(queue))   h == s \o <<r>>
             t == InsertAt(queue, m, r)
  <2>4. /\ s \in Seq(Requests) /\ Len(s) = m - 1 /\ \A i \in 1 .. m - 1 : s[i] = queue[i]
        /\ u \in Seq(Requests) /\ Len(u) = Len(queue) - m + 1
        /\ \A i \in 1 .. Len(queue) - m + 1 : u[i] = queue[m + i - 1]
    BY <1>0, <2>3
  <2>5. t = h \o u /\ <<r>> \in Seq(Requests) /\ Len(<<r>>) = 1 /\ <<r>>[1] = r
    BY DEF InsertAt
  <2>6. /\ h \in Seq(Requests) /\ Len(h) = m /\ h[m] = r
        /\ \A i \in 1 .. m - 1 : h[i] = s[i]
    <3> HIDE DEF s
    <3>1. <<r>> \in Seq(Requests) /\ s \in Seq(Requests) /\ Len(s) = m - 1
      BY <2>4, <2>5
    <3>2. /\ h \in Seq(Requests) /\ Len(h) = Len(s) + 1
          /\ \A i \in 1 .. Len(s) : h[i] = s[i]
          /\ h[Len(s) + 1] = r
      BY <3>1
    <3> QED
      BY <3>1, <3>2, <2>3
  <2> HIDE DEF s, u, h, t
  <2>7. /\ t \in Seq(Requests) /\ Len(t) = Len(h) + Len(u)
        /\ \A i \in 1 .. Len(h) : t[i] = h[i]
        /\ \A i \in Len(h) + 1 .. Len(h) + Len(u) : t[i] = u[i - Len(h)]
    BY <2>4, <2>5, <2>6, Joining
  <2>8. Len(t) = Len(queue) + 1 /\ t[m] = r
    BY <1>0, <2>3, <2>4, <2>6, <2>7, SMTT(20)
  <2>9. \A i \in 1 .. m - 1 : t[i] = queue[i]
    BY <2>3, <2>4, <2>6, <2>7, SMTT(20)
  <2>10. ASSUME NEW i \in m + 1 .. Len(t) PROVE t[i] = queue[i - 1]
    <3>1. /\ i \in Len(h) + 1 .. Len(h) + Len(u)
          /\ i - m \in 1 .. Len(queue) - m + 1 /\ m + (i - m) - 1 = i - 1
      BY <1>0, <2>3, <2>4, <2>6, <2>7, <2>8, SMTT(20)
    <3>2. t[i] = u[i - m]
      BY <2>6, <2>7, <3>1
    <3>3. u[i - m] = queue[m + (i - m) - 1]
      BY <2>4, <3>1
    <3> QED
      BY <3>1, <3>2, <3>3
  <2>11. Put(queue, t, r, m)
    BY <2>8, <2>9, <2>10 DEF Put
  <2>12. Insert(r) = t
    BY <1>1, <1>4, <2>3 DEF t
  <2>13. m \in 1 .. Len(queue) + 1 /\ m > 1
    BY <1>0, <2>3
  <2> QED
    BY <2>7, <2>11, <2>12, <2>13
<1> QED
  BY <1>3, <1>4

-----------------------------------------------------------------------------
(* Who owns a lock.                                                        *)

\* The locks after a step: all but that of b are as they were.
Locks(b, x) == buf'[b].lock = x /\ \A c \in Bufs : c # b => buf'[c].lock = buf[c].lock
SameLocks == \A c \in Bufs : buf'[c].lock = buf[c].lock
Gains(q, t, b, y) == \A c, x : Has(t, c, x) <=> Has(q, c, x) \/ (c = b /\ x = y)

LEMMA SameQueue ==
    ASSUME Owned, queue' = queue
    PROVE  Once(queue)' /\ \A b : In(queue, b)' <=> In(queue, b)
  BY DEF Owned, Once, In, Spot

LEMMA OwnedSame ==
    ASSUME Owned, proc' = proc, queue' = queue, SameLocks \/ buf' = buf
    PROVE  Owned'
<1>1. SameLocks
  BY DEF SameLocks
<1>2. Once(queue)' /\ \A b : In(queue, b)' <=> In(queue, b)
  BY SameQueue
<1>3. \A q \in Procs, b \in Bufs : InLoop(q, b)' <=> InLoop(q, b)
  BY DEF InLoop
<1> QED
  BY <1>1, <1>2, <1>3 DEF Owned, SameLocks

LEMMA OwnedKept ==
    ASSUME Types, Owned, NEW p \in Procs, NEW v, proc' = [proc EXCEPT ![p] = v],
           proc[p].pc # "slot", v.pc # "slot", queue' = queue, SameLocks
    PROVE  Owned'
<1>1. \A q \in Procs, b \in Bufs : InLoop(q, b)' <=> InLoop(q, b)
  BY DEF InLoop, Types
<1>2. Once(queue)' /\ \A b : In(queue, b)' <=> In(queue, b)
  BY SameQueue
<1> QED
  BY <1>1, <1>2 DEF Owned, SameLocks

LEMMA OwnedLocked ==
    ASSUME Types, Owned, NEW p \in Procs, NEW v, proc' = [proc EXCEPT ![p] = v],
           NEW b \in Bufs, proc[p].pc # "slot", v.pc = "slot", v.bh = b, queue' = queue,
           ~buf[b].lock, Locks(b, TRUE)
    PROVE  Owned'
<1>1. \A q \in Procs, c \in Bufs : InLoop(q, c)' <=> InLoop(q, c) \/ (q = p /\ c = b)
  BY DEF InLoop, Types
<1>2. Once(queue)' /\ \A c : In(queue, c)' <=> In(queue, c)
  BY SameQueue
<1>3. ~In(queue, b) /\ \A q \in Procs : ~InLoop(q, b)
  BY DEF Owned
<1>4. \A c \in Bufs : buf'[c].lock <=> In(queue, c)' \/ \E q \in Procs : InLoop(q, c)'
  BY <1>1, <1>2 DEF Owned, Locks
<1>5. \A c \in Bufs, q \in Procs : InLoop(q, c)' =>
          ~In(queue, c)' /\ \A o \in Procs : InLoop(o, c)' => o = q
  BY <1>1, <1>2, <1>3 DEF Owned
<1> QED
  BY <1>2, <1>4, <1>5 DEF Owned

LEMMA OwnedQueued ==
    ASSUME Types, Owned, NEW p \in Procs, NEW v, proc' = [proc EXCEPT ![p] = v],
           NEW b \in Bufs, proc[p].pc = "slot", proc[p].bh = b, v.pc # "slot",
           queue' \in Seq(Requests), Once(queue'), NEW y \in {"READ", "WRITE"},
           Gains(queue, queue', b, y), SameLocks
    PROVE  Owned'
<1>1. \A q \in Procs, c \in Bufs : InLoop(q, c)' <=> InLoop(q, c) /\ q # p
  BY DEF InLoop, Types
<1>2. \A c : In(queue', c) <=> In(queue, c) \/ c = b
  <2> SUFFICES ASSUME NEW c PROVE In(queue', c) <=> In(queue, c) \/ c = b
    OBVIOUS
  <2>1. In(queue', c) <=> Has(queue', c, "READ") \/ Has(queue', c, "WRITE")
    BY InHas
  <2>2. In(queue, c) <=> Has(queue, c, "READ") \/ Has(queue, c, "WRITE")
    BY InHas DEF Types
  <2> QED
    BY <2>1, <2>2 DEF Gains
<1>3. InLoop(p, b) /\ buf[b].lock /\ \A q \in Procs : InLoop(q, b) => q = p
  BY DEF Owned, InLoop
<1>4. \A c \in Bufs : c # b => ~InLoop(p, c)
  BY DEF InLoop
<1>5. \A c \in Bufs : buf'[c].lock <=> In(queue', c) \/ \E q \in Procs : InLoop(q, c)'
  <2> SUFFICES ASSUME NEW c \in Bufs
               PROVE  buf'[c].lock <=> In(queue', c) \/ \E q \in Procs : InLoop(q, c)'
    OBVIOUS
  <2>1. CASE c = b
    BY <2>1, <1>2, <1>3 DEF SameLocks
  <2>2. CASE c # b
    BY <2>2, <1>1, <1>2, <1>4 DEF SameLocks, Owned
  <2> QED
    BY <2>1, <2>2
<1>6. \A c \in Bufs, q \in Procs : InLoop(q, c)' =>
          ~In(queue', c) /\ \A o \in Procs : InLoop(o, c)' => o = q
  BY <1>1, <1>2, <1>3 DEF Owned
<1>7. \A c : In(queue, c)' <=> In(queue', c)
  BY DEF In, Spot
<1>8. Once(queue)'
  BY DEF Once, Spot
<1> QED
  BY <1>5, <1>6, <1>7, <1>8 DEF Owned

LEMMA OwnedGiven ==
    ASSUME Types, Owned, NEW p \in Procs, NEW v, proc' = [proc EXCEPT ![p] = v],
           NEW b \in Bufs, proc[p].pc = "slot", proc[p].bh = b, v.pc # "slot",
           queue' = queue, Locks(b, FALSE)
    PROVE  Owned'
<1>1. \A q \in Procs, c \in Bufs : InLoop(q, c)' <=> InLoop(q, c) /\ q # p
  BY DEF InLoop, Types
<1>2. Once(queue)' /\ \A c : In(queue, c)' <=> In(queue, c)
  BY SameQueue
<1>3. ~In(queue, b) /\ \A q \in Procs : InLoop(q, b) => q = p
  BY DEF Owned, InLoop
<1>4. \A c \in Bufs : c # b => ~InLoop(p, c)
  BY DEF InLoop
<1>5. \A c \in Bufs : buf'[c].lock <=> In(queue, c)' \/ \E q \in Procs : InLoop(q, c)'
  <2> SUFFICES ASSUME NEW c \in Bufs
               PROVE  buf'[c].lock <=> In(queue, c)' \/ \E q \in Procs : InLoop(q, c)'
    OBVIOUS
  <2>1. CASE c = b
    BY <2>1, <1>1, <1>2, <1>3 DEF Locks
  <2>2. CASE c # b
    BY <2>2, <1>1, <1>2, <1>4 DEF Locks, Owned
  <2> QED
    BY <2>1, <2>2
<1>6. \A c \in Bufs, q \in Procs : InLoop(q, c)' =>
          ~In(queue, c)' /\ \A o \in Procs : InLoop(o, c)' => o = q
  BY <1>1, <1>2 DEF Owned
<1> QED
  BY <1>2, <1>5, <1>6 DEF Owned

LEMMA OwnedEnded ==
    ASSUME Types, Owned, proc' = proc, queue # <<>>, queue' = Shorter(queue),
           Locks(Head(Head(queue).bhs), FALSE)
    PROVE  Owned' /\ queue' \in Seq(Requests)
<1> DEFINE b == Head(Head(queue).bhs)
<1>0. queue \in Seq(Requests) /\ Once(queue)
  BY DEF Types, Owned
<1>1. /\ queue' \in Seq(Requests) /\ Once(queue') /\ b \in Bufs /\ Has(queue, b, Head(queue).cmd)
      /\ \A c, x : Has(queue', c, x) <=> Has(queue, c, x) /\ c # b
  BY <1>0, Ended
<1> HIDE DEF b
<1>2. \A c : In(queue', c) <=> In(queue, c) /\ c # b
  <2> SUFFICES ASSUME NEW c PROVE In(queue', c) <=> In(queue, c) /\ c # b
    OBVIOUS
  <2>1. In(queue', c) <=> Has(queue', c, "READ") \/ Has(queue', c, "WRITE")
    BY <1>1, InHas
  <2>2. In(queue, c) <=> Has(queue, c, "READ") \/ Has(queue, c, "WRITE")
    BY <1>0, InHas
  <2> QED
    BY <2>1, <2>2, <1>1
<1>3. In(queue, b)
  BY <1>1 DEF Has, In
<1>4. \A q \in Procs : ~InLoop(q, b)
  BY <1>1, <1>3 DEF Owned
<1>5. \A q \in Procs, c \in Bufs : InLoop(q, c)' <=> InLoop(q, c)
  BY DEF InLoop
<1>6. \A c : In(queue, c)' <=> In(queue', c)
  BY DEF In, Spot
<1>7. Once(queue)'
  BY <1>1 DEF Once, Spot
<1>8. Locks(b, FALSE)
  BY DEF b
<1>9. \A c \in Bufs : buf'[c].lock <=> In(queue, c)' \/ \E q \in Procs : InLoop(q, c)'
  <2> SUFFICES ASSUME NEW c \in Bufs
               PROVE  buf'[c].lock <=> In(queue, c)' \/ \E q \in Procs : InLoop(q, c)'
    OBVIOUS
  <2>1. CASE c = b
    BY <2>1, <1>2, <1>4, <1>5, <1>6, <1>8 DEF Locks
  <2>2. CASE c # b
    BY <2>2, <1>2, <1>5, <1>6, <1>8 DEF Locks, Owned
  <2> QED
    BY <2>1, <2>2
<1>10. \A c \in Bufs, q \in Procs : InLoop(q, c)' =>
          ~In(queue, c)' /\ \A o \in Procs : InLoop(o, c)' => o = q
  BY <1>2, <1>5, <1>6 DEF Owned
<1> QED
  BY <1>1, <1>7, <1>9, <1>10 DEF Owned

-----------------------------------------------------------------------------
(* The kinds of steps.                                                     *)

\* Process p goes on to v; v is as the invariant wants it.
Ready(v) == v \in Places /\ Stage(v) /\ InList(v, free_list) /\ Found(v)
Moves(p, v) ==
    /\ current \in {None, p}
    /\ proc' = [proc EXCEPT ![p] = v]
    /\ current' = p \/ (current' = None /\ (v.waiting \/ v.pc \in {"user", "slot", "getblk"}))

\* With v instead of r, a process has d more references to b.
Takes(r, v, b, d) == \A c \in Bufs : Refs(v, c) = Refs(r, c) + (IF c = b THEN d ELSE 0)

\* What the invariant says of one process and of one buffer.
LEMMA ProcessOf ==
    ASSUME IInv, NEW p \in Procs
    PROVE  proc[p] \in Places /\ Ready(proc[p]) /\ Runs(p)
<1>1. proc[p] \in Places
  BY DEF IInv, Types
<1> QED
  BY <1>1 DEF IInv, Ready

LEMMA BufferOf ==
    ASSUME IInv, NEW b \in Bufs
    PROVE  /\ buf[b] \in Buffers /\ buf[b].count \in Nat
           /\ buf[b].blk = None => buf[b] = Unused
           /\ b \notin ToSet(free_list) => buf[b].blk = None
<1>1. buf[b] \in Buffers
  BY DEF IInv, Types
<1>2. buf[b].count \in Nat
  BY RefsPositive DEF IInv
<1> QED
  BY <1>1, <1>2 DEF IInv, Blank

LEMMA InUse ==
    ASSUME IInv, NEW b \in Bufs,
           buf[b].count # 0 \/ buf[b].lock \/ buf[b].dirt \/ buf[b].uptodate
    PROVE  buf[b].blk # None
<1>1. buf[b].blk = None => buf[b] = Unused
  BY BufferOf
<1>2. Unused.count = 0 /\ ~Unused.lock /\ ~Unused.dirt /\ ~Unused.uptodate
  BY DEF Unused
<1> QED
  BY <1>1, <1>2

LEMMA ListIs ==
    ASSUME IInv
    PROVE  /\ free_list \in Seq(Bufs) /\ free_list # <<>> /\ ToSet(free_list) \subseteq Bufs
           /\ Head(free_list) \in ToSet(free_list) /\ Len(free_list) \in Nat \ {0}
           /\ None \notin Bufs
<1>1. free_list \in Seq(Bufs) /\ free_list # <<>>
  BY DEF IInv, Types
<1> QED
  BY <1>1, ListOf, HeadIsInList, NoneAssumption

\* A process refers to a buffer more or less, or to none.
LEMMA CountStep ==
    ASSUME IInv, NEW p \in Procs, NEW v, Moves(p, v), Ready(v),
           NEW b \in ToSet(free_list), NEW d \in Int,
           buf' = [buf EXCEPT ![b].count = @ + d], d = 0 \/ buf[b].blk # None,
           Takes(proc[p], v, b, d), proc[p].pc # "slot", v.pc # "slot",
           queue' = queue, moved' = moved, disk' = disk, free_list' = free_list
    PROVE  IInv'
<1>0. b \in Bufs /\ free_list \in Seq(Bufs) /\ free_list # <<>>
  BY ListIs
<1>1. buf[b] \in Buffers /\ buf \in [Bufs -> Buffers] /\ (buf[b].blk = None => buf[b] = Unused)
  BY <1>0, BufferOf DEF IInv, Types
<1>2. PICK w \in Buffers : w = [buf[b] EXCEPT !.count = @ + d]
  <2>1. PICK x \in Buffers : x = buf[b]
    BY <1>1
  <2>2. x.count + d \in Int
    BY DEF Buffers
  <2>3. [x EXCEPT !.count = @ + d] \in Buffers
    BY <2>2 DEF Buffers
  <2> QED
    BY <2>1, <2>3
<1>3. /\ w.blk = buf[b].blk /\ w.lock = buf[b].lock /\ w.count = buf[b].count + d
      /\ d = 0 => w = buf[b]
  BY <1>1, <1>2 DEF Buffers
<1>4. buf' = [buf EXCEPT ![b] = w] /\ buf'[b] = w /\ \A c \in Bufs : c # b => buf'[c] = buf[c]
  BY <1>0, <1>1, <1>2
<1>5. Turns(b, w, free_list)
  BY <1>0, <1>1, <1>3, <1>4 DEF Turns
<1>6. Found(v)'
  <2>1. \A c \in Bufs : buf'[c].blk = buf[c].blk
    BY <1>3, <1>4
  <2>2. Found(v) /\ v \in Places /\ Stage(v)
    BY DEF Ready
  <2>3. /\ v.first # None => v.first \in Bufs
        /\ v.bh # None => v.bh \in Bufs
        /\ v.pc \in {"got", "bread", "readahead", "rw", "slot"} => v.bh # None
    BY <2>2 DEF Places, Stage
  <2> QED
    BY <2>1, <2>2, <2>3 DEF Found
<1>7. Goes(p, v)
  <2>1. queue \in Seq(Requests) /\ moved \in BOOLEAN
    BY DEF IInv, Types
  <2> QED
    BY <1>6, <2>1 DEF Goes, Moves, Ready, InList
<1>8. \A c \in Bufs : buf'[c].count = buf[c].count + Refs(v, c) - Refs(proc[p], c)
  <2> SUFFICES ASSUME NEW c \in Bufs
               PROVE  buf'[c].count = buf[c].count + Refs(v, c) - Refs(proc[p], c)
    OBVIOUS
  <2>1. Refs(v, c) \in Int /\ Refs(proc[p], c) \in Int /\ buf[c].count \in Int
    <3>1. buf[c].count \in Nat
      BY BufferOf
    <3> QED
      BY <3>1 DEF Refs, Bit
  <2>2. Refs(v, c) = Refs(proc[p], c) + (IF c = b THEN d ELSE 0)
    BY DEF Takes
  <2>3. buf'[c].count = buf[c].count + (IF c = b THEN d ELSE 0)
    BY <2>1, <1>3, <1>4
  <2> QED
    BY <2>1, <2>2, <2>3
<1>9. Frame
  BY DEF IInv, Frame
<1>10. Frame'
  BY <1>0, <1>5, <1>7, <1>8, <1>9, ProcStep
<1>11. Owned'
  <2>1. SameLocks
    BY <1>3, <1>4 DEF SameLocks
  <2> QED
    BY <2>1, OwnedKept DEF IInv, Moves
<1> QED
  BY <1>10, <1>11 DEF IInv, Frame

LEMMA QuietStep ==
    ASSUME IInv, NEW p \in Procs, NEW v, Moves(p, v), Ready(v), NEW b,
           Takes(proc[p], v, b, 0), proc[p].pc # "slot", v.pc # "slot",
           buf' = buf, queue' = queue, moved' = moved, disk' = disk, free_list' = free_list
    PROVE  IInv'
<1> DEFINE h == Head(free_list)
<1>1. h \in ToSet(free_list) /\ h \in Bufs
  BY ListIs
<1> HIDE DEF h
<1>2. buf' = [buf EXCEPT ![h].count = @ + 0]
  <2>1. buf[h] \in Buffers /\ buf \in [Bufs -> Buffers]
    BY <1>1, BufferOf DEF IInv, Types
  <2>2. [buf[h] EXCEPT !.count = @ + 0] = buf[h]
    BY <2>1 DEF Buffers
  <2> QED
    BY <2>1, <2>2
<1>3. Takes(proc[p], v, h, 0)
  BY DEF Takes
<1>4. 0 \in Int /\ (0 = 0 \/ buf[h].blk # None)
  OBVIOUS
<1> QED
  BY <1>1, <1>2, <1>3, <1>4, CountStep, Zenon

-----------------------------------------------------------------------------
(* The actions: waiting for a buffer, and sync_buffers.                    *)

\* Process p stands at r, which is at its place or on the way there, and waits
\* for the buffer.
LEMMA WaitStep ==
    ASSUME IInv, NEW p \in Procs, NEW r, Ready(r), current \in {None, p},
           Takes(proc[p], r, None, 0), ~r.waiting,
           r.pc \in {"sync", "found", "chosen", "bread", "brelse", "free", "rw"},
           proc[p].pc # "slot", StartWait(p, r), free_list' = free_list
    PROVE  IInv'
<1>1. r \in Places /\ r.bh # None /\ r.bh \in ToSet(free_list) /\ r.bh \in Bufs /\ r.pc # "slot"
  BY ListIs DEF Ready, Stage, InList, Places
<1>2. PICK v \in Places : v = [r EXCEPT !.waiting = TRUE]
  BY <1>1 DEF Places
<1>3. /\ v.waiting /\ v.pc = r.pc /\ v.bh = r.bh /\ v.first = r.first /\ v.ret = r.ret
      /\ v.ahead = r.ahead /\ v.block = r.block /\ v.n = r.n /\ v.then = r.then /\ v.i = r.i
  BY <1>1, <1>2 DEF Places
<1>4. Ready(v)
  <2>1. Stage(v)
    BY <1>3 DEF Ready, Stage, Searching
  <2>2. InList(v, free_list) /\ Found(v)
    BY <1>3 DEF Ready, InList, Found
  <2> QED
    BY <2>1, <2>2 DEF Ready
<1>5. Moves(p, v)
  BY <1>2, <1>3 DEF Moves, StartWait
<1>6. Takes(proc[p], v, r.bh, 1)
  <2> SUFFICES ASSUME NEW c \in Bufs PROVE Refs(v, c) = Refs(proc[p], c) + (IF c = r.bh THEN 1 ELSE 0)
    BY DEF Takes
  <2>1. Refs(r, c) = Refs(proc[p], c) + 0
    BY ListIs DEF Takes
  <2>2. Refs(v, c) = Refs(r, c) + (IF c = r.bh THEN 1 ELSE 0)
    BY <1>3 DEF Refs, Bit
  <2>3. Refs(proc[p], c) \in Int
    BY DEF Refs, Bit
  <2> QED
    BY <2>1, <2>2, <2>3
<1>7. buf[r.bh].blk # None
  BY <1>1, InUse DEF StartWait
<1>8. /\ buf' = [buf EXCEPT ![r.bh].count = @ + 1] /\ v.pc # "slot"
      /\ queue' = queue /\ moved' = moved /\ disk' = disk
  BY <1>1, <1>3 DEF StartWait, requests
<1>9. 1 \in Int
  OBVIOUS
<1> QED
  BY <1>1, <1>4, <1>5, <1>6, <1>7, <1>8, <1>9, CountStep, Zenon

LEMMA EndWaitKeeps ==
    ASSUME IInv, NEW p \in Procs, EndWait(p), free_list' = free_list
    PROVE  IInv'
<1>1. PICK r \in Places : r = proc[p]
  BY ProcessOf
<1>2. Ready(r) /\ r.waiting /\ Waits(p, r.bh)
  BY <1>1, ProcessOf DEF EndWait, Waits
<1>3. /\ r.bh # None /\ r.bh \in ToSet(free_list) /\ r.bh \in Bufs
      /\ r.pc # "slot" /\ r.pc # "user"
  BY <1>2, ListIs DEF Ready, Stage, InList
<1>4. PICK v \in Places : v = [r EXCEPT !.waiting = FALSE]
  BY DEF Places
<1>5. /\ v.waiting = FALSE /\ v.pc = r.pc /\ v.bh = r.bh /\ v.first = r.first /\ v.ret = r.ret
      /\ v.ahead = r.ahead /\ v.block = r.block /\ v.n = r.n /\ v.then = r.then /\ v.i = r.i
  BY <1>4 DEF Places
<1>6. Ready(v)
  <2>1. Stage(v)
    BY <1>2, <1>3, <1>5 DEF Ready, Stage, Searching
  <2>2. InList(v, free_list) /\ Found(v)
    BY <1>2, <1>5 DEF Ready, InList, Found
  <2> QED
    BY <2>1, <2>2 DEF Ready
<1>7. Moves(p, v)
  BY <1>1, <1>3, <1>4, <1>5 DEF Moves, EndWait, Go
<1>8. Takes(r, v, r.bh, -1)
  BY <1>2, <1>5 DEF Takes, Refs, Bit
<1>9. buf[r.bh].blk # None
  <2>1. buf[r.bh].count > 0
    BY <1>2, <1>3, RefsPositive DEF IInv
  <2> QED
    BY <1>3, <2>1, InUse
<1>10. /\ buf' = [buf EXCEPT ![r.bh].count = @ + (-1)] /\ v.pc # "slot" /\ proc[p].pc # "slot"
       /\ queue' = queue /\ moved' = moved /\ disk' = disk
  <2>1. buf[r.bh].count \in Nat
    BY <1>3, BufferOf
  <2>2. buf[r.bh].count - 1 = buf[r.bh].count + (-1)
    BY <2>1
  <2>3. buf' = [buf EXCEPT ![r.bh].count = @ - 1]
    BY <1>1 DEF EndWait
  <2>4. buf' = [buf EXCEPT ![r.bh].count = @ + (-1)]
    BY <2>2, <2>3
  <2> QED
    BY <1>1, <1>3, <1>5, <2>4 DEF EndWait, requests
<1>11. -1 \in Int /\ Takes(proc[p], v, r.bh, -1)
  BY <1>1, <1>8
<1> QED
  BY <1>3, <1>6, <1>7, <1>9, <1>10, <1>11, CountStep, Zenon

\* The local variables that only a few steps change.
Alike(v, r) ==
    /\ v.waiting = r.waiting /\ v.first = r.first /\ v.ahead = r.ahead
    /\ v.block = r.block /\ v.n = r.n

LEMMA IdleReady ==
    Idle \in Places /\ Ready(Idle) /\ Idle.pc = "user" /\ ~Idle.waiting
    /\ Idle.bh = None /\ Idle.first = None /\ Idle.n = None
<1>1. Idle \in Places
  BY DEF Idle, Places, Pcs, Rws, Rets, Thens, Passes, Urgency, Holding
<1>2. Idle.pc = "user" /\ ~Idle.waiting /\ Idle.bh = None /\ Idle.first = None /\ Idle.ret = "user"
      /\ Idle.n = None
  BY DEF Idle
<1>3. Stage(Idle)
  BY <1>2 DEF Stage, Searching
<1>4. InList(Idle, free_list) /\ Found(Idle)
  BY <1>2 DEF InList, Found
<1> QED
  BY <1>1, <1>2, <1>3, <1>4 DEF Ready

\* ll_rw_block for one buffer.
LEMMA ReadOrWrite ==
    ASSUME NEW p \in Procs, NEW r \in Places, NEW b \in Bufs,
           NEW rw \in Rws, NEW ret \in Rets,
           ll_rw_block(p, r, rw, <<b>>, ret)
    PROVE  /\ queue' = queue /\ moved' = moved
           /\ \E v \in Places :
                /\ proc' = [proc EXCEPT ![p] = v] /\ current' = p
                /\ v.pc = "rw" /\ v.bh = b /\ v.rw = rw /\ v.ret = ret
                /\ Alike(v, r) /\ v.then = r.then /\ v.i = r.i
<1>1. Len(<<b>>) = 1 /\ Head(<<b>>) = b /\ Tail(<<b>>) = <<>>
  OBVIOUS
<1>2. (Len(<<b>>) > 1 /\ queue = <<>>) = FALSE
  BY <1>1
<1>3. queue' = queue /\ moved' = moved
  BY <1>2 DEF ll_rw_block
<1>4. PICK v \in Places : v = [r EXCEPT !.pc = "rw", !.rw = rw, !.bh = b, !.todo = <<>>,
                                        !.plugged = FALSE, !.ret = ret]
  <2>1. "rw" \in Pcs
    BY DEF Pcs, Holding
  <2>2. [r EXCEPT !.pc = "rw", !.rw = rw, !.bh = b, !.todo = <<>>,
                  !.plugged = FALSE, !.ret = ret] \in Places
    BY <2>1 DEF Places
  <2> QED
    BY <2>2, Zenon
<1>5. Go(p, v)
  <2>1. Go(p, [r EXCEPT !.pc = "rw", !.rw = rw, !.bh = Head(<<b>>), !.todo = Tail(<<b>>),
                        !.plugged = (Len(<<b>>) > 1 /\ queue = <<>>), !.ret = ret])
    BY DEF ll_rw_block
  <2>2. [r EXCEPT !.pc = "rw", !.rw = rw, !.bh = Head(<<b>>), !.todo = Tail(<<b>>),
                  !.plugged = (Len(<<b>>) > 1 /\ queue = <<>>), !.ret = ret] = v
    BY <1>1, <1>2, <1>4, Zenon
  <2> QED
    BY <2>1, <2>2
<1>6. /\ v.pc = "rw" /\ v.bh = b /\ v.rw = rw /\ v.ret = ret
      /\ Alike(v, r) /\ v.then = r.then /\ v.i = r.i
  BY <1>4 DEF Places, Alike
<1> QED
  BY <1>3, <1>5, <1>6 DEF Go

\* The loop of sync_buffers stops at a buffer of the list that is locked or
\* dirty, or at its end.
LEMMA Skipping ==
    ASSUME IInv, NEW p \in Procs, Turn(p, "sync")
    PROVE  \E s \in Places :
              /\ s = SyncSkipped(p) /\ s.pc = "sync" /\ ~s.waiting /\ Alike(s, proc[p])
              /\ s.then = proc[p].then /\ s.ret = proc[p].ret
              /\ s.wait = proc[p].wait /\ s.pass = proc[p].pass
              /\ s.bh \in ToSet(free_list)
              /\ s.i > 0 => buf[s.bh].lock \/ buf[s.bh].dirt
<1>1. PICK r \in Places : r = proc[p]
  BY ProcessOf
<1>2. r.pc = "sync" /\ ~r.waiting /\ r.i \in Nat /\ r.bh \in ToSet(free_list)
  BY <1>1, ProcessOf DEF Turn, Ready, Stage, InList, Places
<1> DEFINE Bh(j) == Behind(free_list, r.bh, j)
           Stop(b) == IF buf[b].lock THEN ~(~r.wait \/ r.pass = 0) ELSE buf[b].dirt /\ r.pass < 2
           J == {j \in 0 .. r.i - 1 : Stop(Bh(j))}
           S == {r.i} \cup J
           k == Min(S)
           x == r.retry \/ \E j \in 0 .. k - 1 : buf[Bh(j)].lock
<1>3. J \subseteq 0 .. r.i - 1 /\ \A j \in J : buf[Bh(j)].lock \/ buf[Bh(j)].dirt
  OBVIOUS
<1>4. SyncSkipped(p) = [r EXCEPT !.bh = Bh(k), !.i = @ - k, !.retry = x]
  BY <1>1 DEF SyncSkipped
<1> HIDE DEF J, Stop
<1>5. S \subseteq Nat /\ S # {} /\ \A j \in S : j <= r.i
  <2>1. \A j \in 0 .. r.i - 1 : j \in Nat /\ j <= r.i
    BY <1>2
  <2>2. r.i \in Nat /\ r.i <= r.i
    BY <1>2
  <2> QED
    BY <1>3, <2>1, <2>2, Zenon
<1>6. k \in S
  <2> HIDE DEF S
  <2> QED
    BY <1>5, MinIsLeast
<1>7. k \in Nat /\ k <= r.i
  BY <1>5, <1>6
<1>8. k # r.i => buf[Bh(k)].lock \/ buf[Bh(k)].dirt
  BY <1>3, <1>6
<1>9. Bh(k) \in ToSet(free_list) /\ Bh(k) \in Bufs
  BY <1>2, <1>7, BehindIsInList, ListIs
<1>10. x \in BOOLEAN
  BY DEF Places
<1> HIDE DEF k, x, Bh
<1>11. r.i - k \in Nat /\ (r.i - k > 0 => k # r.i)
  BY <1>2, <1>7
<1>12. PICK s \in Places : s = [r EXCEPT !.bh = Bh(k), !.i = @ - k, !.retry = x]
  BY <1>9, <1>10, <1>11 DEF Places
<1>13. /\ s.pc = r.pc /\ s.bh = Bh(k) /\ s.i = r.i - k /\ Alike(s, r) /\ s.then = r.then
       /\ s.ret = r.ret /\ s.wait = r.wait /\ s.pass = r.pass
  BY <1>12 DEF Places, Alike
<1>14. ~s.waiting
  BY <1>2, <1>13 DEF Alike
<1> QED
  BY <1>1, <1>2, <1>4, <1>8, <1>9, <1>11, <1>12, <1>13, <1>14, ZenonT(40)

LEMMA Names ==
    /\ \A x \in {"user", "found", "got", "bread", "readahead", "aheaddone", "brelse", "rw", "slot",
                 "wrote", "shrunk", "sync", "getblk", "chosen", "shrink0", "shrink", "free"} : x \in Pcs
    /\ \A x \in Thens : x \in Pcs
    /\ \A x \in Rets : x \in Pcs
    /\ 0 \in Passes
  BY DEF Pcs, Holding, Thens, Rets, Passes

\* Where a pass of sync_buffers begins.
LEMMA Restarting ==
    ASSUME IInv, NEW r \in Places
    PROVE  \E v \in Places :
              /\ v = SyncStart(r)
              /\ v.pc = "sync" /\ v.bh = Head(free_list) /\ Alike(v, r) /\ v.ret = r.ret
              /\ v.then = r.then
<1>1. Head(free_list) \in Bufs /\ 2 * Len(free_list) \in Nat /\ "sync" \in Pcs
  BY ListIs, Names
<1>2. [r EXCEPT !.pc = "sync", !.bh = Head(free_list), !.i = 2 * Len(free_list),
                !.pass = 0, !.retry = FALSE] \in Places
  <2>1. PICK h \in Bufs, m \in Nat : h = Head(free_list) /\ m = 2 * Len(free_list)
    BY <1>1
  <2>2. [r EXCEPT !.pc = "sync", !.bh = h, !.i = m, !.pass = 0, !.retry = FALSE] \in Places
    BY <1>1, Names DEF Places
  <2> QED
    BY <2>1, <2>2
<1>3. PICK s \in Places : s = SyncStart(r)
  BY <1>2, Zenon DEF SyncStart
<1>4. /\ s.pc = "sync" /\ s.bh = Head(free_list) /\ Alike(s, r) /\ s.ret = r.ret
      /\ s.then = r.then
  BY <1>3 DEF SyncStart, Places, Alike
<1> QED
  BY <1>3, <1>4

\* Where sync_buffers begins, with how to go on.
LEMMA Starting ==
    ASSUME IInv, NEW r \in Places, NEW x \in BOOLEAN, NEW y \in Thens
    PROVE  \E v \in Places :
              /\ v = [SyncStart(r) EXCEPT !.wait = x, !.then = y]
              /\ v.pc = "sync" /\ v.bh = Head(free_list) /\ Alike(v, r) /\ v.ret = r.ret
              /\ v.then = y
<1>1. PICK s \in Places :
              /\ s = SyncStart(r)
              /\ s.pc = "sync" /\ s.bh = Head(free_list) /\ Alike(s, r) /\ s.ret = r.ret
              /\ s.then = r.then
  BY Restarting
<1>5. [s EXCEPT !.wait = x, !.then = y] \in Places
  BY DEF Places
<1>6. PICK v \in Places : v = [s EXCEPT !.wait = x, !.then = y]
  BY <1>5, Zenon
<1>7. /\ v.pc = s.pc /\ v.bh = s.bh /\ Alike(v, s) /\ v.ret = s.ret /\ v.then = y
  BY <1>6 DEF Places, Alike
<1> QED
  BY <1>1, <1>6, <1>7 DEF Alike

\* What a process must be like to begin sync_buffers.
LEMMA StartingReady ==
    ASSUME IInv, NEW r \in Places, Ready(r), NEW v \in Places, ~r.waiting,
           v.pc = "sync" /\ v.bh = Head(free_list) /\ Alike(v, r) /\ v.ret = r.ret,
           r.pc \notin {"rw", "slot"},
           r.pc \notin {"user", "bread", "brelse", "aheaddone"} \/ r.block = r.n,
           v.then = "getblk" => r.block # None /\ r.n # None,
           r.first # None => v.then = "getblk"
    PROVE  Ready(v) /\ (r.pc \notin Holding \/ r.bh = None => Takes(r, v, None, 0))
<1>1. v.bh \in ToSet(free_list) /\ v.bh \in Bufs /\ v.bh # None /\ None \notin Bufs
  BY ListIs
<1>2. Stage(v)
  BY <1>1 DEF Ready, Stage, Searching, Alike
<1>3. InList(v, free_list) /\ Found(v)
  BY <1>1 DEF Ready, InList, Found, Alike
<1>4. ASSUME r.pc \notin Holding \/ r.bh = None PROVE Takes(r, v, None, 0)
  <2>1. "sync" \notin Holding
    BY DEF Holding
  <2> QED
    BY <1>1, <1>4, <2>1 DEF Takes, Refs, Bit, Alike
<1> QED
  BY <1>2, <1>3, <1>4 DEF Ready

LEMMA TakesBoth ==
    ASSUME NEW r, NEW s, NEW v, NEW b, NEW d \in Int, Takes(r, s, None, 0), Takes(s, v, b, d)
    PROVE  Takes(r, v, b, d)
<1> SUFFICES ASSUME NEW c \in Bufs PROVE Refs(v, c) = Refs(r, c) + (IF c = b THEN d ELSE 0)
  BY DEF Takes
<1>1. c # None
  BY NoneAssumption
<1>2. Refs(r, c) \in Int /\ Refs(s, c) = Refs(r, c) + 0
  BY <1>1 DEF Takes, Refs, Bit
<1>3. Refs(v, c) = Refs(s, c) + (IF c = b THEN d ELSE 0)
  BY DEF Takes
<1> QED
  BY <1>2, <1>3

LEMMA TakesNone ==
    ASSUME NEW r PROVE Takes(r, r, None, 0)
<1>1. \A c \in Bufs : c # None /\ Refs(r, c) \in Int
  BY NoneAssumption DEF Refs, Bit
<1> QED
  BY <1>1 DEF Takes

LEMMA fsync_devKeeps ==
    ASSUME IInv, NEW p \in Procs, fsync_dev(p)
    PROVE  IInv'
<1>1. PICK r \in Places : r = proc[p]
  BY ProcessOf
<1>2. Ready(r) /\ r.pc = "user" /\ ~r.waiting /\ r.bh = None /\ current \in {None, p}
  BY <1>1, ProcessOf DEF fsync_dev, Turn
<1>3. r.ret = "user" /\ r.block = r.n /\ r.first = None
  BY <1>2 DEF Ready, Stage, Idle
<1>4. TRUE \in BOOLEAN /\ "user" \in Thens
  BY DEF Thens
<1>5. PICK v \in Places :
              /\ v = [SyncStart(r) EXCEPT !.wait = TRUE, !.then = "user"]
              /\ v.pc = "sync" /\ v.bh = Head(free_list) /\ Alike(v, r) /\ v.ret = r.ret
              /\ v.then = "user"
  BY <1>4, Starting
<1>6. Ready(v) /\ Takes(r, v, None, 0)
  BY <1>2, <1>3, <1>5, StartingReady
<1>7. Moves(p, v)
  BY <1>1, <1>2, <1>5 DEF fsync_dev, sync_buffers, Go, Moves
<1>8. buf' = buf /\ queue' = queue /\ moved' = moved /\ disk' = disk /\ free_list' = free_list
  BY DEF fsync_dev, requests, cache
<1> QED
  BY <1>1, <1>2, <1>5, <1>6, <1>7, <1>8, QuietStep

LEMMA SyncBufferKeeps ==
    ASSUME IInv, NEW p \in Procs, SyncBuffer(p)
    PROVE  IInv'
<1>0. Turn(p, "sync") /\ free_list' = free_list
  BY DEF SyncBuffer, cache
<1>1. PICK r \in Places : r = proc[p]
  BY ProcessOf
<1>2. Ready(r) /\ r.pc = "sync" /\ ~r.waiting /\ current \in {None, p}
  BY <1>0, <1>1, ProcessOf DEF Turn
<1>3. PICK s \in Places :
              /\ s = SyncSkipped(p) /\ s.pc = "sync" /\ ~s.waiting /\ Alike(s, r)
              /\ s.then = r.then /\ s.ret = r.ret
              /\ s.wait = r.wait /\ s.pass = r.pass
              /\ s.bh \in ToSet(free_list)
              /\ s.i > 0 => buf[s.bh].lock \/ buf[s.bh].dirt
  BY <1>0, <1>1, Skipping
<1>4. s.bh \in Bufs /\ s.bh # None /\ "sync" \notin Holding /\ None \notin Bufs
  BY <1>3, ListIs DEF Holding
<1>5. Ready(s) /\ Takes(r, s, None, 0)
  <2>1. Stage(s)
    BY <1>2, <1>3, <1>4 DEF Ready, Stage, Searching, Alike
  <2>2. InList(s, free_list) /\ Found(s)
    BY <1>2, <1>3 DEF Ready, InList, Found, Alike
  <2>3. Takes(r, s, None, 0)
    BY <1>2, <1>3, <1>4 DEF Takes, Refs, Bit, Alike
  <2> QED
    BY <2>1, <2>2, <2>3 DEF Ready
<1>6. PICK v \in Places : v = SyncPass(s) /\ Ready(v) /\ Takes(r, v, None, 0) /\ v.pc # "slot"
  <2>1. CASE s.wait /\ s.retry /\ s.pass < 2
    <3>1. s.wait \in BOOLEAN /\ s.then \in Thens /\ s.pass + 1 \in Passes
      BY <2>1 DEF Places, Passes
    <3>2. PICK z \in Places :
              /\ z = SyncStart(s)
              /\ z.pc = "sync" /\ z.bh = Head(free_list) /\ Alike(z, s) /\ z.ret = s.ret
              /\ z.then = s.then
      BY Restarting
    <3>4. [z EXCEPT !.pass = s.pass + 1] \in Places
      BY <3>1 DEF Places
    <3>5. PICK v \in Places : v = [z EXCEPT !.pass = s.pass + 1]
      BY <3>4, Zenon
    <3>6. v = SyncPass(s)
      BY <2>1, <3>2, <3>5 DEF SyncPass
    <3>7. v.pc = "sync" /\ v.bh = Head(free_list) /\ Alike(v, s) /\ v.ret = s.ret /\ v.then = s.then
      <4>1. v.pc = z.pc /\ v.bh = z.bh /\ Alike(v, z) /\ v.ret = z.ret /\ v.then = z.then
        BY <3>5 DEF Places, Alike
      <4> QED
        BY <3>2, <4>1 DEF Alike
    <3>8. /\ s.then = "getblk" => s.block # None /\ s.n # None
          /\ s.first # None => s.then = "getblk"
      BY <1>3, <1>5 DEF Ready, Stage, Searching
    <3>9. Ready(v) /\ Takes(s, v, None, 0)
      BY <1>3, <1>4, <1>5, <3>7, <3>8, StartingReady
    <3>10. Takes(r, v, None, 0)
      BY <1>5, <3>9, TakesBoth
    <3> QED
      BY <3>6, <3>7, <3>9, <3>10
  <2>2. CASE ~(s.wait /\ s.retry /\ s.pass < 2) /\ s.then = "user"
    <3>1. SyncPass(s) = Idle
      BY <2>2 DEF SyncPass
    <3>2. r.first = None
      BY <1>2, <1>3, <2>2 DEF Ready, Stage
    <3>3. Takes(r, Idle, None, 0)
      BY <1>2, <1>4, <3>2, IdleReady DEF Takes, Refs, Bit
    <3> QED
      BY <3>1, <3>3, IdleReady
  <2>3. CASE ~(s.wait /\ s.retry /\ s.pass < 2) /\ s.then # "user"
    <3>1. s.then \in Pcs /\ s.then \in {"getblk", "shrink0"}
      BY <2>3, Names DEF Places, Thens
    <3>2. PICK x \in Pcs : x = s.then
      BY <3>1
    <3>3. [s EXCEPT !.pc = x, !.bh = None, !.wait = FALSE, !.pass = 0, !.retry = FALSE] \in Places
      BY Names DEF Places
    <3>4. PICK v \in Places :
            v = [s EXCEPT !.pc = x, !.bh = None, !.wait = FALSE, !.pass = 0, !.retry = FALSE]
      BY <3>3, Zenon
    <3>5. v = SyncPass(s)
      BY <2>3, <3>2, <3>4 DEF SyncPass
    <3>6. v.pc = x /\ v.bh = None /\ Alike(v, s) /\ v.ret = s.ret /\ v.then = s.then
      BY <3>4 DEF Places, Alike
    <3>7. Stage(v)
      BY <1>3, <1>5, <3>1, <3>2, <3>6 DEF Ready, Stage, Searching, Alike
    <3>8. InList(v, free_list) /\ Found(v)
      BY <1>5, <3>1, <3>2, <3>6 DEF Ready, InList, Found, Alike
    <3>9. Takes(s, v, None, 0)
      BY <1>3, <1>4, <3>6 DEF Takes, Refs, Bit, Alike
    <3>10. Takes(r, v, None, 0)
      BY <1>5, <3>9, TakesBoth
    <3> QED
      BY <3>1, <3>2, <3>5, <3>6, <3>7, <3>8, <3>10 DEF Ready
  <2> QED
    BY <2>1, <2>2, <2>3
<1>7. CASE /\ Go(p, v)
           /\ UNCHANGED <<buf, requests, disk>>
  <2>1. Moves(p, v)
    BY <1>2, <1>7 DEF Moves, Go
  <2>2. buf' = buf /\ queue' = queue /\ moved' = moved /\ disk' = disk
    BY <1>7 DEF requests
  <2> QED
    BY <1>0, <1>1, <1>2, <1>6, <2>1, <2>2, QuietStep
<1>8. CASE StartWait(p, s)
  BY <1>0, <1>1, <1>2, <1>3, <1>5, <1>8, WaitStep
<1>9. CASE /\ s.i > 0 /\ ~buf[s.bh].lock
           /\ Refer(s.bh, 1)
           /\ ll_rw_block(p, s, "WRITE", <<s.bh>>, "wrote")
           /\ UNCHANGED disk
  <2>1. "WRITE" \in Rws /\ "wrote" \in Rets
    BY DEF Rws, Rets
  <2>2. /\ queue' = queue /\ moved' = moved
        /\ \E u \in Places :
                /\ proc' = [proc EXCEPT ![p] = u] /\ current' = p
                /\ u.pc = "rw" /\ u.bh = s.bh /\ u.rw = "WRITE" /\ u.ret = "wrote"
                /\ Alike(u, s) /\ u.then = s.then /\ u.i = s.i
    BY <1>4, <1>9, <2>1, ReadOrWrite
  <2>3. PICK u \in Places :
                /\ proc' = [proc EXCEPT ![p] = u] /\ current' = p
                /\ u.pc = "rw" /\ u.bh = s.bh /\ u.rw = "WRITE" /\ u.ret = "wrote"
                /\ Alike(u, s) /\ u.then = s.then /\ u.i = s.i
    BY <2>2
  <2>4. Stage(u)
    BY <1>3, <1>4, <1>5, <1>9, <2>3 DEF Ready, Stage, Searching, Alike
  <2>5. InList(u, free_list) /\ Found(u)
    BY <1>3, <1>5, <2>3 DEF Ready, InList, Found, Alike
  <2>6. Takes(s, u, s.bh, 1)
    <3>1. "rw" \in Holding
      BY DEF Holding
    <3> QED
      BY <1>3, <1>4, <2>3, <3>1 DEF Takes, Refs, Bit, Alike
  <2>7. Takes(r, u, s.bh, 1)
    BY <1>5, <2>6, TakesBoth
  <2>8. buf[s.bh].blk # None
    BY <1>3, <1>4, <1>9, InUse
  <2>9. Moves(p, u)
    BY <1>2, <2>3 DEF Moves
  <2>10. disk' = disk /\ buf' = [buf EXCEPT ![s.bh].count = @ + 1]
    BY <1>9 DEF Refer
  <2>11. /\ Ready(u) /\ proc[p].pc # "slot" /\ u.pc # "slot" /\ Takes(proc[p], u, s.bh, 1)
         /\ s.bh \in ToSet(free_list) /\ 1 \in Int /\ free_list' = free_list
    BY <1>0, <1>1, <1>2, <1>3, <2>3, <2>4, <2>5, <2>7 DEF Ready
  <2> QED
    BY <2>2, <2>8, <2>9, <2>10, <2>11, CountStep, Zenon
<1> QED
  BY <1>3, <1>6, <1>7, <1>8, <1>9 DEF SyncBuffer

LEMMA SyncWroteKeeps ==
    ASSUME IInv, NEW p \in Procs, SyncWrote(p)
    PROVE  IInv'
<1>1. PICK r \in Places : r = proc[p]
  BY ProcessOf
<1>2. Ready(r) /\ r.pc = "wrote" /\ ~r.waiting /\ current \in {None, p} /\ Holds(p, r.bh)
  BY <1>1, ProcessOf DEF SyncWrote, Turn, Holds
<1>3. /\ r.bh # None /\ r.bh \in ToSet(free_list) /\ r.bh \in Bufs /\ r.i > 0 /\ r.i \in Nat
      /\ None \notin Bufs
  BY <1>2, ListIs DEF Ready, Stage, InList, Places
<1>4. PICK h \in Bufs, m \in Nat : h = NextFree(free_list, r.bh) /\ m = r.i - 1 /\ h \in ToSet(free_list)
  <2>1. NextFree(free_list, r.bh) \in ToSet(free_list)
    BY <1>3, ListIs, BehindIsInList DEF NextFree
  <2>2. r.i - 1 \in Nat
    BY <1>3
  <2> QED
    BY <2>1, <2>2, ListIs
<1>5. "sync" \in Pcs /\ "sync" \notin Holding /\ "wrote" \in Holding
  BY DEF Pcs, Holding
<1>6. [r EXCEPT !.pc = "sync", !.bh = h, !.i = m, !.retry = TRUE] \in Places
  BY <1>5 DEF Places
<1>7. PICK v \in Places : v = [r EXCEPT !.pc = "sync", !.bh = h, !.i = m, !.retry = TRUE]
  BY <1>6, Zenon
<1>8. v.pc = "sync" /\ v.bh = h /\ Alike(v, r) /\ v.ret = r.ret /\ v.then = r.then
  BY <1>7 DEF Places, Alike
<1>9. Stage(v)
  BY <1>2, <1>3, <1>8 DEF Ready, Stage, Searching, Alike
<1>10. InList(v, free_list) /\ Found(v)
  BY <1>2, <1>4, <1>8 DEF Ready, InList, Found, Alike
<1>11. Takes(r, v, r.bh, -1)
  BY <1>2, <1>5, <1>8 DEF Takes, Refs, Bit, Alike
<1>12. Moves(p, v)
  <2>1. v = [proc[p] EXCEPT !.pc = "sync", !.bh = NextFree(free_list, @), !.i = @ - 1, !.retry = TRUE]
    BY <1>1, <1>4, <1>7
  <2> QED
    BY <1>2, <1>8, <2>1 DEF SyncWrote, Go, Moves
<1>13. buf[r.bh].blk # None
  <2>1. buf[r.bh].count > 0
    BY <1>2, <1>3, RefsPositive DEF IInv
  <2> QED
    BY <1>3, <2>1, InUse
<1>14. /\ buf' = [buf EXCEPT ![r.bh].count = @ + (-1)] /\ v.pc # "slot" /\ proc[p].pc # "slot"
       /\ queue' = queue /\ moved' = moved /\ disk' = disk /\ free_list' = free_list
       /\ -1 \in Int /\ Takes(proc[p], v, r.bh, -1) /\ Ready(v)
  BY <1>1, <1>2, <1>8, <1>9, <1>10, <1>11 DEF SyncWrote, Refer, requests, cache, Ready
<1> QED
  BY <1>3, <1>12, <1>13, <1>14, CountStep, Zenon

-----------------------------------------------------------------------------
(* getblk.                                                                 *)

\* The list changes and no buffer leaves it.
LEMMA ListStep ==
    ASSUME IInv, NEW p \in Procs, NEW v \in Places, Moves(p, v), Stage(v), Found(v),
           NEW l \in Seq(Bufs), l # <<>>, ToSet(free_list) \subseteq ToSet(l), InList(v, l),
           free_list' = l, Takes(proc[p], v, None, 0), proc[p].pc # "slot", v.pc # "slot",
           buf' = buf, queue' = queue, moved' = moved, disk' = disk
    PROVE  IInv'
<1> DEFINE b == Head(free_list)
<1>1. b \in ToSet(free_list) /\ b \in Bufs /\ None \notin Bufs
  BY ListIs
<1> HIDE DEF b
<1>2. buf[b] \in Buffers /\ buf \in [Bufs -> Buffers] /\ (buf[b].blk = None => buf[b] = Unused)
  BY <1>1, BufferOf DEF IInv, Types
<1>3. PICK w \in Buffers : w = buf[b]
  BY <1>2
<1>4. buf' = [buf EXCEPT ![b] = w]
  BY <1>2, <1>3
<1>5. Turns(b, w, l)
  BY <1>1, <1>2, <1>3, <1>4 DEF Turns
<1>6. Goes(p, v)
  <2>1. queue \in Seq(Requests) /\ moved \in BOOLEAN
    BY DEF IInv, Types
  <2>2. Found(v)'
    BY DEF Found
  <2> QED
    BY <2>1, <2>2 DEF Goes, Moves, InList
<1>7. \A c \in Bufs : buf'[c].count = buf[c].count + Refs(v, c) - Refs(proc[p], c)
  <2> SUFFICES ASSUME NEW c \in Bufs
               PROVE  buf'[c].count = buf[c].count + Refs(v, c) - Refs(proc[p], c)
    OBVIOUS
  <2>1. Refs(v, c) \in Int /\ Refs(proc[p], c) \in Int /\ buf[c].count \in Int
    <3>1. buf[c].count \in Nat
      BY BufferOf
    <3> QED
      BY <3>1 DEF Refs, Bit
  <2>2. Refs(v, c) = Refs(proc[p], c) + 0
    BY <1>1 DEF Takes
  <2> QED
    BY <2>1, <2>2
<1>8. Frame
  BY DEF IInv, Frame
<1>9. Frame'
  BY <1>1, <1>5, <1>6, <1>7, <1>8, ProcStep
<1>10. Owned'
  <2>1. SameLocks
    BY DEF SameLocks
  <2> QED
    BY <2>1, OwnedKept DEF IInv, Moves
<1> QED
  BY <1>9, <1>10 DEF IInv, Frame

LEMMA GetHashTableKeeps ==
    ASSUME IInv, NEW p \in Procs, GetHashTable(p)
    PROVE  IInv'
<1>1. PICK r \in Places : r = proc[p]
  BY ProcessOf
<1>2. Ready(r) /\ r.pc = "getblk" /\ ~r.waiting /\ current \in {None, p}
  BY <1>1, ProcessOf DEF GetHashTable, Turn
<1>3. PICK b \in find_buffer(r.block) :
        Refer(b, 1) /\ Go(p, [r EXCEPT !.pc = "found", !.bh = b])
  BY <1>1, Zenon DEF GetHashTable
<1>4. b \in Bufs /\ buf[b].blk # None /\ b \in ToSet(free_list) /\ b # None /\ None \notin Bufs
  <2>1. b \in Bufs /\ buf[b].blk = r.block /\ r.block # None
    BY <1>2, <1>3 DEF find_buffer, Ready, Stage, Searching
  <2>2. b \in ToSet(free_list)
    BY <2>1, BufferOf
  <2> QED
    BY <2>1, <2>2, ListIs
<1>5. "found" \in Pcs /\ "found" \in Holding /\ "getblk" \notin Holding
  BY DEF Pcs, Holding
<1>6. [r EXCEPT !.pc = "found", !.bh = b] \in Places
  BY <1>4, <1>5 DEF Places
<1>7. PICK v \in Places : v = [r EXCEPT !.pc = "found", !.bh = b]
  BY <1>6, Zenon
<1>8. v.pc = "found" /\ v.bh = b /\ Alike(v, r) /\ v.ret = r.ret /\ v.then = r.then
  BY <1>7 DEF Places, Alike
<1>9. Stage(v)
  BY <1>2, <1>4, <1>8 DEF Ready, Stage, Searching, Alike
<1>10. InList(v, free_list) /\ Found(v)
  BY <1>2, <1>4, <1>8 DEF Ready, InList, Found, Alike
<1>11. Takes(r, v, b, 1)
  BY <1>2, <1>5, <1>8 DEF Takes, Refs, Bit, Alike
<1>12. Moves(p, v)
  BY <1>2, <1>3, <1>7, <1>8 DEF Go, Moves
<1>13. /\ buf' = [buf EXCEPT ![b].count = @ + 1] /\ v.pc # "slot" /\ proc[p].pc # "slot"
       /\ queue' = queue /\ moved' = moved /\ disk' = disk /\ free_list' = free_list
       /\ 1 \in Int /\ Takes(proc[p], v, b, 1) /\ Ready(v)
  <2>1. queue' = queue /\ moved' = moved /\ disk' = disk /\ free_list' = free_list
    BY DEF GetHashTable, requests, cache
  <2>2. buf' = [buf EXCEPT ![b].count = @ + 1]
    BY <1>3 DEF Refer
  <2> QED
    BY <1>1, <1>2, <1>8, <1>9, <1>10, <1>11, <2>1, <2>2 DEF Ready
<1> QED
  BY <1>4, <1>12, <1>13, CountStep, Zenon

LEMMA GetblkFoundKeeps ==
    ASSUME IInv, NEW p \in Procs, GetblkFound(p)
    PROVE  IInv'
<1>1. PICK r \in Places : r = proc[p]
  BY ProcessOf
<1>2. Ready(r) /\ r.pc = "found" /\ ~r.waiting /\ current \in {None, p}
  BY <1>1, ProcessOf DEF GetblkFound, Turn
<1>3. r.bh # None /\ r.bh \in ToSet(free_list) /\ r.bh \in Bufs /\ None \notin Bufs
  BY <1>2, ListIs DEF Ready, Stage, InList
<1>4. CASE StartWait(p, r) /\ UNCHANGED free_list
  <2>1. Takes(r, r, None, 0)
    BY <1>3, TakesNone
  <2> QED
    BY <1>1, <1>2, <1>4, <2>1, WaitStep
<1>5. CASE /\ buf[r.bh].blk = r.block
           /\ free_list' = IF buf[r.bh].uptodate /\ ~buf[r.bh].dirt THEN Moved(r.bh) ELSE free_list
           /\ Go(p, At(p, "got"))
           /\ UNCHANGED <<buf, requests, disk>>
  <2>1. PICK l \in Seq(Bufs) : l # <<>> /\ free_list' = l /\ \A c : c \in ToSet(l) <=> c \in ToSet(free_list)
    BY <1>3, <1>5, ListIs, MovedInList
  <2>2. "got" \in Pcs /\ "got" \in Holding /\ "found" \in Holding
    BY DEF Pcs, Holding
  <2>3. [r EXCEPT !.pc = "got"] \in Places
    BY <2>2 DEF Places
  <2>4. PICK v \in Places : v = [r EXCEPT !.pc = "got"]
    BY <2>3, Zenon
  <2>5. v.pc = "got" /\ v.bh = r.bh /\ Alike(v, r) /\ v.ret = r.ret /\ v.then = r.then
    BY <2>4 DEF Places, Alike
  <2>6. Stage(v)
    BY <1>2, <1>3, <2>5 DEF Ready, Stage, Searching, Alike
  <2>7. InList(v, l)
    BY <1>2, <1>3, <2>1, <2>5 DEF Ready, InList, Alike
  <2>8. Found(v)
    BY <1>2, <1>5, <2>5 DEF Ready, Found, Alike
  <2>9. Takes(r, v, None, 0)
    BY <1>2, <2>2, <2>5, <1>3 DEF Takes, Refs, Bit, Alike
  <2>10. Moves(p, v)
    BY <1>1, <1>2, <1>5, <2>4, <2>5 DEF Go, At, Moves
  <2>11. buf' = buf /\ queue' = queue /\ moved' = moved /\ disk' = disk
    BY <1>5 DEF requests
  <2>12. /\ ToSet(free_list) \subseteq ToSet(l) /\ proc[p].pc # "slot" /\ v.pc # "slot"
         /\ Takes(proc[p], v, None, 0)
    BY <1>1, <1>2, <2>1, <2>5, <2>9
  <2> QED
    BY <2>1, <2>6, <2>7, <2>8, <2>10, <2>11, <2>12, ListStep
<1> QED
  BY <1>1, <1>4, <1>5 DEF GetblkFound

LEMMA BestIsInList ==
    ASSUME NEW l \in Seq(Bufs), \E b \in ToSet(l) : buf[b].count = 0
    PROVE  Best(l) \in ToSet(l)
<1> DEFINE U == {k \in 1 .. Len(l) : buf[l[k]].count = 0}
           B == {BADNESS(l[k]) : k \in U}
           M == {k \in U : BADNESS(l[k]) = Min(B)}
<1>0. Len(l) \in Nat
  OBVIOUS
<1>1. U # {} /\ U \subseteq 1 .. Len(l)
  BY ListOf
<1>2. \A b : BADNESS(b) \in Nat
  BY DEF BADNESS
<1>3. B \subseteq Nat /\ B # {}
  BY <1>1, <1>2
<1>4. Best(l) = l[Min(M)]
  BY DEF Best
<1> HIDE DEF U
<1>5. Min(B) \in B
  <2> HIDE DEF B
  <2> QED
    BY <1>3, MinIsLeast
<1>6. M \subseteq 1 .. Len(l) /\ M # {}
  BY <1>1, <1>5
<1> HIDE DEF M
<1>7. Min(M) \in M
  <2>1. M \subseteq Nat
    BY <1>0, <1>6
  <2> QED
    BY <1>6, <2>1, MinIsLeast
<1> QED
  BY <1>4, <1>6, <1>7, ListOf

LEMMA GetblkChooseKeeps ==
    ASSUME IInv, NEW p \in Procs, GetblkChoose(p)
    PROVE  IInv'
<1>1. PICK r \in Places : r = proc[p]
  BY ProcessOf
<1>2. Ready(r) /\ r.pc = "getblk" /\ ~r.waiting /\ current \in {None, p}
  BY <1>1, ProcessOf DEF GetblkChoose, Turn
<1>3. PICK l \in {free_list} \cup Grown :
        /\ free_list' = l
        /\ IF \E b \in ToSet(l) : buf[b].count = 0
           THEN /\ Go(p, [r EXCEPT !.pc = "chosen", !.bh = Best(l)])
                /\ UNCHANGED buffer_wait
           ELSE /\ buffer_wait' = buffer_wait \cup {p}
                /\ current' = None
                /\ UNCHANGED proc
  BY <1>1, Zenon DEF GetblkChoose
<1>4. /\ l \in Seq(Bufs) /\ l # <<>> /\ ToSet(free_list) \subseteq ToSet(l) /\ ToSet(l) \subseteq Bufs
      /\ None \notin Bufs
  <2>1. CASE l = free_list
    BY <2>1, ListIs
  <2>2. CASE l \in Grown
    <3>1. PICK b \in Bufs : l = <<b>> \o free_list
      BY <2>2 DEF Grown
    <3> QED
      BY <3>1, ListIs, AddedToList, ListOf
  <2> QED
    BY <2>1, <2>2
<1>5. buf' = buf /\ queue' = queue /\ moved' = moved /\ disk' = disk
  BY DEF GetblkChoose, requests
<1>6. CASE \E b \in ToSet(l) : buf[b].count = 0
  <2>1. PICK b \in Bufs : b = Best(l) /\ b \in ToSet(l)
    BY <1>4, <1>6, BestIsInList
  <2>2. "chosen" \in Pcs /\ "chosen" \notin Holding /\ "getblk" \notin Holding /\ b # None
    BY <1>4 DEF Pcs, Holding
  <2>3. [r EXCEPT !.pc = "chosen", !.bh = b] \in Places
    BY <2>2 DEF Places
  <2>4. PICK v \in Places : v = [r EXCEPT !.pc = "chosen", !.bh = b]
    BY <2>3, Zenon
  <2>5. v.pc = "chosen" /\ v.bh = b /\ Alike(v, r) /\ v.ret = r.ret /\ v.then = r.then
    BY <2>4 DEF Places, Alike
  <2>6. Stage(v)
    BY <1>2, <2>2, <2>5 DEF Ready, Stage, Searching, Alike
  <2>7. InList(v, l) /\ Found(v)
    BY <1>2, <1>4, <2>1, <2>5 DEF Ready, InList, Found, Alike
  <2>8. Takes(r, v, None, 0)
    BY <1>2, <1>4, <2>2, <2>5 DEF Takes, Refs, Bit, Alike
  <2>9. Moves(p, v)
    <3>1. Go(p, v)
      BY <1>3, <1>6, <2>1, <2>4
    <3> QED
      BY <1>2, <2>5, <3>1 DEF Go, Moves
  <2>10. proc[p].pc # "slot" /\ v.pc # "slot" /\ Takes(proc[p], v, None, 0) /\ free_list' = l
    BY <1>1, <1>2, <1>3, <2>5, <2>8
  <2> QED
    BY <1>4, <1>5, <2>6, <2>7, <2>9, <2>10, ListStep
<1>7. CASE ~ \E b \in ToSet(l) : buf[b].count = 0
  <2>1. proc' = proc /\ current' = None /\ free_list' = l
    BY <1>3, <1>7
  <2>2. Moves(p, r)
    BY <1>1, <1>2, <2>1 DEF Moves, IInv, Types
  <2>3. Stage(r) /\ Found(r) /\ InList(r, l)
    BY <1>2, <1>4 DEF Ready, InList
  <2>4. proc[p].pc # "slot" /\ r.pc # "slot" /\ Takes(proc[p], r, None, 0)
    BY <1>1, <1>2, TakesNone
  <2> QED
    BY <1>4, <1>5, <2>1, <2>2, <2>3, <2>4, ListStep
<1> QED
  BY <1>6, <1>7

\* A process stays at its buffer and only goes to another place.
LEMMA AtPlace ==
    ASSUME NEW r \in Places, NEW x \in Pcs
    PROVE  \E v \in Places :
              /\ v = [r EXCEPT !.pc = x]
              /\ v.pc = x /\ v.bh = r.bh /\ Alike(v, r) /\ v.ret = r.ret /\ v.then = r.then
              /\ v.i = r.i /\ v.rw = r.rw
<1>1. [r EXCEPT !.pc = x] \in Places
  BY DEF Places
<1>2. PICK v \in Places : v = [r EXCEPT !.pc = x]
  BY <1>1, Zenon
<1>3. /\ v.pc = x /\ v.bh = r.bh /\ Alike(v, r) /\ v.ret = r.ret /\ v.then = r.then
      /\ v.i = r.i /\ v.rw = r.rw
  BY <1>2 DEF Places, Alike
<1> QED
  BY <1>2, <1>3

LEMMA GetblkTakeKeeps ==
    ASSUME IInv, NEW p \in Procs, GetblkTake(p)
    PROVE  IInv'
<1>1. PICK r \in Places : r = proc[p]
  BY ProcessOf
<1>2. Ready(r) /\ r.pc = "chosen" /\ ~r.waiting /\ current \in {None, p}
  BY <1>1, ProcessOf DEF GetblkTake, Turn
<1>3. /\ r.bh # None /\ r.bh \in ToSet(free_list) /\ r.bh \in Bufs /\ None \notin Bufs
      /\ r.block # None /\ r.n # None
  BY <1>2, ListIs DEF Ready, Stage, InList, Searching
<1>4. "chosen" \notin Holding /\ "getblk" \notin Holding /\ "got" \in Holding
  BY DEF Holding
<1>5. CASE StartWait(p, r) /\ UNCHANGED free_list
  <2>1. Takes(r, r, None, 0)
    BY TakesNone
  <2> QED
    BY <1>1, <1>2, <1>5, <2>1, WaitStep
<1>6. CASE Go(p, At(p, "getblk")) /\ UNCHANGED <<buf, free_list, requests, disk>>
  <2>1. PICK v \in Places :
              /\ v = [r EXCEPT !.pc = "getblk"]
              /\ v.pc = "getblk" /\ v.bh = r.bh /\ Alike(v, r) /\ v.ret = r.ret /\ v.then = r.then
              /\ v.i = r.i /\ v.rw = r.rw
    BY AtPlace, Names
  <2>2. Stage(v)
    BY <1>2, <2>1 DEF Ready, Stage, Searching, Alike
  <2>3. InList(v, free_list) /\ Found(v)
    BY <1>2, <2>1 DEF Ready, InList, Found, Alike
  <2>4. Takes(r, v, None, 0)
    BY <1>2, <1>3, <1>4, <2>1 DEF Takes, Refs, Bit, Alike
  <2>5. Moves(p, v)
    BY <1>1, <1>2, <1>6, <2>1 DEF Go, At, Moves
  <2>6. buf' = buf /\ queue' = queue /\ moved' = moved /\ disk' = disk /\ free_list' = free_list
    BY <1>6 DEF requests
  <2>7. proc[p].pc # "slot" /\ v.pc # "slot" /\ Takes(proc[p], v, None, 0) /\ Ready(v)
    BY <1>1, <1>2, <2>1, <2>2, <2>3, <2>4 DEF Ready
  <2> QED
    BY <2>5, <2>6, <2>7, QuietStep
<1>7. CASE sync_buffers(p, r, FALSE, "getblk") /\ UNCHANGED <<buf, free_list, requests, disk>>
  <2>1. FALSE \in BOOLEAN /\ "getblk" \in Thens
    BY DEF Thens
  <2>2. PICK v \in Places :
              /\ v = [SyncStart(r) EXCEPT !.wait = FALSE, !.then = "getblk"]
              /\ v.pc = "sync" /\ v.bh = Head(free_list) /\ Alike(v, r) /\ v.ret = r.ret
              /\ v.then = "getblk"
    BY <2>1, Starting
  <2>3. Ready(v) /\ Takes(r, v, None, 0)
    BY <1>2, <1>3, <1>4, <2>2, StartingReady
  <2>4. Moves(p, v)
    BY <1>2, <1>7, <2>2 DEF sync_buffers, Go, Moves
  <2>5. buf' = buf /\ queue' = queue /\ moved' = moved /\ disk' = disk /\ free_list' = free_list
    BY <1>7 DEF requests
  <2>6. proc[p].pc # "slot" /\ v.pc # "slot" /\ Takes(proc[p], v, None, 0)
    BY <1>1, <1>2, <2>2, <2>3
  <2> QED
    BY <2>3, <2>4, <2>5, <2>6, QuietStep
<1>8. CASE /\ ~buf[r.bh].lock /\ buf[r.bh].count = 0 /\ StillMissing(r.block)
           /\ buf' = [buf EXCEPT ![r.bh] = [Unused EXCEPT !.blk = r.block, !.count = 1]]
           /\ free_list' = Moved(r.bh)
           /\ Go(p, At(p, "got"))
           /\ UNCHANGED <<requests, disk>>
  <2>1. PICK v \in Places :
              /\ v = [r EXCEPT !.pc = "got"]
              /\ v.pc = "got" /\ v.bh = r.bh /\ Alike(v, r) /\ v.ret = r.ret /\ v.then = r.then
              /\ v.i = r.i /\ v.rw = r.rw
    BY AtPlace, Names
  <2>2. PICK w : w = [Unused EXCEPT !.blk = r.block, !.count = 1]
    OBVIOUS
  <2>3. w \in Buffers /\ w.blk = r.block /\ w.count = 1 /\ w.lock = FALSE
    <3>1. r.block \in Blocks
      BY <1>3 DEF Places
    <3>2. w = [blk |-> r.block, count |-> 1, dirt |-> FALSE, lock |-> FALSE,
               uptodate |-> FALSE, data |-> None]
      BY <2>2 DEF Unused
    <3> QED
      BY <3>1, <3>2 DEF Buffers
  <2>4. PICK l \in Seq(Bufs) : l # <<>> /\ free_list' = l /\ \A c : c \in ToSet(l) <=> c \in ToSet(free_list)
    BY <1>3, <1>8, ListIs, MovedInList
  <2>5. buf \in [Bufs -> Buffers] /\ queue \in Seq(Requests) /\ moved \in BOOLEAN
    BY DEF IInv, Types
  <2>6. buf' = [buf EXCEPT ![r.bh] = w] /\ buf'[r.bh] = w /\ \A c \in Bufs : c # r.bh => buf'[c] = buf[c]
    BY <1>3, <1>8, <2>2, <2>5
  <2>7. Turns(r.bh, w, l)
    BY <1>3, <1>8, <2>3, <2>4, <2>6 DEF Turns, StillMissing
  <2>8. Stage(v)
    BY <1>2, <1>3, <2>1 DEF Ready, Stage, Searching, Alike
  <2>9. InList(v, l)
    BY <1>2, <1>3, <2>1, <2>4 DEF Ready, InList, Alike
  <2>10. Found(v)'
    <3>1. ASSUME r.first # None PROVE buf'[r.first].blk = r.n
      <4>1. r.first \in Bufs /\ Keeps(p, r.first)
        BY <1>1, <3>1 DEF Places, Keeps
      <4>2. r.first # r.bh
        BY <1>3, <1>8, <4>1, RefsPositive DEF IInv
      <4> QED
        BY <1>2, <2>6, <3>1, <4>1, <4>2 DEF Ready, Found
    <3> QED
      BY <2>1, <2>3, <2>6, <3>1 DEF Found, Alike
  <2>11. Goes(p, v)
    <3>1. Moves(p, v)
      BY <1>1, <1>2, <1>8, <2>1 DEF Go, At, Moves
    <3>2. queue' \in Seq(Requests) /\ moved' \in BOOLEAN /\ disk' = disk
      BY <1>8, <2>5 DEF requests
    <3> QED
      BY <2>4, <2>8, <2>9, <2>10, <3>1, <3>2 DEF Goes, Moves, InList
  <2>12. \A c \in Bufs : buf'[c].count = buf[c].count + Refs(v, c) - Refs(proc[p], c)
    <3> SUFFICES ASSUME NEW c \in Bufs
                 PROVE  buf'[c].count = buf[c].count + Refs(v, c) - Refs(proc[p], c)
      OBVIOUS
    <3>1. Refs(v, c) \in Int /\ Refs(r, c) \in Int /\ buf[c].count \in Int
      <4>1. buf[c].count \in Nat
        BY BufferOf
      <4> QED
        BY <4>1 DEF Refs, Bit
    <3>2. Refs(v, c) = Refs(r, c) + (IF c = r.bh THEN 1 ELSE 0)
      BY <1>2, <1>4, <2>1 DEF Refs, Bit, Alike
    <3>3. buf'[c].count = buf[c].count + (IF c = r.bh THEN 1 ELSE 0)
      BY <1>8, <2>3, <2>6, <3>1
    <3> QED
      BY <1>1, <3>1, <3>2, <3>3
  <2>13. Frame
    BY DEF IInv, Frame
  <2>14. Frame'
    BY <1>3, <2>4, <2>7, <2>11, <2>12, <2>13, ProcStep
  <2>15. Owned'
    <3>1. SameLocks
      BY <1>3, <1>8, <2>3, <2>5, <2>6 DEF SameLocks, Buffers
    <3>2. queue' = queue /\ proc' = [proc EXCEPT ![p] = v] /\ proc[p].pc # "slot" /\ v.pc # "slot"
      BY <1>1, <1>2, <1>8, <2>1, <2>11 DEF requests, Goes
    <3> QED
      BY <3>1, <3>2, OwnedKept DEF IInv
  <2> QED
    BY <2>14, <2>15 DEF IInv, Frame
<1> QED
  BY <1>1, <1>5, <1>6, <1>7, <1>8 DEF GetblkTake

-----------------------------------------------------------------------------
(* bread, breada, brelse.                                                  *)

LEMMA HeldHasBlock ==
    ASSUME IInv, NEW p \in Procs, proc[p].bh \in Bufs, proc[p].pc \in Holding
    PROVE  buf[proc[p].bh].blk # None
<1>1. Holds(p, proc[p].bh)
  BY DEF Holds, Holding
<1>2. buf[proc[p].bh].count > 0
  BY <1>1, RefsPositive DEF IInv
<1> QED
  BY <1>2, InUse

LEMMA breadKeeps ==
    ASSUME IInv, NEW p \in Procs, NEW n \in Blocks, NEW a \in Blocks \cup {None}, Turn(p, "user"),
           proc[p].bh = None,
           Go(p, [proc[p] EXCEPT !.pc = "getblk", !.n = n, !.block = n, !.ahead = a]),
           UNCHANGED <<buf, requests, disk, cache>>
    PROVE  IInv'
<1>1. PICK r \in Places : r = proc[p]
  BY ProcessOf
<1>2. Ready(r) /\ r.pc = "user" /\ ~r.waiting /\ r.bh = None /\ current \in {None, p}
  BY <1>1, ProcessOf DEF Turn
<1>3. r.first = None /\ r.ret = "user"
  BY <1>2 DEF Ready, Stage, Idle
<1>4. "getblk" \in Pcs /\ "getblk" \notin Holding /\ None \notin Bufs /\ n # None
  BY NoneAssumption DEF Pcs, Holding
<1>5. [r EXCEPT !.pc = "getblk", !.n = n, !.block = n, !.ahead = a] \in Places
  BY <1>4 DEF Places
<1>6. PICK v \in Places : v = [r EXCEPT !.pc = "getblk", !.n = n, !.block = n, !.ahead = a]
  BY <1>5, Zenon
<1>7. /\ v.pc = "getblk" /\ v.n = n /\ v.block = n /\ v.ahead = a /\ v.bh = r.bh
      /\ v.first = r.first /\ v.waiting = r.waiting /\ v.ret = r.ret
  BY <1>6 DEF Places
<1>8. Stage(v)
  BY <1>2, <1>3, <1>4, <1>7 DEF Stage, Searching
<1>9. InList(v, free_list) /\ Found(v)
  BY <1>3, <1>7 DEF InList, Found
<1>10. Takes(r, v, None, 0)
  BY <1>2, <1>3, <1>4, <1>7 DEF Takes, Refs, Bit
<1>11. Moves(p, v)
  BY <1>1, <1>2, <1>6, <1>7 DEF Moves, Go
<1>12. buf' = buf /\ queue' = queue /\ moved' = moved /\ disk' = disk /\ free_list' = free_list
  BY DEF requests, cache
<1>13. proc[p].pc # "slot" /\ v.pc # "slot" /\ Takes(proc[p], v, None, 0) /\ Ready(v)
  BY <1>1, <1>2, <1>7, <1>8, <1>9, <1>10 DEF Ready
<1> QED
  BY <1>11, <1>12, <1>13, QuietStep

LEMMA GotKeeps ==
    ASSUME IInv, NEW p \in Procs, Got(p)
    PROVE  IInv'
<1>1. PICK r \in Places : r = proc[p]
  BY ProcessOf
<1>2. Ready(r) /\ r.pc = "got" /\ ~r.waiting /\ current \in {None, p}
  BY <1>1, ProcessOf DEF Got, Turn
<1>3. r.bh # None /\ r.bh \in ToSet(free_list) /\ r.bh \in Bufs /\ None \notin Bufs
  BY <1>2, ListIs DEF Ready, Stage, InList
<1>4. PICK next : next = IF r.ahead # None THEN "readahead"
                         ELSE IF r.first # None THEN "aheaddone" ELSE "bread"
  OBVIOUS
<1>5. /\ next \in {"readahead", "aheaddone", "bread"} /\ next \in Rets /\ next \in Pcs
      /\ next = "readahead" => r.ahead # None /\ r.first = None
      /\ next = "aheaddone" => r.first # None
      /\ next = "bread" => r.first = None
  <2>1. r.first # None => r.ahead = None
    BY <1>2 DEF Ready, Stage
  <2>2. next \in {"readahead", "aheaddone", "bread"}
    BY <1>4
  <2>3. next \in Rets /\ next \in Pcs
    BY <2>2 DEF Rets, Pcs, Holding
  <2> QED
    BY <1>4, <2>1, <2>2, <2>3
<1>6. buf' = buf /\ moved' = moved /\ disk' = disk /\ free_list' = free_list
  BY DEF Got, requests, cache, ll_rw_block
<1>7. "got" \in Holding /\ "rw" \in Holding /\ next \in Holding
  BY <1>5 DEF Holding
<1>8. CASE Go(p, At(p, next)) /\ UNCHANGED requests
  <2>1. PICK v \in Places :
              /\ v = [r EXCEPT !.pc = next]
              /\ v.pc = next /\ v.bh = r.bh /\ Alike(v, r) /\ v.ret = r.ret /\ v.then = r.then
              /\ v.i = r.i /\ v.rw = r.rw
    BY <1>5, AtPlace
  <2>2. Stage(v)
    BY <1>2, <1>3, <1>5, <2>1 DEF Ready, Stage, Searching, Alike
  <2>3. InList(v, free_list) /\ Found(v)
    BY <1>2, <1>5, <2>1 DEF Ready, Stage, InList, Found, Alike
  <2>4. Takes(r, v, None, 0)
    BY <1>2, <1>3, <1>7, <2>1 DEF Takes, Refs, Bit, Alike
  <2>5. Moves(p, v)
    BY <1>1, <1>2, <1>5, <1>8, <2>1 DEF Go, At, Moves
  <2>6. proc[p].pc # "slot" /\ v.pc # "slot" /\ Takes(proc[p], v, None, 0) /\ Ready(v) /\ queue' = queue
    BY <1>1, <1>2, <1>5, <1>8, <2>1, <2>2, <2>3, <2>4 DEF Ready, requests
  <2> QED
    BY <1>6, <2>5, <2>6, QuietStep
<1>9. CASE ll_rw_block(p, r, IF r.first # None THEN "READA" ELSE "READ", <<r.bh>>, next)
  <2>1. PICK x \in Rws : x = IF r.first # None THEN "READA" ELSE "READ"
    BY DEF Rws
  <2>2. ll_rw_block(p, r, x, <<r.bh>>, next)
    BY <1>9, <2>1
  <2>3. /\ queue' = queue
        /\ \E v \in Places :
                /\ proc' = [proc EXCEPT ![p] = v] /\ current' = p
                /\ v.pc = "rw" /\ v.bh = r.bh /\ v.rw = x /\ v.ret = next
                /\ Alike(v, r) /\ v.then = r.then /\ v.i = r.i
    BY <1>3, <1>5, <2>2, ReadOrWrite
  <2>4. PICK v \in Places :
                /\ proc' = [proc EXCEPT ![p] = v] /\ current' = p
                /\ v.pc = "rw" /\ v.bh = r.bh /\ v.rw = x /\ v.ret = next
                /\ Alike(v, r) /\ v.then = r.then /\ v.i = r.i
    BY <2>3
  <2>5. Stage(v)
    BY <1>2, <1>3, <1>5, <2>4 DEF Ready, Stage, Searching, Alike
  <2>6. InList(v, free_list) /\ Found(v)
    BY <1>2, <1>3, <1>5, <2>4 DEF Ready, Stage, InList, Found, Alike
  <2>7. Takes(r, v, None, 0)
    BY <1>2, <1>3, <1>7, <2>4 DEF Takes, Refs, Bit, Alike
  <2>8. Moves(p, v)
    BY <1>2, <2>4 DEF Moves
  <2>9. proc[p].pc # "slot" /\ v.pc # "slot" /\ Takes(proc[p], v, None, 0) /\ Ready(v)
    BY <1>1, <1>2, <2>4, <2>5, <2>6, <2>7 DEF Ready
  <2> QED
    BY <1>6, <2>3, <2>8, <2>9, QuietStep
<1> QED
  BY <1>1, <1>4, <1>8, <1>9 DEF Got

LEMMA ReadAheadKeeps ==
    ASSUME IInv, NEW p \in Procs, ReadAhead(p)
    PROVE  IInv'
<1>1. PICK r \in Places : r = proc[p]
  BY ProcessOf
<1>2. Ready(r) /\ r.pc = "readahead" /\ ~r.waiting /\ current \in {None, p}
  BY <1>1, ProcessOf DEF ReadAhead, Turn
<1>3. /\ r.bh # None /\ r.bh \in ToSet(free_list) /\ r.bh \in Bufs /\ None \notin Bufs
      /\ r.ahead # None /\ r.first = None /\ r.ret = "user"
  BY <1>2, ListIs DEF Ready, Stage, InList
<1>4. "getblk" \in Pcs /\ "getblk" \notin Holding /\ "readahead" \in Holding
  BY DEF Pcs, Holding
<1>5. buf[r.bh].blk = r.n /\ r.n # None
  BY <1>1, <1>2, <1>3, <1>4, HeldHasBlock DEF Ready, Found
<1>6. [r EXCEPT !.pc = "getblk", !.first = r.bh, !.block = r.ahead, !.ahead = None] \in Places
  BY <1>4 DEF Places
<1>7. PICK v \in Places : v = [r EXCEPT !.pc = "getblk", !.first = r.bh, !.block = r.ahead, !.ahead = None]
  BY <1>6, Zenon
<1>8. /\ v.pc = "getblk" /\ v.first = r.bh /\ v.block = r.ahead /\ v.ahead = None /\ v.bh = r.bh
      /\ v.n = r.n /\ v.waiting = r.waiting /\ v.ret = r.ret
  BY <1>7 DEF Places
<1>9. Stage(v)
  BY <1>2, <1>3, <1>5, <1>8 DEF Stage, Searching
<1>10. InList(v, free_list) /\ Found(v)
  BY <1>3, <1>5, <1>8 DEF InList, Found
<1>11. Takes(r, v, None, 0)
  BY <1>2, <1>3, <1>4, <1>8 DEF Takes, Refs, Bit
<1>12. Moves(p, v)
  BY <1>1, <1>2, <1>7, <1>8 DEF Moves, Go, ReadAhead
<1>13. buf' = buf /\ queue' = queue /\ moved' = moved /\ disk' = disk /\ free_list' = free_list
  BY DEF ReadAhead, requests, cache
<1>14. proc[p].pc # "slot" /\ v.pc # "slot" /\ Takes(proc[p], v, None, 0) /\ Ready(v)
  BY <1>1, <1>2, <1>8, <1>9, <1>10, <1>11 DEF Ready
<1> QED
  BY <1>12, <1>13, <1>14, QuietStep

LEMMA AheadDoneKeeps ==
    ASSUME IInv, NEW p \in Procs, AheadDone(p)
    PROVE  IInv'
<1>1. PICK r \in Places : r = proc[p]
  BY ProcessOf
<1>2. Ready(r) /\ r.pc = "aheaddone" /\ ~r.waiting /\ current \in {None, p}
  BY <1>1, ProcessOf DEF AheadDone, Turn
<1>3. /\ r.bh # None /\ r.bh \in ToSet(free_list) /\ r.bh \in Bufs /\ None \notin Bufs
      /\ r.first # None /\ r.first \in ToSet(free_list) /\ r.first \in Bufs
      /\ r.ret = "user" /\ r.ahead = None /\ buf[r.first].blk = r.n
  BY <1>2, ListIs DEF Ready, Stage, InList, Found
<1>4. "aheaddone" \in Holding /\ "bread" \in Holding /\ "bread" \in Pcs
  BY DEF Pcs, Holding
<1>5. buf[r.bh].blk # None
  BY <1>1, <1>2, <1>3, <1>4, HeldHasBlock
<1>6. [r EXCEPT !.pc = "bread", !.bh = r.first, !.first = None] \in Places
  BY <1>3, <1>4, ZenonT(40) DEF Places
<1>7. PICK v \in Places : v = [r EXCEPT !.pc = "bread", !.bh = r.first, !.first = None]
  BY <1>6, Zenon
<1>8. /\ v.pc = "bread" /\ v.bh = r.first /\ v.first = None /\ v.ahead = r.ahead
      /\ v.n = r.n /\ v.block = r.block /\ v.waiting = r.waiting /\ v.ret = r.ret
  BY <1>7 DEF Places
<1>9. Stage(v)
  BY <1>2, <1>3, <1>8 DEF Stage, Searching
<1>10. InList(v, free_list) /\ Found(v)
  BY <1>3, <1>8 DEF InList, Found
<1>11. Takes(r, v, r.bh, -1)
  BY <1>2, <1>3, <1>4, <1>8 DEF Takes, Refs, Bit
<1>12. Moves(p, v)
  BY <1>1, <1>2, <1>7, <1>8 DEF Moves, Go, AheadDone
<1>13. /\ buf' = [buf EXCEPT ![r.bh].count = @ + (-1)]
       /\ queue' = queue /\ moved' = moved /\ disk' = disk /\ free_list' = free_list
  BY <1>1 DEF AheadDone, Refer, requests, cache
<1>14. /\ proc[p].pc # "slot" /\ v.pc # "slot" /\ Takes(proc[p], v, r.bh, -1) /\ Ready(v)
       /\ -1 \in Int
  BY <1>1, <1>2, <1>8, <1>9, <1>10, <1>11 DEF Ready
<1> QED
  BY <1>3, <1>5, <1>12, <1>13, <1>14, CountStep, Zenon

LEMMA BreadReturnKeeps ==
    ASSUME IInv, NEW p \in Procs, BreadReturn(p)
    PROVE  IInv'
<1>1. PICK r \in Places : r = proc[p]
  BY ProcessOf
<1>2. Ready(r) /\ r.pc = "bread" /\ ~r.waiting /\ current \in {None, p}
  BY <1>1, ProcessOf DEF BreadReturn, Turn
<1>3. /\ r.bh # None /\ r.bh \in ToSet(free_list) /\ r.bh \in Bufs /\ None \notin Bufs
      /\ r.first = None /\ buf[r.bh].blk = r.n /\ r.ret = "user"
  BY <1>2, ListIs DEF Ready, Stage, InList, Found
<1>4. "bread" \in Holding /\ "brelse" \in Holding /\ "user" \in Holding
  BY DEF Holding
<1>5. free_list' = free_list
  BY DEF BreadReturn, cache
<1>6. CASE StartWait(p, r)
  <2>1. Takes(r, r, None, 0)
    BY TakesNone
  <2> QED
    BY <1>1, <1>2, <1>5, <1>6, <2>1, WaitStep
<1>7. CASE Return(p, r.bh) /\ UNCHANGED <<buf, requests, disk>>
  <2>1. PICK v : v = [Idle EXCEPT !.bh = r.bh, !.n = r.n]
    OBVIOUS
  <2>2. Idle \in Places /\ Idle.pc = "user" /\ ~Idle.waiting /\ Idle.first = None
    BY IdleReady
  <2>3. PICK z \in Places : z = Idle
    BY <2>2
  <2>4. v = [z EXCEPT !.bh = r.bh, !.n = r.n] /\ z.ret = "user" /\ z.pc = "user" /\ ~z.waiting /\ z.first = None
    BY <2>1, <2>2, <2>3 DEF Idle
  <2> HIDE <2>1, <2>2, <2>3
  <2>5. v \in Places
    BY <2>4, ZenonT(40) DEF Places
  <2>6. v.pc = z.pc /\ v.waiting = z.waiting /\ v.first = z.first /\ v.bh = r.bh /\ v.n = r.n /\ v.ret = z.ret
    BY <2>4 DEF Places
  <2>7. Stage(v)
    BY <1>3, <2>4, <2>6 DEF Stage, Searching
  <2>8. InList(v, free_list) /\ Found(v)
    BY <1>3, <2>4, <2>6 DEF InList, Found
  <2>9. Takes(r, v, None, 0)
    BY <1>2, <1>3, <1>4, <2>4, <2>6 DEF Takes, Refs, Bit
  <2>10. Go(p, v)
    BY <1>1, <1>3, <1>7, <2>1 DEF Return
  <2>11. Moves(p, v)
    BY <1>2, <2>4, <2>6, <2>10 DEF Go, Moves
  <2>12. buf' = buf /\ queue' = queue /\ moved' = moved /\ disk' = disk
    BY <1>7 DEF requests
  <2>13. proc[p].pc # "slot" /\ v.pc # "slot" /\ Takes(proc[p], v, None, 0) /\ Ready(v)
    BY <1>1, <1>2, <2>4, <2>5, <2>6, <2>7, <2>8, <2>9 DEF Ready
  <2> QED
    BY <1>5, <2>11, <2>12, <2>13, QuietStep
<1>8. CASE Go(p, At(p, "brelse")) /\ UNCHANGED <<buf, requests, disk>>
  <2>1. PICK v \in Places :
              /\ v = [r EXCEPT !.pc = "brelse"]
              /\ v.pc = "brelse" /\ v.bh = r.bh /\ Alike(v, r) /\ v.ret = r.ret /\ v.then = r.then
              /\ v.i = r.i /\ v.rw = r.rw
    BY AtPlace, Names
  <2>2. Stage(v)
    BY <1>2, <1>3, <2>1 DEF Ready, Stage, Searching, Alike
  <2>3. InList(v, free_list) /\ Found(v)
    BY <1>2, <1>3, <2>1 DEF Ready, InList, Found, Alike
  <2>4. Takes(r, v, None, 0)
    BY <1>2, <1>3, <1>4, <2>1 DEF Takes, Refs, Bit, Alike
  <2>5. Moves(p, v)
    BY <1>1, <1>2, <1>8, <2>1 DEF Go, At, Moves
  <2>6. buf' = buf /\ queue' = queue /\ moved' = moved /\ disk' = disk
    BY <1>8 DEF requests
  <2>7. proc[p].pc # "slot" /\ v.pc # "slot" /\ Takes(proc[p], v, None, 0) /\ Ready(v)
    BY <1>1, <1>2, <2>1, <2>2, <2>3, <2>4 DEF Ready
  <2> QED
    BY <1>5, <2>5, <2>6, <2>7, QuietStep
<1> QED
  BY <1>1, <1>6, <1>7, <1>8 DEF BreadReturn

\* A buffer that keeps its block and its count changes.
LEMMA FieldStep ==
    ASSUME IInv, NEW p \in Procs, NEW v, Moves(p, v), Ready(v),
           NEW b \in ToSet(free_list), NEW w \in Buffers, buf' = [buf EXCEPT ![b] = w],
           w.blk = buf[b].blk, w.count = buf[b].count, w.blk # None,
           Takes(proc[p], v, None, 0), queue' \in Seq(Requests), moved' = moved,
           disk' = disk, free_list' = free_list
    PROVE  Frame'
<1>0. b \in Bufs /\ free_list \in Seq(Bufs) /\ free_list # <<>> /\ None \notin Bufs
  BY ListIs
<1>1. buf \in [Bufs -> Buffers] /\ moved \in BOOLEAN
  BY DEF IInv, Types
<1>2. buf'[b] = w /\ \A c \in Bufs : c # b => buf'[c] = buf[c]
  BY <1>0, <1>1
<1>3. Turns(b, w, free_list)
  BY <1>0 DEF Turns
<1>4. Found(v)'
  <2>1. \A c \in Bufs : buf'[c].blk = buf[c].blk
    BY <1>2
  <2>2. Found(v) /\ v \in Places /\ Stage(v)
    BY DEF Ready
  <2>3. /\ v.first # None => v.first \in Bufs
        /\ v.bh # None => v.bh \in Bufs
        /\ v.pc \in {"got", "bread", "readahead", "rw", "slot"} => v.bh # None
    BY <2>2 DEF Places, Stage
  <2> QED
    BY <2>1, <2>2, <2>3 DEF Found
<1>5. Goes(p, v)
  BY <1>1, <1>4 DEF Goes, Moves, Ready, InList
<1>6. \A c \in Bufs : buf'[c].count = buf[c].count + Refs(v, c) - Refs(proc[p], c)
  <2> SUFFICES ASSUME NEW c \in Bufs
               PROVE  buf'[c].count = buf[c].count + Refs(v, c) - Refs(proc[p], c)
    OBVIOUS
  <2>1. Refs(v, c) \in Int /\ Refs(proc[p], c) \in Int /\ buf[c].count \in Int
    <3>1. buf[c].count \in Nat
      BY BufferOf
    <3> QED
      BY <3>1 DEF Refs, Bit
  <2>2. Refs(v, c) = Refs(proc[p], c) + 0
    BY <1>0 DEF Takes
  <2>3. buf'[c].count = buf[c].count
    BY <1>2
  <2> QED
    BY <2>1, <2>2, <2>3
<1>7. Frame
  BY DEF IInv, Frame
<1> QED
  BY <1>0, <1>3, <1>5, <1>6, <1>7, ProcStep

LEMMA ChangeKeeps ==
    ASSUME IInv, NEW p \in Procs, NEW c \in Contents, Change(p, c)
    PROVE  IInv'
<1>1. PICK r \in Places : r = proc[p]
  BY ProcessOf
<1>2. Ready(r) /\ r.pc = "user" /\ ~r.waiting /\ current \in {None, p} /\ r.bh # None
  BY <1>1, ProcessOf DEF Change, Turn
<1>3. r.bh \in ToSet(free_list) /\ r.bh \in Bufs
  BY <1>2, ListIs DEF Ready, InList
<1>4. buf[r.bh].blk # None
  BY <1>1, <1>2, <1>3, HeldHasBlock DEF Holding
<1>5. buf[r.bh] \in Buffers /\ buf \in [Bufs -> Buffers] /\ queue \in Seq(Requests)
      /\ proc \in [Procs -> Places]
  BY <1>3 DEF IInv, Types
<1>6. PICK x \in Buffers : x = buf[r.bh]
  BY <1>5
<1>7. PICK w : w = [x EXCEPT !.data = c, !.dirt = TRUE]
  OBVIOUS
<1>8. w \in Buffers /\ w.blk = x.blk /\ w.count = x.count /\ w.lock = x.lock
  BY <1>7 DEF Buffers
<1>9. buf' = [buf EXCEPT ![r.bh] = w]
  BY <1>1, <1>3, <1>5, <1>6, <1>7 DEF Change
<1>10. /\ Moves(p, r) /\ Takes(proc[p], r, None, 0) /\ queue' = queue /\ moved' = moved
       /\ disk' = disk /\ free_list' = free_list
  BY <1>1, <1>2, <1>5, TakesNone DEF Change, Moves, requests, cache
<1>11. Frame'
  BY <1>2, <1>3, <1>4, <1>5, <1>6, <1>8, <1>9, <1>10, FieldStep
<1>12. Owned'
  <2>1. SameLocks
    BY <1>3, <1>5, <1>6, <1>8, <1>9 DEF SameLocks
  <2> QED
    BY <1>1, <1>2, <1>10, <2>1, OwnedKept DEF IInv, Moves
<1> QED
  BY <1>11, <1>12 DEF IInv, Frame

LEMMA brelseKeeps ==
    ASSUME IInv, NEW p \in Procs, brelse(p)
    PROVE  IInv'
<1>1. PICK r \in Places : r = proc[p]
  BY ProcessOf
<1>2. Ready(r) /\ r.pc = "user" /\ ~r.waiting /\ current \in {None, p} /\ r.bh # None
  BY <1>1, ProcessOf DEF brelse, Turn
<1>3. PICK v \in Places :
              /\ v = [r EXCEPT !.pc = "brelse"]
              /\ v.pc = "brelse" /\ v.bh = r.bh /\ Alike(v, r) /\ v.ret = r.ret /\ v.then = r.then
              /\ v.i = r.i /\ v.rw = r.rw
  BY AtPlace, Names
<1>4. Stage(v)
  BY <1>2, <1>3 DEF Ready, Stage, Searching, Alike
<1>5. InList(v, free_list) /\ Found(v)
  BY <1>2, <1>3 DEF Ready, Stage, InList, Found, Alike
<1>6. Takes(r, v, None, 0)
  <2>1. "user" \in Holding /\ "brelse" \in Holding /\ None \notin Bufs
    BY NoneAssumption DEF Holding
  <2> QED
    BY <1>2, <1>3, <2>1 DEF Takes, Refs, Bit, Alike
<1>7. Moves(p, v)
  BY <1>1, <1>2, <1>3 DEF brelse, Go, At, Moves
<1>8. buf' = buf /\ queue' = queue /\ moved' = moved /\ disk' = disk /\ free_list' = free_list
  BY DEF brelse, requests, cache
<1>9. proc[p].pc # "slot" /\ v.pc # "slot" /\ Takes(proc[p], v, None, 0) /\ Ready(v)
  BY <1>1, <1>2, <1>3, <1>4, <1>5, <1>6 DEF Ready
<1> QED
  BY <1>7, <1>8, <1>9, QuietStep

LEMMA ReleasedKeeps ==
    ASSUME IInv, NEW p \in Procs, Released(p)
    PROVE  IInv'
<1>1. PICK r \in Places : r = proc[p]
  BY ProcessOf
<1>2. Ready(r) /\ r.pc = "brelse" /\ ~r.waiting /\ current \in {None, p}
  BY <1>1, ProcessOf DEF Released, Turn
<1>3. /\ r.bh # None /\ r.bh \in ToSet(free_list) /\ r.bh \in Bufs /\ None \notin Bufs
      /\ r.first = None
  BY <1>2, ListIs DEF Ready, Stage, InList
<1>4. "brelse" \in Holding
  BY DEF Holding
<1>5. free_list' = free_list
  BY DEF Released
<1>6. CASE StartWait(p, r)
  <2>1. Takes(r, r, None, 0)
    BY TakesNone
  <2> QED
    BY <1>1, <1>2, <1>5, <1>6, <2>1, WaitStep
<1>7. CASE Refer(r.bh, -1) /\ Return(p, None) /\ UNCHANGED <<requests, disk>>
  <2>1. PICK v \in Places : v = Idle /\ Ready(v) /\ v.pc = "user" /\ ~v.waiting /\ v.bh = None /\ v.first = None
    BY IdleReady
  <2>2. Takes(r, v, r.bh, -1)
    BY <1>2, <1>3, <1>4, <2>1 DEF Takes, Refs, Bit
  <2>3. Moves(p, v)
    BY <1>2, <1>7, <2>1 DEF Return, Go, Moves
  <2>4. buf[r.bh].blk # None
    BY <1>1, <1>2, <1>3, <1>4, HeldHasBlock
  <2>5. /\ buf' = [buf EXCEPT ![r.bh].count = @ + (-1)]
        /\ queue' = queue /\ moved' = moved /\ disk' = disk
    BY <1>7 DEF Refer, requests
  <2>6. /\ proc[p].pc # "slot" /\ v.pc # "slot" /\ Takes(proc[p], v, r.bh, -1) /\ -1 \in Int
    BY <1>1, <1>2, <2>1, <2>2
  <2> QED
    BY <1>3, <1>5, <2>1, <2>3, <2>4, <2>5, <2>6, CountStep, Zenon
<1> QED
  BY <1>1, <1>6, <1>7 DEF Released

-----------------------------------------------------------------------------
(* shrink_buffers.                                                         *)

LEMMA shrink_buffersKeeps ==
    ASSUME IInv, NEW p \in Procs, NEW k \in Priorities, shrink_buffers(p, k)
    PROVE  IInv'
<1>1. PICK r \in Places : r = proc[p]
  BY ProcessOf
<1>2. Ready(r) /\ r.pc = "user" /\ ~r.waiting /\ r.bh = None /\ current \in {None, p}
  BY <1>1, ProcessOf DEF shrink_buffers, Turn
<1>3. r.ret = "user" /\ r.block = r.n /\ r.first = None /\ None \notin Bufs /\ r.then = "user"
  BY <1>2, NoneAssumption DEF Ready, Stage, Idle
<1>4. k \in Urgency
  BY PrioritiesAssumption DEF Urgency
<1>5. [r EXCEPT !.priority = k] \in Places
  BY <1>4 DEF Places
<1>6. PICK z \in Places : z = [r EXCEPT !.priority = k]
  BY <1>5, Zenon
<1>7. Alike(z, r) /\ z.ret = r.ret /\ z.bh = r.bh /\ z.then = r.then
  BY <1>6 DEF Places, Alike
<1>8. buf' = buf /\ queue' = queue /\ moved' = moved /\ disk' = disk /\ free_list' = free_list
  BY DEF shrink_buffers, requests, cache
<1>9. CASE sync_buffers(p, z, FALSE, "shrink0")
  <2>1. FALSE \in BOOLEAN /\ "shrink0" \in Thens
    BY DEF Thens
  <2>2. PICK v \in Places :
              /\ v = [SyncStart(z) EXCEPT !.wait = FALSE, !.then = "shrink0"]
              /\ v.pc = "sync" /\ v.bh = Head(free_list) /\ Alike(v, z) /\ v.ret = z.ret
              /\ v.then = "shrink0"
    BY <2>1, Starting
  <2>3. Alike(v, r) /\ v.ret = r.ret
    BY <1>7, <2>2 DEF Alike
  <2>4. Ready(v) /\ Takes(r, v, None, 0)
    BY <1>2, <1>3, <2>2, <2>3, StartingReady
  <2>5. Moves(p, v)
    BY <1>2, <1>9, <2>2 DEF sync_buffers, Go, Moves
  <2>6. proc[p].pc # "slot" /\ v.pc # "slot" /\ Takes(proc[p], v, None, 0)
    BY <1>1, <1>2, <2>2, <2>4
  <2> QED
    BY <1>8, <2>4, <2>5, <2>6, QuietStep
<1>10. CASE Go(p, [z EXCEPT !.pc = "shrink0"])
  <2>1. PICK v \in Places :
              /\ v = [z EXCEPT !.pc = "shrink0"]
              /\ v.pc = "shrink0" /\ v.bh = z.bh /\ Alike(v, z) /\ v.ret = z.ret /\ v.then = z.then
              /\ v.i = z.i /\ v.rw = z.rw
    BY AtPlace, Names
  <2>2. v.bh = None /\ Alike(v, r) /\ v.ret = "user" /\ v.then = "user"
    BY <1>2, <1>3, <1>7, <2>1 DEF Alike
  <2>3. Stage(v)
    BY <1>2, <1>3, <2>1, <2>2 DEF Stage, Searching, Alike
  <2>4. InList(v, free_list) /\ Found(v)
    BY <1>3, <2>1, <2>2 DEF InList, Found, Alike
  <2>5. Takes(r, v, None, 0)
    BY <1>2, <1>3, <2>1, <2>2 DEF Takes, Refs, Bit, Alike
  <2>6. Moves(p, v)
    BY <1>2, <1>10, <2>1 DEF Go, Moves
  <2>7. proc[p].pc # "slot" /\ v.pc # "slot" /\ Takes(proc[p], v, None, 0) /\ Ready(v)
    BY <1>1, <1>2, <2>1, <2>3, <2>4, <2>5 DEF Ready
  <2> QED
    BY <1>8, <2>6, <2>7, QuietStep
<1> QED
  BY <1>1, <1>6, <1>9, <1>10 DEF shrink_buffers

\* A process without a reference to any buffer.
Bare(r) == \A c \in Bufs : Refs(r, c) = 0

\* The loop goes on to buffer h of the list l.
Shrinks(r, l) ==
    /\ Stage(r) /\ Found(r) /\ InList(r, l) /\ ~r.waiting
    /\ r.pc \in {"shrink0", "shrink", "free", "shrunk"}

Onward(r, h, m) == [r EXCEPT !.pc = "shrink", !.bh = h, !.i = m]

LEMMA ShrinkPlace ==
    ASSUME NEW r \in Places, NEW l, Shrinks(r, l), NEW h \in Bufs, h \in ToSet(l), NEW m \in Nat
    PROVE  \E v \in Places :
              /\ v = Onward(r, h, m)
              /\ v.pc = "shrink" /\ v.bh = h /\ v.first = None /\ ~v.waiting
              /\ Stage(v) /\ Found(v) /\ InList(v, l)
              /\ Bare(v)
<1>1. "shrink" \in Pcs /\ "shrink" \notin Holding /\ None \notin Bufs
  BY NoneAssumption DEF Pcs, Holding
<1>2. [r EXCEPT !.pc = "shrink", !.bh = h, !.i = m] \in Places
  BY <1>1 DEF Places
<1>3. PICK v \in Places : v = [r EXCEPT !.pc = "shrink", !.bh = h, !.i = m]
  BY <1>2, Zenon
<1>4. v.pc = "shrink" /\ v.bh = h /\ Alike(v, r) /\ v.ret = r.ret /\ v.then = r.then
  BY <1>3 DEF Places, Alike
<1>5. r.first = None /\ r.ret = "user" /\ r.block = r.n /\ ~r.waiting /\ r.then # "getblk"
  BY DEF Stage, Shrinks
<1>6. Stage(v)
  BY <1>1, <1>4, <1>5 DEF Stage, Searching, Alike
<1>7. InList(v, l) /\ Found(v)
  BY <1>4, <1>5 DEF InList, Found, Alike
<1>8. Bare(v)
  BY <1>1, <1>4, <1>5 DEF Bare, Refs, Bit, Alike
<1> QED
  BY <1>3, <1>4, <1>5, <1>6, <1>7, <1>8 DEF Alike, Onward

\* A process in the loop refers to no buffer.
LEMMA NoRefs ==
    ASSUME IInv, NEW r \in Places, Ready(r), ~r.waiting, r.pc \in {"shrink0", "shrink", "free"}
    PROVE  r.first = None /\ Bare(r)
<1>1. r.first = None /\ None \notin Bufs
  BY NoneAssumption DEF Ready, Stage
<1>2. r.pc \notin Holding
  BY DEF Holding
<1> QED
  BY <1>1, <1>2 DEF Bare, Refs, Bit

LEMMA ShrinkStartKeeps ==
    ASSUME IInv, NEW p \in Procs, ShrinkStart(p)
    PROVE  IInv'
<1>1. PICK r \in Places : r = proc[p]
  BY ProcessOf
<1>2. Ready(r) /\ r.pc = "shrink0" /\ ~r.waiting /\ current \in {None, p}
  BY <1>1, ProcessOf DEF ShrinkStart, Turn
<1>3. PICK h \in Bufs, m \in Nat : /\ h = Head(free_list) /\ m = Len(free_list) \div 2 ^ r.priority
                                   /\ h \in ToSet(free_list)
  <2>1. r.priority \in 0 .. 6
    BY DEF Places, Urgency
  <2>2. Len(free_list) \div 2 ^ r.priority \in Nat
    BY <2>1, ShiftIsNat, ListIs
  <2> QED
    BY <2>2, ListIs
<1>4. PICK v \in Places :
              /\ v = Onward(r, h, m)
              /\ v.pc = "shrink" /\ v.bh = h /\ v.first = None /\ ~v.waiting
              /\ Stage(v) /\ Found(v) /\ InList(v, free_list)
              /\ Bare(v)
  <2>1. Shrinks(r, free_list)
    BY <1>2 DEF Ready, Shrinks
  <2> QED
    BY <1>3, <2>1, ShrinkPlace
<1>5. Takes(r, v, None, 0)
  BY <1>2, <1>4, NoRefs, NoneAssumption DEF Takes, Bare
<1>6. Moves(p, v)
  BY <1>1, <1>2, <1>3, <1>4 DEF ShrinkStart, Go, Moves, Onward
<1>7. buf' = buf /\ queue' = queue /\ moved' = moved /\ disk' = disk /\ free_list' = free_list
  BY DEF ShrinkStart, requests, cache
<1>8. proc[p].pc # "slot" /\ v.pc # "slot" /\ Takes(proc[p], v, None, 0) /\ Ready(v)
  BY <1>1, <1>2, <1>4, <1>5 DEF Ready
<1> QED
  BY <1>6, <1>7, <1>8, QuietStep

\* The loop goes on with the list l, which has the same buffers.
SameBuffers(l) == \A c : c \in ToSet(l) <=> c \in ToSet(free_list)

LEMMA ShrinkNextKeeps ==
    ASSUME IInv, NEW p \in Procs, NEW r \in Places, r = proc[p], Ready(r), ~r.waiting,
           current \in {None, p}, r.pc \in {"shrink", "free"}, r.i > 0,
           NEW l \in Seq(Bufs), l # <<>>, SameBuffers(l),
           ShrinkNext(p, l), free_list' = l, UNCHANGED <<buf, requests, disk>>
    PROVE  IInv'
<1>1. r.bh # None /\ r.bh \in ToSet(l) /\ r.i \in Nat
  BY DEF Ready, Stage, InList, Places, SameBuffers
<1>2. PICK h \in Bufs, m \in Nat : h = NextFree(l, r.bh) /\ m = r.i - 1 /\ h \in ToSet(l)
  <2>1. NextFree(l, r.bh) \in ToSet(l) /\ NextFree(l, r.bh) \in Bufs
    BY <1>1, BehindIsInList, ListOf DEF NextFree
  <2>2. r.i - 1 \in Nat
    BY <1>1
  <2> QED
    BY <2>1, <2>2
<1>3. Stage(r) /\ Found(r) /\ InList(r, l)
  BY DEF Ready, InList, SameBuffers
<1>4. PICK v \in Places :
              /\ v = Onward(r, h, m)
              /\ v.pc = "shrink" /\ v.bh = h /\ v.first = None /\ ~v.waiting
              /\ Stage(v) /\ Found(v) /\ InList(v, l)
              /\ Bare(v)
  <2>1. Shrinks(r, l)
    BY <1>3 DEF Shrinks
  <2> QED
    BY <1>2, <2>1, ShrinkPlace
<1>5. Takes(r, v, None, 0)
  BY <1>4, NoRefs, NoneAssumption DEF Takes, Bare
<1>6. Moves(p, v)
  <2>1. v = [proc[p] EXCEPT !.pc = "shrink", !.bh = NextFree(l, @), !.i = @ - 1]
    BY <1>2, <1>4 DEF Onward
  <2> QED
    BY <1>4, <2>1 DEF ShrinkNext, Go, Moves
<1>7. buf' = buf /\ queue' = queue /\ moved' = moved /\ disk' = disk
  BY DEF requests
<1>8. /\ ToSet(free_list) \subseteq ToSet(l) /\ proc[p].pc # "slot" /\ v.pc # "slot"
      /\ Takes(proc[p], v, None, 0)
  BY <1>4, <1>5 DEF SameBuffers
<1> QED
  BY <1>4, <1>6, <1>7, <1>8, ListStep, Zenon

LEMMA ShrinkBufferKeeps ==
    ASSUME IInv, NEW p \in Procs, ShrinkBuffer(p)
    PROVE  IInv'
<1>1. PICK r \in Places : r = proc[p]
  BY ProcessOf
<1>2. Ready(r) /\ r.pc = "shrink" /\ ~r.waiting /\ current \in {None, p}
  BY <1>1, ProcessOf DEF ShrinkBuffer, Turn
<1>3. r.bh # None /\ r.bh \in ToSet(free_list) /\ r.bh \in Bufs /\ None \notin Bufs
  BY <1>2, ListIs DEF Ready, Stage, InList
<1>4. buf' = buf /\ queue' = queue /\ moved' = moved /\ disk' = disk /\ UNCHANGED <<buf, requests, disk>>
  BY DEF ShrinkBuffer, requests
<1>5. CASE Return(p, None) /\ UNCHANGED free_list
  <2>1. PICK v \in Places : v = Idle /\ Ready(v) /\ v.pc = "user" /\ ~v.waiting /\ v.bh = None /\ v.first = None
    BY IdleReady
  <2>2. Takes(r, v, None, 0)
    <3>1. \A c \in Bufs : Refs(v, c) = 0
      BY <1>3, <2>1 DEF Refs, Bit
    <3> QED
      BY <1>2, <1>3, <3>1, NoRefs DEF Takes, Bare
  <2>3. Moves(p, v)
    BY <1>2, <1>5, <2>1 DEF Return, Go, Moves
  <2>4. proc[p].pc # "slot" /\ v.pc # "slot" /\ Takes(proc[p], v, None, 0) /\ free_list' = free_list
    BY <1>1, <1>2, <1>5, <2>1, <2>2
  <2> QED
    BY <1>4, <2>1, <2>3, <2>4, QuietStep
<1>6. CASE r.i > 0 /\ free_list' = Moved(r.bh) /\ ShrinkNext(p, Moved(r.bh))
  <2>1. PICK l \in Seq(Bufs) : l # <<>> /\ l = Moved(r.bh) /\ \A c : c \in ToSet(l) <=> c \in ToSet(free_list)
    BY <1>3, ListIs, MovedInList
  <2>2. r.pc \in {"shrink", "free"} /\ ShrinkNext(p, l) /\ free_list' = l /\ SameBuffers(l)
    BY <1>2, <1>6, <2>1 DEF SameBuffers
  <2> QED
    BY <1>1, <1>2, <1>4, <1>6, <2>1, <2>2, ShrinkNextKeeps
<1>7. CASE r.i > 0 /\ ShrinkNext(p, free_list) /\ UNCHANGED free_list
  <2>1. free_list \in Seq(Bufs) /\ free_list # <<>> /\ r.pc \in {"shrink", "free"}
        /\ SameBuffers(free_list)
    BY <1>2, ListIs DEF SameBuffers
  <2> QED
    BY <1>1, <1>2, <1>4, <1>7, <2>1, ShrinkNextKeeps
<1>8. CASE r.i > 0 /\ Go(p, At(p, "free")) /\ UNCHANGED free_list
  <2>1. PICK v \in Places :
              /\ v = [r EXCEPT !.pc = "free"]
              /\ v.pc = "free" /\ v.bh = r.bh /\ Alike(v, r) /\ v.ret = r.ret /\ v.then = r.then
              /\ v.i = r.i /\ v.rw = r.rw
    BY AtPlace, Names
  <2>2. Stage(v)
    BY <1>2, <1>3, <1>8, <2>1 DEF Ready, Stage, Searching, Alike
  <2>3. InList(v, free_list) /\ Found(v)
    BY <1>2, <1>3, <2>1 DEF Ready, InList, Found, Alike
  <2>4. Takes(r, v, None, 0)
    <3>1. "free" \notin Holding /\ "shrink" \notin Holding
      BY DEF Holding
    <3> QED
      BY <1>2, <1>3, <2>1, <3>1 DEF Takes, Refs, Bit, Alike
  <2>5. Moves(p, v)
    BY <1>1, <1>2, <1>8, <2>1 DEF Go, At, Moves
  <2>6. proc[p].pc # "slot" /\ v.pc # "slot" /\ Takes(proc[p], v, None, 0) /\ Ready(v) /\ free_list' = free_list
    BY <1>1, <1>2, <1>8, <2>1, <2>2, <2>3, <2>4 DEF Ready
  <2> QED
    BY <1>4, <2>5, <2>6, QuietStep
<1> QED
  BY <1>1, <1>5, <1>6, <1>7, <1>8 DEF ShrinkBuffer

LEMMA TryToFreeKeeps ==
    ASSUME IInv, NEW p \in Procs, TryToFree(p)
    PROVE  IInv'
<1>1. PICK r \in Places : r = proc[p]
  BY ProcessOf
<1>2. Ready(r) /\ r.pc = "free" /\ ~r.waiting /\ current \in {None, p} /\ current = p
  BY <1>1, ProcessOf DEF TryToFree, Turn, Runs
<1>3. /\ r.bh # None /\ r.bh \in ToSet(free_list) /\ r.bh \in Bufs /\ None \notin Bufs
      /\ r.first = None /\ r.i > 0
  BY <1>2, ListIs DEF Ready, Stage, InList
<1>4. "free" \notin Holding /\ "rw" \in Holding
  BY DEF Holding
<1>5. CASE StartWait(p, r) /\ UNCHANGED free_list
  <2>1. Takes(r, r, None, 0)
    BY TakesNone
  <2> QED
    BY <1>1, <1>2, <1>5, <2>1, WaitStep
<1>6. CASE /\ buf[r.bh].dirt
           /\ Refer(r.bh, 1)
           /\ ll_rw_block(p, r, "WRITEA", <<r.bh>>, "shrunk")
           /\ UNCHANGED <<disk, free_list>>
  <2>1. "WRITEA" \in Rws /\ "shrunk" \in Rets
    BY DEF Rws, Rets
  <2>2. /\ queue' = queue /\ moved' = moved
        /\ \E u \in Places :
                /\ proc' = [proc EXCEPT ![p] = u] /\ current' = p
                /\ u.pc = "rw" /\ u.bh = r.bh /\ u.rw = "WRITEA" /\ u.ret = "shrunk"
                /\ Alike(u, r) /\ u.then = r.then /\ u.i = r.i
    BY <1>3, <1>6, <2>1, ReadOrWrite
  <2>3. PICK u \in Places :
                /\ proc' = [proc EXCEPT ![p] = u] /\ current' = p
                /\ u.pc = "rw" /\ u.bh = r.bh /\ u.rw = "WRITEA" /\ u.ret = "shrunk"
                /\ Alike(u, r) /\ u.then = r.then /\ u.i = r.i
    BY <2>2
  <2>4. Stage(u)
    BY <1>2, <1>3, <2>3 DEF Ready, Stage, Searching, Alike
  <2>5. InList(u, free_list) /\ Found(u)
    BY <1>2, <1>3, <2>3 DEF Ready, InList, Found, Alike
  <2>6. Takes(r, u, r.bh, 1)
    BY <1>2, <1>3, <1>4, <2>3 DEF Takes, Refs, Bit, Alike
  <2>7. buf[r.bh].blk # None
    BY <1>3, <1>6, InUse
  <2>8. Moves(p, u)
    BY <1>2, <2>3 DEF Moves
  <2>9. disk' = disk /\ buf' = [buf EXCEPT ![r.bh].count = @ + 1] /\ free_list' = free_list
    BY <1>6 DEF Refer
  <2>10. /\ Ready(u) /\ proc[p].pc # "slot" /\ u.pc # "slot" /\ Takes(proc[p], u, r.bh, 1)
         /\ 1 \in Int
    BY <1>1, <1>2, <2>3, <2>4, <2>5, <2>6 DEF Ready
  <2> QED
    BY <1>3, <2>2, <2>7, <2>8, <2>9, <2>10, CountStep, Zenon
<1>7. CASE ShrinkNext(p, free_list) /\ UNCHANGED <<buf, requests, disk, free_list>>
  <2>1. free_list \in Seq(Bufs) /\ free_list # <<>> /\ r.pc \in {"shrink", "free"}
        /\ SameBuffers(free_list) /\ free_list' = free_list /\ UNCHANGED <<buf, requests, disk>>
    BY <1>2, <1>7, ListIs DEF SameBuffers
  <2> QED
    BY <1>1, <1>2, <1>3, <1>7, <2>1, ShrinkNextKeeps
<1>8. CASE /\ ~buf[r.bh].lock /\ buf[r.bh].count = 0 /\ ~LastBuffer
           /\ buf' = [buf EXCEPT ![r.bh] = Unused]
           /\ free_list' = Without(r.bh)
           /\ Return(p, None)
           /\ UNCHANGED <<requests, disk>>
  <2>1. PICK v \in Places : v = Idle /\ v.pc = "user" /\ ~v.waiting /\ v.bh = None /\ v.first = None /\ Stage(v)
    BY IdleReady DEF Ready
  <2>2. PICK l \in Seq(Bufs) :
          /\ l # <<>> /\ free_list' = l
          /\ \A c : c # r.bh => (c \in ToSet(l) <=> c \in ToSet(free_list))
    <3>1. /\ Without(r.bh) \in Seq(Bufs) /\ Len(Without(r.bh)) = Len(free_list) - 1
          /\ \A c : c # r.bh => (c \in ToSet(Without(r.bh)) <=> c \in ToSet(free_list))
      BY <1>3, ListIs, RemovedFromList DEF Without
    <3>2. Without(r.bh) # <<>>
      <4>1. ~(Len(free_list) <= MinBuffers) /\ MinBuffers \in Nat \ {0} /\ Len(free_list) \in Nat
        BY <1>8, ListIs, MinBuffersAssumption DEF LastBuffer
      <4>2. Len(free_list) - 1 # 0
        <5>1. \A x \in Nat, y \in Nat \ {0} : ~(x <= y) => x - 1 # 0
          OBVIOUS
        <5> QED
          BY <4>1, <5>1, Zenon
      <4>3. Len(<<>>) = 0
        OBVIOUS
      <4> QED
        BY <3>1, <4>2, <4>3, Zenon
    <3> QED
      BY <1>8, <3>1, <3>2
  <2>3. PICK w : w = Unused
    OBVIOUS
  <2>4. w \in Buffers /\ w.blk = None /\ w.count = 0 /\ w.lock = FALSE
    BY <2>3 DEF Unused, Buffers
  <2>5. buf \in [Bufs -> Buffers] /\ queue \in Seq(Requests) /\ moved \in BOOLEAN
    BY DEF IInv, Types
  <2>6. buf' = [buf EXCEPT ![r.bh] = w] /\ buf'[r.bh] = w /\ \A c \in Bufs : c # r.bh => buf'[c] = buf[c]
    BY <1>3, <1>8, <2>3, <2>5
  <2>7. Turns(r.bh, w, l)
    BY <1>3, <1>8, <2>2, <2>3, <2>4, <2>6 DEF Turns
  <2>8. InList(v, l)
    BY <2>1 DEF InList
  <2>9. Found(v)'
    BY <2>1 DEF Found
  <2>10. Goes(p, v)
    <3>1. Moves(p, v)
      BY <1>2, <1>8, <2>1 DEF Return, Go, Moves
    <3>2. queue' \in Seq(Requests) /\ moved' \in BOOLEAN /\ disk' = disk
      BY <1>8, <2>5 DEF requests
    <3> QED
      BY <2>1, <2>2, <2>8, <2>9, <3>1, <3>2 DEF Goes, Moves, InList
  <2>11. \A c \in Bufs : buf'[c].count = buf[c].count + Refs(v, c) - Refs(proc[p], c)
    <3> SUFFICES ASSUME NEW c \in Bufs
                 PROVE  buf'[c].count = buf[c].count + Refs(v, c) - Refs(proc[p], c)
      OBVIOUS
    <3>1. buf[c].count \in Nat
      BY BufferOf
    <3>2. Refs(v, c) = 0 /\ Refs(r, c) = 0
      BY <1>2, <1>3, <1>4, <2>1 DEF Refs, Bit
    <3>3. buf'[c].count = buf[c].count
      BY <1>8, <2>4, <2>6, <3>1
    <3> QED
      BY <1>1, <3>1, <3>2, <3>3
  <2>12. Frame
    BY DEF IInv, Frame
  <2>13. Frame'
    BY <1>2, <1>3, <1>8, <2>7, <2>10, <2>11, <2>12, ProcStep
  <2>14. Owned'
    <3>1. SameLocks
      BY <1>3, <1>8, <2>4, <2>5, <2>6 DEF SameLocks, Buffers
    <3>2. queue' = queue /\ proc' = [proc EXCEPT ![p] = v] /\ proc[p].pc # "slot" /\ v.pc # "slot"
      BY <1>1, <1>2, <1>8, <2>1, <2>10 DEF requests, Goes
    <3> QED
      BY <3>1, <3>2, OwnedKept DEF IInv
  <2> QED
    BY <2>13, <2>14 DEF IInv, Frame
<1> QED
  BY <1>1, <1>5, <1>6, <1>7, <1>8 DEF TryToFree

LEMMA ShrinkWroteKeeps ==
    ASSUME IInv, NEW p \in Procs, ShrinkWrote(p)
    PROVE  IInv'
<1>1. PICK r \in Places : r = proc[p]
  BY ProcessOf
<1>2. Ready(r) /\ r.pc = "shrunk" /\ ~r.waiting /\ current \in {None, p}
  BY <1>1, ProcessOf DEF ShrinkWrote, Turn
<1>3. /\ r.bh # None /\ r.bh \in ToSet(free_list) /\ r.bh \in Bufs /\ None \notin Bufs
      /\ r.first = None /\ r.i > 0 /\ r.i \in Nat
  BY <1>2, ListIs DEF Ready, Stage, InList, Places
<1>4. PICK h \in Bufs, m \in Nat : h = NextFree(free_list, r.bh) /\ m = r.i - 1 /\ h \in ToSet(free_list)
  <2>1. NextFree(free_list, r.bh) \in ToSet(free_list)
    BY <1>3, ListIs, BehindIsInList DEF NextFree
  <2>2. r.i - 1 \in Nat
    BY <1>3
  <2> QED
    BY <2>1, <2>2, ListIs
<1>5. PICK v \in Places :
              /\ v = Onward(r, h, m)
              /\ v.pc = "shrink" /\ v.bh = h /\ v.first = None /\ ~v.waiting
              /\ Stage(v) /\ Found(v) /\ InList(v, free_list)
              /\ Bare(v)
  <2>1. Shrinks(r, free_list)
    BY <1>2 DEF Ready, Shrinks
  <2> QED
    BY <1>4, <2>1, ShrinkPlace
<1>6. Takes(r, v, r.bh, -1)
  <2>1. "shrunk" \in Holding
    BY DEF Holding
  <2>2. \A c \in Bufs : Refs(r, c) = IF c = r.bh THEN 1 ELSE 0
    BY <1>2, <1>3, <2>1 DEF Refs, Bit
  <2> QED
    BY <1>5, <2>2 DEF Takes, Bare
<1>7. Moves(p, v)
  <2>1. v = [proc[p] EXCEPT !.pc = "shrink", !.bh = NextFree(free_list, @), !.i = @ - 1]
    BY <1>1, <1>4, <1>5 DEF Onward
  <2> QED
    BY <1>2, <1>5, <2>1 DEF ShrinkWrote, ShrinkNext, Go, Moves
<1>8. buf[r.bh].blk # None
  BY <1>1, <1>2, <1>3, HeldHasBlock DEF Holding
<1>9. /\ buf' = [buf EXCEPT ![r.bh].count = @ + (-1)]
      /\ queue' = queue /\ moved' = moved /\ disk' = disk /\ free_list' = free_list
  BY <1>1 DEF ShrinkWrote, Refer, requests, cache
<1>10. /\ proc[p].pc # "slot" /\ v.pc # "slot" /\ Takes(proc[p], v, r.bh, -1) /\ -1 \in Int /\ Ready(v)
  BY <1>1, <1>2, <1>5, <1>6 DEF Ready
<1> QED
  BY <1>3, <1>7, <1>8, <1>9, <1>10, CountStep, Zenon

-----------------------------------------------------------------------------
(* make_request.                                                           *)

LEMMA DoneIs ==
    ASSUME IInv, NEW p \in Procs, NEW r \in Places, r = proc[p], Ready(r), ~r.waiting,
           r.pc \in {"rw", "slot"}
    PROVE  \E v \in Places :
              /\ v = Done(p) /\ v.pc = r.ret /\ v.ret = "user" /\ v.pc \notin {"user", "slot"}
              /\ v.bh = r.bh /\ Alike(v, r) /\ v.then = r.then /\ v.i = r.i
              /\ Ready(v) /\ Takes(r, v, None, 0)
<1>1. r.todo = <<>> /\ r.plugged = FALSE /\ r.ret \in Rets /\ r.ret # "user"
  BY DEF Places, Ready, Stage
<1>2. r.ret \in Pcs /\ "READ" \in Rws /\ "user" \in Rets
  BY <1>1, Names DEF Rws, Rets
<1>3. [r EXCEPT !.pc = r.ret, !.rw = "READ", !.ret = "user"] \in Places
  BY <1>2 DEF Places
<1>4. PICK v \in Places : v = [r EXCEPT !.pc = r.ret, !.rw = "READ", !.ret = "user"]
  BY <1>3, Zenon
<1>5. /\ v.pc = r.ret /\ v.ret = "user" /\ v.bh = r.bh /\ Alike(v, r) /\ v.then = r.then
      /\ v.i = r.i
  BY <1>4 DEF Places, Alike
<1>6. v = Done(p)
  BY <1>1, <1>4 DEF Done
<1>7. r.ret \in {"bread", "readahead", "aheaddone", "wrote", "shrunk"}
  BY <1>1 DEF Rets
<1>8. Stage(v)
  BY <1>5, <1>7 DEF Ready, Stage, Searching, Alike
<1>9. InList(v, free_list) /\ Found(v)
  BY <1>5, <1>7 DEF Ready, InList, Found, Alike
<1>10. Takes(r, v, None, 0)
  <2>1. r.ret \in Holding /\ r.pc \in Holding /\ None \notin Bufs
    BY <1>7, NoneAssumption DEF Holding
  <2> QED
    BY <1>5, <2>1 DEF Takes, Refs, Bit, Alike
<1> QED
  BY <1>5, <1>6, <1>7, <1>8, <1>9, <1>10 DEF Ready

LEMMA make_requestKeeps ==
    ASSUME IInv, NEW p \in Procs, make_request(p), free_list' = free_list
    PROVE  IInv'
<1>1. PICK r \in Places : r = proc[p]
  BY ProcessOf
<1>2. Ready(r) /\ r.pc = "rw" /\ ~r.waiting /\ current \in {None, p}
  BY <1>1, ProcessOf DEF make_request, Turn
<1>3. r.bh # None /\ r.bh \in ToSet(free_list) /\ r.bh \in Bufs /\ None \notin Bufs
  BY <1>2, ListIs DEF Ready, Stage, InList
<1>4. CASE Go(p, Done(p)) /\ UNCHANGED <<buf, requests, disk>>
  <2>1. PICK v \in Places :
              /\ v = Done(p) /\ v.pc = r.ret /\ v.ret = "user" /\ v.pc \notin {"user", "slot"}
              /\ v.bh = r.bh /\ Alike(v, r) /\ v.then = r.then /\ v.i = r.i
              /\ Ready(v) /\ Takes(r, v, None, 0)
    BY <1>1, <1>2, DoneIs
  <2>2. Moves(p, v)
    BY <1>2, <1>4, <2>1 DEF Moves, Go
  <2>3. buf' = buf /\ queue' = queue /\ moved' = moved /\ disk' = disk
    BY <1>4 DEF requests
  <2>4. proc[p].pc # "slot" /\ v.pc # "slot" /\ Takes(proc[p], v, None, 0)
    BY <1>1, <1>2, <2>1
  <2> QED
    BY <2>1, <2>2, <2>3, <2>4, QuietStep
<1>5. CASE StartWait(p, r)
  <2>1. Takes(r, r, None, 0)
    BY TakesNone
  <2> QED
    BY <1>1, <1>2, <1>5, <2>1, WaitStep
<1>6. CASE /\ ~buf[r.bh].lock
           /\ buf' = [buf EXCEPT ![r.bh].lock = TRUE]
           /\ Go(p, At(p, "slot"))
           /\ UNCHANGED <<requests, disk>>
  <2>1. PICK v \in Places :
              /\ v = [r EXCEPT !.pc = "slot"]
              /\ v.pc = "slot" /\ v.bh = r.bh /\ Alike(v, r) /\ v.ret = r.ret /\ v.then = r.then
              /\ v.i = r.i /\ v.rw = r.rw
    BY AtPlace, Names
  <2>2. Stage(v)
    BY <1>2, <1>3, <2>1 DEF Ready, Stage, Searching, Alike
  <2>3. InList(v, free_list) /\ Found(v)
    BY <1>2, <1>3, <2>1 DEF Ready, InList, Found, Alike
  <2>4. Takes(r, v, None, 0)
    <3>1. "slot" \in Holding /\ "rw" \in Holding
      BY DEF Holding
    <3> QED
      BY <1>2, <1>3, <2>1, <3>1 DEF Takes, Refs, Bit, Alike
  <2>5. Moves(p, v)
    BY <1>1, <1>2, <1>6, <2>1 DEF Go, At, Moves
  <2>6. buf[r.bh].blk # None
    BY <1>1, <1>2, <1>3, HeldHasBlock DEF Holding
  <2>7. buf \in [Bufs -> Buffers] /\ queue \in Seq(Requests)
    BY DEF IInv, Types
  <2>8. PICK x \in Buffers : x = buf[r.bh]
    BY <1>3, <2>7
  <2>9. PICK w : w = [x EXCEPT !.lock = TRUE]
    OBVIOUS
  <2>10. w \in Buffers /\ w.blk = x.blk /\ w.count = x.count /\ w.lock = TRUE
    BY <2>9 DEF Buffers
  <2>11. /\ buf' = [buf EXCEPT ![r.bh] = w] /\ queue' = queue /\ moved' = moved /\ disk' = disk
         /\ Takes(proc[p], v, None, 0) /\ Ready(v) /\ proc[p].pc # "slot"
    BY <1>1, <1>2, <1>6, <2>1, <2>2, <2>3, <2>4, <2>8, <2>9 DEF requests, Ready
  <2>12. Frame'
    BY <1>3, <2>5, <2>6, <2>7, <2>8, <2>10, <2>11, FieldStep
  <2>13. Owned'
    <3>1. Locks(r.bh, TRUE)
      BY <1>3, <2>7, <2>10, <2>11 DEF Locks
    <3> QED
      BY <1>3, <1>6, <2>1, <2>5, <2>11, <3>1, OwnedLocked DEF IInv, Moves
  <2> QED
    BY <2>12, <2>13 DEF IInv, Frame
<1> QED
  BY <1>1, <1>4, <1>5, <1>6 DEF make_request

\* The buffer has gone into the queue.
LEMMA QueuedKeeps ==
    ASSUME IInv, NEW p \in Procs, NEW r \in Places, r = proc[p], Ready(r), ~r.waiting,
           r.pc = "slot", current \in {None, p}, r.bh \in Bufs,
           queue' \in Seq(Requests), Once(queue'), NEW y \in {"READ", "WRITE"},
           Gains(queue, queue', r.bh, y),
           buf' = [buf EXCEPT ![r.bh].dirt = FALSE], Go(p, Done(p)),
           moved' = moved, disk' = disk, free_list' = free_list
    PROVE  IInv'
<1>1. PICK v \in Places :
              /\ v = Done(p) /\ v.pc = r.ret /\ v.ret = "user" /\ v.pc \notin {"user", "slot"}
              /\ v.bh = r.bh /\ Alike(v, r) /\ v.then = r.then /\ v.i = r.i
              /\ Ready(v) /\ Takes(r, v, None, 0)
  BY DoneIs
<1>2. Moves(p, v)
  BY <1>1 DEF Moves, Go
<1>3. buf[r.bh].blk # None /\ r.bh \in ToSet(free_list)
  <2>1. buf[r.bh].blk # None
    BY HeldHasBlock DEF Holding
  <2> QED
    BY <2>1, BufferOf
<1>4. buf \in [Bufs -> Buffers]
  BY DEF IInv, Types
<1>5. PICK x \in Buffers : x = buf[r.bh]
  BY <1>4
<1>6. PICK w : w = [x EXCEPT !.dirt = FALSE]
  OBVIOUS
<1>7. w \in Buffers /\ w.blk = x.blk /\ w.count = x.count /\ w.lock = x.lock
  BY <1>6 DEF Buffers
<1>8. buf' = [buf EXCEPT ![r.bh] = w]
  BY <1>5, <1>6
<1>9. Frame'
  BY <1>1, <1>2, <1>3, <1>5, <1>7, <1>8, FieldStep
<1>10. Owned'
  <2>1. SameLocks
    BY <1>4, <1>5, <1>7, <1>8 DEF SameLocks
  <2>2. proc' = [proc EXCEPT ![p] = v] /\ v.pc # "slot" /\ Types /\ Owned /\ proc[p].pc = "slot"
    BY <1>1, <1>2 DEF Moves, IInv
  <2> QED
    BY <2>1, <2>2, OwnedQueued
<1> QED
  BY <1>9, <1>10 DEF IInv, Frame

LEMMA make_request_loopKeeps ==
    ASSUME IInv, NEW p \in Procs, make_request_loop(p), free_list' = free_list
    PROVE  IInv'
<1>1. PICK r \in Places : r = proc[p]
  BY ProcessOf
<1>2. Ready(r) /\ r.pc = "slot" /\ ~r.waiting /\ current \in {None, p}
  BY <1>1, ProcessOf DEF make_request_loop, Turn
<1>3. r.bh # None /\ r.bh \in ToSet(free_list) /\ r.bh \in Bufs /\ None \notin Bufs
  BY <1>2, ListIs DEF Ready, Stage, InList
<1>4. queue \in Seq(Requests) /\ Once(queue) /\ ~In(queue, r.bh) /\ Len(queue) \in Nat
  <2>1. queue \in Seq(Requests) /\ Once(queue)
    BY DEF IInv, Types, Owned
  <2>2. InLoop(p, r.bh)
    BY <1>1, <1>2 DEF InLoop
  <2> QED
    BY <1>3, <2>1, <2>2 DEF IInv, Owned
<1>5. moved' = moved /\ disk' = disk
  BY DEF make_request_loop
<1>6. buf[r.bh].blk # None
  BY <1>1, <1>2, <1>3, HeldHasBlock DEF Holding
<1>7. buf \in [Bufs -> Buffers] /\ proc \in [Procs -> Places]
  BY DEF IInv, Types
<1>8. CASE /\ Joinable(r.rw, r.bh) # {}
           /\ queue' = Joined(Min(Joinable(r.rw, r.bh)), r.bh)
           /\ buf' = [buf EXCEPT ![r.bh].dirt = FALSE]
           /\ Go(p, Done(p))
  <2>1. Joinable(r.rw, r.bh) \subseteq 2 .. Len(queue)
    BY DEF Joinable
  <2>2. PICK k \in 1 .. Len(queue) : k = Min(Joinable(r.rw, r.bh))
    <3>1. Joinable(r.rw, r.bh) \subseteq Nat
      BY <1>4, <2>1
    <3>2. Min(Joinable(r.rw, r.bh)) \in Joinable(r.rw, r.bh)
      BY <1>8, <3>1, MinIsLeast
    <3>3. \A j \in 2 .. Len(queue) : j \in 1 .. Len(queue)
      BY <1>4
    <3> QED
      BY <2>1, <3>2, <3>3
  <2>3. queue' = Joined(k, r.bh)
    BY <1>8, <2>2
  <2>4. Longer(queue, k, r.bh, queue')
    BY <2>3, Zenon DEF Joined, Longer
  <2>5. queue' \in Seq(Requests) /\ Once(queue')
        /\ \A c, x : Has(queue', c, x) <=> Has(queue, c, x) \/ (c = r.bh /\ x = queue[k].cmd)
    BY <1>3, <1>4, <2>4, Lengthened
  <2>6. PICK y \in {"READ", "WRITE"} : y = queue[k].cmd
    BY <1>4, RequestOf
  <2>7. Gains(queue, queue', r.bh, y)
    BY <2>5, <2>6 DEF Gains
  <2> QED
    BY <1>1, <1>2, <1>3, <1>5, <1>8, <2>5, <2>7, QueuedKeeps
<1>9. CASE /\ \E s \in Free(r.rw) :
                queue' = Insert([cmd |-> cmd(r.rw), bhs |-> <<r.bh>>, slot |-> s])
           /\ buf' = [buf EXCEPT ![r.bh].dirt = FALSE]
           /\ Go(p, Done(p))
  <2>1. PICK s \in Free(r.rw) :
           queue' = Insert([cmd |-> cmd(r.rw), bhs |-> <<r.bh>>, slot |-> s])
    BY <1>9
  <2>2. s \in {"low", "high"} /\ cmd(r.rw) \in {"READ", "WRITE"} /\ <<r.bh>> \in Seq(Bufs)
    <3>1. s \in IF cmd(r.rw) = "READ" THEN {"low", "high"} ELSE {"low"}
      BY DEF Free
    <3> QED
      BY <1>3, <3>1 DEF cmd
  <2>3. PICK z \in Requests : z = [cmd |-> cmd(r.rw), bhs |-> <<r.bh>>, slot |-> s]
    BY <2>2 DEF Requests
  <2>4. z.cmd = cmd(r.rw) /\ z.bhs = <<r.bh>> /\ queue' = Insert(z)
    BY <2>1, <2>3
  <2>5. /\ queue' \in Seq(Requests)
        /\ \E m \in 1 .. Len(queue) + 1 : Put(queue, queue', z, m)
    BY <1>4, <2>4, InsertPuts
  <2>6. PICK m \in 1 .. Len(queue) + 1 : Put(queue, queue', z, m)
    BY <2>5
  <2>7. /\ Once(queue')
        /\ \A c, x : Has(queue', c, x) <=> Has(queue, c, x) \/ (c = r.bh /\ x = z.cmd)
    BY <1>3, <1>4, <2>4, <2>5, <2>6, Inserted
  <2>8. PICK y \in {"READ", "WRITE"} : y = z.cmd
    BY <2>2, <2>4
  <2>9. Gains(queue, queue', r.bh, y)
    BY <2>7, <2>8 DEF Gains
  <2> QED
    BY <1>1, <1>2, <1>3, <1>5, <1>9, <2>5, <2>7, <2>9, QueuedKeeps
<1>10. CASE /\ buf' = [buf EXCEPT ![r.bh].lock = FALSE]
            /\ Go(p, Done(p))
            /\ UNCHANGED queue
  <2>1. PICK v \in Places :
              /\ v = Done(p) /\ v.pc = r.ret /\ v.ret = "user" /\ v.pc \notin {"user", "slot"}
              /\ v.bh = r.bh /\ Alike(v, r) /\ v.then = r.then /\ v.i = r.i
              /\ Ready(v) /\ Takes(r, v, None, 0)
    BY <1>1, <1>2, DoneIs
  <2>2. Moves(p, v)
    BY <1>2, <1>10, <2>1 DEF Moves, Go
  <2>3. PICK x \in Buffers : x = buf[r.bh]
    BY <1>3, <1>7
  <2>4. PICK w : w = [x EXCEPT !.lock = FALSE]
    OBVIOUS
  <2>5. w \in Buffers /\ w.blk = x.blk /\ w.count = x.count /\ w.lock = FALSE
    BY <2>4 DEF Buffers
  <2>6. /\ buf' = [buf EXCEPT ![r.bh] = w] /\ queue' = queue
        /\ Takes(proc[p], v, None, 0) /\ proc[p].pc = "slot" /\ proc[p].bh = r.bh
    BY <1>1, <1>2, <1>10, <2>1, <2>3, <2>4
  <2>7. Frame'
    BY <1>3, <1>4, <1>5, <1>6, <2>1, <2>2, <2>3, <2>5, <2>6, FieldStep
  <2>8. Owned'
    <3>1. Locks(r.bh, FALSE)
      BY <1>3, <1>7, <2>5, <2>6 DEF Locks
    <3>2. v.pc # "slot" /\ proc' = [proc EXCEPT ![p] = v] /\ Types /\ Owned
      BY <2>1, <2>2 DEF Moves, IInv
    <3> QED
      BY <1>3, <2>6, <3>1, <3>2, OwnedGiven
  <2> QED
    BY <2>7, <2>8 DEF IInv, Frame
<1>11. CASE current' = None /\ UNCHANGED <<buf, queue, proc>>
  <2>1. Moves(p, r) /\ Takes(proc[p], r, None, 0)
    BY <1>1, <1>2, <1>7, <1>11, TakesNone DEF Moves
  <2>2. PICK w \in Buffers : w = buf[r.bh]
    BY <1>3, <1>7
  <2>3. buf' = [buf EXCEPT ![r.bh] = w] /\ queue' = queue
    BY <1>7, <1>11, <2>2
  <2>4. Frame'
    BY <1>2, <1>3, <1>4, <1>5, <1>6, <2>1, <2>2, <2>3, FieldStep
  <2>5. Owned'
    BY <1>11, OwnedSame DEF IInv
  <2> QED
    BY <2>4, <2>5 DEF IInv, Frame
<1> QED
  BY <1>1, <1>8, <1>9, <1>10, <1>11 DEF make_request_loop

-----------------------------------------------------------------------------
(* The disk.                                                               *)

\* A buffer under way changes, and keeps its block and its count.
LEMMA DiskStep ==
    ASSUME IInv, NEW b \in Bufs, NEW w \in Buffers, buf[b].lock,
           buf' = [buf EXCEPT ![b] = w], w.blk = buf[b].blk, w.count = buf[b].count,
           queue' \in Seq(Requests), moved' \in BOOLEAN, disk' \in [Blocks -> Contents \cup {None}],
           proc' = proc, current' = current, free_list' = free_list
    PROVE  Frame'
<1>1. buf \in [Bufs -> Buffers] /\ w.blk # None
  BY InUse DEF IInv, Types
<1>2. buf'[b] = w /\ \A c \in Bufs : c # b => buf'[c] = buf[c]
  BY <1>1
<1>3. \A c \in Bufs : buf'[c].blk = buf[c].blk /\ buf'[c].count = buf[c].count
  BY <1>2
<1>4. buf' \in [Bufs -> Buffers]
  BY <1>1
<1>5. Types'
  BY <1>4 DEF IInv, Types
<1>6. RefsExact'
  BY <1>3 DEF IInv, RefsExact, Waits, Holds, Keeps
<1>7. Blank'
  <2>1. Blank
    BY DEF IInv
  <2>2. ASSUME NEW c \in Bufs, buf'[c].blk = None PROVE buf'[c] = Unused
    BY <1>1, <1>2, <2>1, <2>2 DEF Blank
  <2>3. ASSUME NEW c \in Bufs \ ToSet(free_list) PROVE buf'[c].blk = None
    BY <1>3, <2>1 DEF Blank
  <2> QED
    BY <2>2, <2>3 DEF Blank, Unused
<1>8. BlockOnce'
  BY <1>3 DEF IInv, BlockOnce
<1>9. ASSUME NEW q \in Procs
      PROVE  Stage(proc[q])' /\ Runs(q)' /\ InList(proc[q], free_list)' /\ Found(proc[q])'
  <2>1. PICK r \in Places : r = proc[q]
    BY ProcessOf
  <2>2. Ready(r) /\ Runs(q) /\ proc'[q] = r
    BY <2>1, ProcessOf
  <2>3. Stage(proc[q])' /\ InList(proc[q], free_list)'
    BY <2>2 DEF Ready, Stage, Searching, InList
  <2>4. Runs(q)'
    BY <2>2 DEF Runs
  <2>5. /\ r.first # None => r.first \in Bufs
        /\ r.bh # None => r.bh \in Bufs
        /\ r.pc \in {"got", "bread", "readahead", "rw", "slot"} => r.bh # None
    BY <2>2 DEF Ready, Places, Stage
  <2>6. Found(proc[q])'
    BY <1>3, <2>2, <2>5 DEF Ready, Found
  <2> QED
    BY <2>3, <2>4, <2>6
<1> QED
  BY <1>5, <1>6, <1>7, <1>8, <1>9 DEF Frame

\* The buffer at the head of the queue.
LEMMA Current ==
    ASSUME IInv, queue # <<>>
    PROVE  /\ Head(Head(queue).bhs) \in Bufs /\ buf[Head(Head(queue).bhs)].lock
           /\ buf[Head(Head(queue).bhs)].blk \in Blocks
           /\ Has(queue, Head(Head(queue).bhs), Head(queue).cmd)
           /\ Head(queue).cmd \in {"READ", "WRITE"}
<1> DEFINE b == Head(Head(queue).bhs)
<1>1. queue \in Seq(Requests) /\ Once(queue)
  BY DEF IInv, Types, Owned
<1>2. b \in Bufs /\ Has(queue, b, Head(queue).cmd)
  BY <1>1, Ended
<1> HIDE DEF b
<1>3. In(queue, b)
  BY <1>2 DEF Has, In
<1>4. buf[b].lock
  BY <1>2, <1>3 DEF IInv, Owned
<1>5. buf[b].blk # None /\ buf[b] \in Buffers
  BY <1>2, <1>4, InUse, BufferOf
<1>6. buf[b].blk \in Blocks
  BY <1>5 DEF Buffers
<1>7. Head(queue) \in Requests
  BY <1>1
<1> QED
  BY <1>2, <1>4, <1>6, <1>7 DEF b, Requests

LEMMA DiskTransferKeeps ==
    ASSUME IInv, DiskTransfer
    PROVE  IInv'
<1>1. queue # <<>> /\ Transfer /\ free_list' = free_list
  BY DEF DiskTransfer, Transfer, cache
<1>2. PICK b \in Bufs : b = Head(Head(queue).bhs) /\ buf[b].lock /\ buf[b].blk \in Blocks
  BY <1>1, Current
<1>3. /\ buf \in [Bufs -> Buffers] /\ queue \in Seq(Requests)
      /\ disk \in [Blocks -> Contents \cup {None}]
  BY DEF IInv, Types
<1>4. moved' = TRUE /\ queue' = queue /\ proc' = proc /\ current' = current
  BY <1>1 DEF Transfer
<1>5. PICK x \in Buffers : x = buf[b]
  BY <1>3
<1>6. CASE /\ buf' = [buf EXCEPT ![b].data = disk[buf[b].blk]]
           /\ UNCHANGED disk
  <2>1. PICK d \in Contents \cup {None} : d = disk[buf[b].blk]
    BY <1>2, <1>3
  <2>2. PICK w : w = [x EXCEPT !.data = d]
    OBVIOUS
  <2>3. w \in Buffers /\ w.blk = x.blk /\ w.count = x.count /\ w.lock = x.lock
    BY <2>2 DEF Buffers
  <2>4. buf' = [buf EXCEPT ![b] = w] /\ disk' = disk
    BY <1>5, <1>6, <2>1, <2>2
  <2>5. Frame'
    BY <1>1, <1>2, <1>3, <1>4, <1>5, <2>3, <2>4, DiskStep
  <2>6. Owned'
    <3>1. SameLocks
      BY <1>3, <1>5, <2>3, <2>4 DEF SameLocks
    <3> QED
      BY <1>4, <3>1, OwnedSame DEF IInv
  <2> QED
    BY <2>5, <2>6 DEF IInv, Frame
<1>7. CASE /\ disk' = [disk EXCEPT ![buf[b].blk] = buf[b].data]
           /\ UNCHANGED buf
  <2>1. disk' \in [Blocks -> Contents \cup {None}]
    <3>1. x.data \in Contents \cup {None}
      BY DEF Buffers
    <3> QED
      BY <1>3, <1>5, <1>7, <3>1
  <2>2. buf' = [buf EXCEPT ![b] = x]
    BY <1>3, <1>5, <1>7
  <2>3. Frame'
    BY <1>1, <1>2, <1>3, <1>4, <1>5, <2>1, <2>2, DiskStep
  <2>4. Owned'
    <3>1. SameLocks
      BY <1>7 DEF SameLocks
    <3> QED
      BY <1>4, <3>1, OwnedSame DEF IInv
  <2> QED
    BY <2>3, <2>4 DEF IInv, Frame
<1> QED
  BY <1>1, <1>2, <1>6, <1>7 DEF Transfer

LEMMA end_requestKeeps ==
    ASSUME IInv, NEW u \in BOOLEAN, end_request(u), free_list' = free_list
    PROVE  IInv'
<1>1. queue # <<>>
  BY DEF end_request
<1>2. PICK b \in Bufs : b = Head(Head(queue).bhs) /\ buf[b].lock
  BY <1>1, Current
<1>3. buf \in [Bufs -> Buffers] /\ disk \in [Blocks -> Contents \cup {None}]
  BY DEF IInv, Types
<1>4. /\ queue' = Shorter(queue) /\ moved' = FALSE
      /\ disk' = disk /\ proc' = proc /\ current' = current
  BY DEF end_request, Shorter
<1>5. PICK x \in Buffers : x = buf[b]
  BY <1>3
<1>6. PICK w : w = [x EXCEPT !.uptodate = u, !.lock = FALSE]
  OBVIOUS
<1>7. w \in Buffers /\ w.blk = x.blk /\ w.count = x.count /\ w.lock = FALSE
  BY <1>6 DEF Buffers
<1>8. buf' = [buf EXCEPT ![b] = w]
  <2>1. buf' = [buf EXCEPT ![b].uptodate = u, ![b].lock = FALSE]
    BY <1>2 DEF end_request
  <2> QED
    BY <1>3, <1>5, <1>6, <2>1
<1>9. Owned' /\ queue' \in Seq(Requests)
  <2>1. Locks(b, FALSE)
    BY <1>3, <1>7, <1>8 DEF Locks
  <2>2. Types /\ Owned /\ Locks(Head(Head(queue).bhs), FALSE)
    BY <1>2, <2>1 DEF IInv
  <2> QED
    BY <1>1, <1>4, <2>2, OwnedEnded
<1>10. Frame'
  BY <1>2, <1>3, <1>4, <1>5, <1>7, <1>8, <1>9, DiskStep
<1> QED
  BY <1>9, <1>10 DEF IInv, Frame

-----------------------------------------------------------------------------
(* The theorems.                                                           *)

LEMMA InitHolds == Init => IInv
<1> SUFFICES ASSUME Init PROVE IInv
  OBVIOUS
<1>1. /\ buf = [b \in Bufs |-> Unused] /\ queue = <<>> /\ moved = FALSE
      /\ proc = [p \in Procs |-> Idle] /\ current = None
  BY DEF Init
<1>2. Unused \in Buffers /\ Unused.blk = None /\ Unused.count = 0 /\ Unused.lock = FALSE
  BY DEF Unused, Buffers
<1>3. free_list \in Seq(Bufs) /\ free_list # <<>>
  <2>1. MinBuffers \in Nat \ {0} /\ free_list \in [1 .. MinBuffers -> Bufs]
    BY MinBuffersAssumption DEF Init
  <2>2. free_list \in Seq(Bufs)
    BY <2>1
  <2>3. 1 \in DOMAIN free_list /\ 1 \notin DOMAIN <<>>
    BY <2>1
  <2> QED
    BY <2>2, <2>3
<1>4. disk \in [Blocks -> Contents \cup {None}]
  BY DEF Init
<1>5. Types
  <2>1. buf \in [Bufs -> Buffers]
    BY <1>1, <1>2
  <2>2. proc \in [Procs -> Places]
    BY <1>1, IdleReady
  <2>3. queue \in Seq(Requests) /\ moved \in BOOLEAN
    <3>1. <<>> \in Seq(Requests)
      OBVIOUS
    <3> QED
      BY <1>1, <3>1, Zenon
  <2> QED
    BY <1>3, <1>4, <2>1, <2>2, <2>3, Zenon DEF Types
<1>6. \A p \in Procs : Stage(proc[p]) /\ Runs(p) /\ InList(proc[p], free_list) /\ Found(proc[p])
  BY <1>1, IdleReady DEF Ready, Runs
<1>7. RefsExact
  <2> SUFFICES ASSUME NEW b \in Bufs
               PROVE  buf[b].count = Cardinality({p \in Procs : Waits(p, b)})
                                   + Cardinality({p \in Procs : Holds(p, b)})
                                   + Cardinality({p \in Procs : Keeps(p, b)})
    BY DEF RefsExact
  <2>1. \A p \in Procs : ~Waits(p, b) /\ ~Holds(p, b) /\ ~Keeps(p, b)
    BY <1>1, IdleReady, NoneAssumption DEF Waits, Holds, Keeps
  <2>2. {p \in Procs : Waits(p, b)} = {} /\ {p \in Procs : Holds(p, b)} = {}
        /\ {p \in Procs : Keeps(p, b)} = {}
    BY <2>1
  <2>3. Cardinality({}) = 0
    BY FS_EmptySet
  <2>4. buf[b].count = 0
    BY <1>1, <1>2
  <2>5. 0 = 0 + 0 + 0
    OBVIOUS
  <2> QED
    BY <2>2, <2>3, <2>4, <2>5, Zenon
<1>8. Blank /\ BlockOnce
  BY <1>1, <1>2 DEF Blank, BlockOnce
<1>9. Owned
  <2>1. \A b, k, j : ~Spot(queue, b, k, j)
    BY <1>1 DEF Spot
  <2>2. Once(queue) /\ \A b : ~In(queue, b)
    BY <1>1, <2>1 DEF Once, In
  <2>3. \A b \in Bufs, p \in Procs : ~InLoop(p, b) /\ ~buf[b].lock
    BY <1>1, <1>2, IdleReady DEF InLoop
  <2> QED
    BY <1>1, <1>2, <2>2, <2>3, IdleReady DEF Owned, InLoop
<1> QED
  BY <1>5, <1>6, <1>7, <1>8, <1>9 DEF IInv

LEMMA NothingHappens ==
    ASSUME IInv, UNCHANGED vars
    PROVE  IInv'
<1>1. /\ buf' = buf /\ queue' = queue /\ moved' = moved /\ disk' = disk
      /\ proc' = proc /\ current' = current /\ free_list' = free_list
  BY DEF vars, requests, cache
<1>2. Types' /\ RefsExact' /\ Blank' /\ BlockOnce'
  BY <1>1 DEF IInv, Types, RefsExact, Waits, Holds, Keeps, Blank, BlockOnce
<1>3. (\A p \in Procs : Stage(proc[p]) /\ Runs(p) /\ InList(proc[p], free_list) /\ Found(proc[p]))'
  BY <1>1 DEF IInv, Stage, Searching, Runs, InList, Found
<1>4. Owned'
  BY <1>1, OwnedSame DEF IInv
<1> QED
  BY <1>2, <1>3, <1>4 DEF IInv

LEMMA InterruptKeeps ==
    ASSUME IInv, Interrupt
    PROVE  IInv'
<1>1. CASE DiskTransfer
  BY <1>1, DiskTransferKeeps
<1>2. ASSUME NEW u \in BOOLEAN, end_request(u), UNCHANGED <<cache, history>>
      PROVE  IInv'
  <2>1. free_list' = free_list
    BY <1>2 DEF cache
  <2> QED
    BY <1>2, <2>1, end_requestKeeps
<1> QED
  BY <1>1, <1>2 DEF Interrupt

LEMMA RequestKeeps ==
    ASSUME IInv, NEW p \in Procs, Request(p)
    PROVE  IInv'
<1>1. free_list' = free_list
  BY DEF Request, cache
<1>2. EndWait(p) \/ make_request(p) \/ make_request_loop(p)
  BY DEF Request
<1> QED
  BY <1>1, <1>2, EndWaitKeeps, make_requestKeeps, make_request_loopKeeps

LEMMA ReadingKeeps ==
    ASSUME IInv, NEW p \in Procs, NEW n \in Blocks,
           bread(p, n) \/ \E m \in Blocks : breada(p, n, m)
    PROVE  IInv'
<1>1. CASE bread(p, n)
  <2>1. Turn(p, "user") /\ proc[p].bh = None /\ UNCHANGED <<buf, requests, disk, cache>>
        /\ Go(p, [proc[p] EXCEPT !.pc = "getblk", !.n = n, !.block = n])
    BY <1>1 DEF bread
  <2>2. proc[p] = Idle
    BY <2>1, ProcessOf DEF Ready, Stage, Turn
  <2>3. [Idle EXCEPT !.pc = "getblk", !.n = n, !.block = n]
        = [Idle EXCEPT !.pc = "getblk", !.n = n, !.block = n, !.ahead = None]
    <3>1. PICK i \in Places : i = Idle
      BY IdleReady
    <3>2. i.ahead = None
      BY <3>1 DEF Idle
    <3>3. [i EXCEPT !.pc = "getblk", !.n = n, !.block = n]
          = [i EXCEPT !.pc = "getblk", !.n = n, !.block = n, !.ahead = None]
      BY <3>2 DEF Places
    <3> QED
      BY <3>1, <3>3
  <2>4. Go(p, [proc[p] EXCEPT !.pc = "getblk", !.n = n, !.block = n, !.ahead = None])
    BY <2>1, <2>2, <2>3, Zenon
  <2>5. None \in Blocks \cup {None}
    OBVIOUS
  <2> QED
    BY <2>1, <2>4, <2>5, breadKeeps, Zenon
<1>2. ASSUME NEW m \in Blocks, breada(p, n, m) PROVE IInv'
  <2>1. Turn(p, "user") /\ proc[p].bh = None /\ UNCHANGED <<buf, requests, disk, cache>>
        /\ Go(p, [proc[p] EXCEPT !.pc = "getblk", !.n = n, !.block = n, !.ahead = m])
    BY <1>2 DEF breada
  <2>2. m \in Blocks \cup {None}
    OBVIOUS
  <2> QED
    BY <2>1, <2>2, breadKeeps, Zenon
<1> QED
  BY <1>1, <1>2

LEMMA NextKeeps == IInv /\ [Next]_vars => IInv'
<1> SUFFICES ASSUME IInv, [Next]_vars PROVE IInv'
  OBVIOUS
<1>1. CASE UNCHANGED vars
  BY <1>1, NothingHappens
<1>2. CASE Interrupt
  BY <1>2, InterruptKeeps
<1>3. ASSUME NEW p \in Procs, Request(p) PROVE IInv'
  BY <1>3, RequestKeeps
<1>4. ASSUME NEW p \in Procs, SyncBuffer(p) \/ SyncWrote(p) \/ fsync_dev(p) PROVE IInv'
  BY <1>4, SyncBufferKeeps, SyncWroteKeeps, fsync_devKeeps
<1>5. ASSUME NEW p \in Procs,
             GetHashTable(p) \/ GetblkFound(p) \/ GetblkChoose(p) \/ GetblkTake(p)
      PROVE  IInv'
  BY <1>5, GetHashTableKeeps, GetblkFoundKeeps, GetblkChooseKeeps, GetblkTakeKeeps
<1>6. ASSUME NEW p \in Procs, NEW n \in Blocks, bread(p, n) \/ \E m \in Blocks : breada(p, n, m)
      PROVE  IInv'
  BY <1>6, ReadingKeeps
<1>7. ASSUME NEW p \in Procs, Got(p) \/ ReadAhead(p) \/ AheadDone(p) \/ BreadReturn(p) PROVE IInv'
  BY <1>7, GotKeeps, ReadAheadKeeps, AheadDoneKeeps, BreadReturnKeeps
<1>8. ASSUME NEW p \in Procs, NEW c \in Contents, Change(p, c) PROVE IInv'
  BY <1>8, ChangeKeeps
<1>9. ASSUME NEW p \in Procs, brelse(p) \/ Released(p) PROVE IInv'
  BY <1>9, brelseKeeps, ReleasedKeeps
<1>10. ASSUME NEW p \in Procs, NEW k \in Priorities, shrink_buffers(p, k) PROVE IInv'
  BY <1>10, shrink_buffersKeeps
<1>11. ASSUME NEW p \in Procs,
              ShrinkStart(p) \/ ShrinkBuffer(p) \/ TryToFree(p) \/ ShrinkWrote(p)
       PROVE  IInv'
  BY <1>11, ShrinkStartKeeps, ShrinkBufferKeeps, TryToFreeKeeps, ShrinkWroteKeeps
<1> QED
  BY <1>1, <1>2, <1>3, <1>4, <1>5, <1>6, <1>7, <1>8, <1>9, <1>10, <1>11, Zenon DEF Next

\* The invariant holds in every reachable state, for every number of processes,
\* buffers, blocks and request entries, whichever commands may fail.
THEOREM BufferInvariant == Spec => []IInv
<1> QED
  BY InitHolds, NextKeeps, PTL DEF Spec

\* b_count is always the number of references that processes have.
THEOREM CountsStayExact == Spec => []RefsExact
<1>1. IInv => RefsExact
  BY DEF IInv
<1> QED
  BY <1>1, BufferInvariant, PTL

LEMMA OneOwner == IInv => LockHasOwner
<1> SUFFICES ASSUME IInv, NEW b \in Bufs
             PROVE  LET owners == {k \in 1 .. Len(queue) : b \in ToSet(queue[k].bhs)}
                                  \cup {p \in Procs : proc[p].pc = "slot" /\ proc[p].bh = b}
                    IN  Cardinality(owners) = IF buf[b].lock THEN 1 ELSE 0
  BY DEF LockHasOwner
<1> DEFINE R == {k \in 1 .. Len(queue) : b \in ToSet(queue[k].bhs)}
           P == {p \in Procs : proc[p].pc = "slot" /\ proc[p].bh = b}
<1>1. \A k : k \in R <=> \E j : Spot(queue, b, k, j)
  <2>1. \A k \in 1 .. Len(queue) : queue[k].bhs \in Seq(Bufs)
    BY RequestOf DEF IInv, Types
  <2>2. \A k \in 1 .. Len(queue) :
           b \in ToSet(queue[k].bhs) <=> \E j \in 1 .. Len(queue[k].bhs) : queue[k].bhs[j] = b
    BY <2>1, ListOf
  <2> QED
    BY <2>2 DEF Spot
<1>2. \A p : p \in P <=> p \in Procs /\ InLoop(p, b)
  BY DEF InLoop
<1>3. Once(queue) /\ (buf[b].lock <=> In(queue, b) \/ \E p \in Procs : InLoop(p, b))
  BY DEF IInv, Owned
<1>4. \A p \in Procs : InLoop(p, b) =>
          ~In(queue, b) /\ \A q \in Procs : InLoop(q, b) => q = p
  BY DEF IInv, Owned
<1> HIDE DEF R, P
<1>5. CASE In(queue, b)
  <2>1. PICK k, j : Spot(queue, b, k, j)
    BY <1>5 DEF In
  <2>2. P = {}
    BY <1>2, <1>4, <1>5
  <2>3. \A l : l \in R <=> l = k
    BY <1>1, <1>3, <2>1, Zenon DEF Once
  <2>4. R \cup P = {k}
    BY <2>2, <2>3
  <2>5. Cardinality({k}) = 1
    BY FS_Singleton
  <2> QED
    BY <1>3, <1>5, <2>4, <2>5 DEF R, P
<1>6. CASE ~In(queue, b) /\ \E p \in Procs : InLoop(p, b)
  <2>1. PICK p \in Procs : InLoop(p, b)
    BY <1>6
  <2>2. R = {}
    BY <1>1, <1>6 DEF In
  <2>3. \A q : q \in P <=> q = p
    BY <1>2, <1>4, <2>1
  <2>4. R \cup P = {p}
    BY <2>2, <2>3
  <2>5. Cardinality({p}) = 1
    BY FS_Singleton
  <2> QED
    BY <1>3, <1>6, <2>4, <2>5 DEF R, P
<1>7. CASE ~In(queue, b) /\ ~\E p \in Procs : InLoop(p, b)
  <2>1. R = {} /\ P = {}
    BY <1>1, <1>2, <1>7 DEF In
  <2>2. R \cup P = {}
    BY <2>1
  <2>3. Cardinality({}) = 0
    BY FS_EmptySet
  <2> QED
    BY <1>3, <1>7, <2>2, <2>3 DEF R, P
<1> QED
  BY <1>5, <1>6, <1>7

\* A locked buffer always has exactly one owner that will unlock it, a request
\* of the queue or a process in the loop of make_request, and no other buffer
\* has one.
THEOREM LocksStayOwned == Spec => []LockHasOwner
<1> QED
  BY OneOwner, BufferInvariant, PTL

\* No block is ever in two buffers, although getblk sleeps between the look-up
\* and the time it takes a buffer.
THEOREM BlocksStayUnique == Spec => []BlockOnce
<1>1. IInv => BlockOnce
  BY DEF IInv
<1> QED
  BY <1>1, BufferInvariant, PTL

\* sync_buffers and shrink_buffers, which sleep in the middle of the list of
\* buffers, never go on from a buffer that has been freed meanwhile, and none
\* that a process refers to is ever off the list.
THEOREM LoopsStayOnList == Spec => [](\A p \in Procs : InList(proc[p], free_list))
<1>1. IInv => \A p \in Procs : InList(proc[p], free_list)
  BY DEF IInv
<1> QED
  BY <1>1, BufferInvariant, PTL

-----------------------------------------------------------------------------
(* The cache implements BlockStore, if no write fails.                      *)

\* A clean buffer that is not under way holds what the disk has.
Faithful(x) ==
    /\ x.dirt => x.uptodate
    /\ ~x.lock /\ x.uptodate /\ ~x.dirt => x.data = disk[x.blk]

\* Whoever has locked a buffer has something to write, or reads what is not there.
Asks(r) == IF cmd(r.rw) = "WRITE" THEN buf[r.bh].dirt ELSE ~buf[r.bh].uptodate

\* The buffer under way.
First(q) == Head(Head(q).bhs)

Data ==
    /\ \A b \in Bufs : Faithful(buf[b])
    /\ \A b \in Bufs : /\ Has(queue, b, "WRITE") => buf[b].uptodate
                       /\ Has(queue, b, "READ") => ~buf[b].uptodate
    /\ \A p \in Procs : proc[p].pc = "slot" => Asks(proc[p])
    /\ \A p \in Procs : proc[p].pc = "user" /\ proc[p].bh # None => buf[proc[p].bh].uptodate
    /\ moved => /\ queue # <<>>
                /\ LET x == buf[First(queue)] IN x.dirt \/ x.data = disk[x.blk]

\* What is visible in the buffers f over the disk d.
Shows(f, b, n) == f[b].blk = n /\ f[b].uptodate
View(f, d, n) ==
    LET bs == {b \in Bufs : Shows(f, b, n)}
    IN  IF bs = {} THEN d[n] ELSE f[CHOOSE b \in bs : TRUE].data
Single(f) == \A a, b \in Bufs : a # b /\ f[a].blk # None => f[a].blk # f[b].blk

LEMMA ViewIs ==
    ASSUME NEW f, NEW d, Single(f), NEW n \in Blocks
    PROVE  /\ \A b \in Bufs : Shows(f, b, n) => View(f, d, n) = f[b].data
           /\ (\A b \in Bufs : ~Shows(f, b, n)) => View(f, d, n) = d[n]
<1> DEFINE bs == {b \in Bufs : Shows(f, b, n)}
<1>1. View(f, d, n) = IF bs = {} THEN d[n] ELSE f[CHOOSE b \in bs : TRUE].data
  BY DEF View
<1>2. ASSUME NEW b \in Bufs, Shows(f, b, n) PROVE View(f, d, n) = f[b].data
  <2>1. b \in bs
    BY <1>2
  <2>2. \A c \in bs : c = b
    <3>1. n # None
      BY NoneAssumption
    <3> QED
      BY <1>2, <3>1 DEF Single, Shows
  <2> HIDE DEF bs
  <2>3. (CHOOSE c \in bs : TRUE) \in bs
    BY <2>1
  <2>4. (CHOOSE c \in bs : TRUE) = b
    BY <2>2, <2>3
  <2>5. bs # {}
    BY <2>1
  <2> QED
    BY <1>1, <2>4, <2>5, Zenon
<1>3. ASSUME \A b \in Bufs : ~Shows(f, b, n) PROVE View(f, d, n) = d[n]
  BY <1>1, <1>3
<1> QED
  BY <1>2, <1>3

\* A buffer that holds what the disk has does not show.
Plain(f, d, b) == f[b].uptodate => f[b].data = d[f[b].blk]
Same(f, g, b) ==
    g[b].blk = f[b].blk /\ g[b].uptodate = f[b].uptodate /\ g[b].data = f[b].data

LEMMA ViewKept ==
    ASSUME NEW f, NEW g, NEW d, Single(f), Single(g), NEW n \in Blocks,
           \A b \in Bufs : Same(f, g, b) \/ (Plain(f, d, b) /\ Plain(g, d, b))
    PROVE  View(g, d, n) = View(f, d, n)
<1>1. CASE \E b \in Bufs : Shows(f, b, n) /\ Same(f, g, b)
  <2>1. PICK b \in Bufs : Shows(f, b, n) /\ Same(f, g, b)
    BY <1>1
  <2>2. Shows(g, b, n) /\ g[b].data = f[b].data
    BY <2>1 DEF Shows, Same
  <2> QED
    BY <2>1, <2>2, ViewIs
<1>2. CASE ~\E b \in Bufs : Shows(f, b, n) /\ Same(f, g, b)
  <2>1. View(f, d, n) = d[n]
    <3>1. \A b \in Bufs : Shows(f, b, n) => f[b].data = d[n]
      BY <1>2 DEF Plain, Shows
    <3>2. CASE \E b \in Bufs : Shows(f, b, n)
      BY <3>1, <3>2, ViewIs
    <3>3. CASE \A b \in Bufs : ~Shows(f, b, n)
      BY <3>3, ViewIs
    <3> QED
      BY <3>2, <3>3
  <2>2. View(g, d, n) = d[n]
    <3>1. \A b \in Bufs : Shows(g, b, n) => g[b].data = d[n]
      BY <1>2 DEF Plain, Shows, Same
    <3>2. CASE \E b \in Bufs : Shows(g, b, n)
      BY <3>1, <3>2, ViewIs
    <3>3. CASE \A b \in Bufs : ~Shows(g, b, n)
      BY <3>3, ViewIs
    <3> QED
      BY <3>2, <3>3
  <2> QED
    BY <2>1, <2>2
<1> QED
  BY <1>1, <1>2

LEMMA Views ==
    /\ \A n : Visible(n) = View(buf, disk, n) /\ Visible(n)' = View(buf', disk', n)
    /\ (BlockOnce <=> Single(buf)) /\ (BlockOnce' <=> Single(buf'))
<1>1. ASSUME NEW n PROVE Visible(n) = View(buf, disk, n)
  <2> DEFINE A == {b \in find_buffer(n) : buf[b].uptodate}   B == {b \in Bufs : Shows(buf, b, n)}
  <2>1. A = B
    BY DEF find_buffer, Shows
  <2>2. Visible(n) = IF A = {} THEN disk[n] ELSE buf[CHOOSE b \in A : TRUE].data
    BY DEF Visible
  <2>3. View(buf, disk, n) = IF B = {} THEN disk[n] ELSE buf[CHOOSE b \in B : TRUE].data
    BY DEF View
  <2> HIDE DEF A, B
  <2> QED
    BY <2>1, <2>2, <2>3, Zenon
<1>2. ASSUME NEW n PROVE Visible(n)' = View(buf', disk', n)
  <2> DEFINE A == {b \in find_buffer(n)' : buf'[b].uptodate}   B == {b \in Bufs : Shows(buf', b, n)}
  <2>1. A = B
    BY DEF find_buffer, Shows
  <2>2. Visible(n)' = IF A = {} THEN disk'[n] ELSE buf'[CHOOSE b \in A : TRUE].data
    BY DEF Visible
  <2>3. View(buf', disk', n) = IF B = {} THEN disk'[n] ELSE buf'[CHOOSE b \in B : TRUE].data
    BY DEF View
  <2> HIDE DEF A, B
  <2> QED
    BY <2>1, <2>2, <2>3, Zenon
<1> QED
  BY <1>1, <1>2 DEF BlockOnce, Single

\* What the file systems see.
Shown == [n \in Blocks |-> Visible(n)]
Opened == [p \in Procs |-> IF proc[p].pc = "user" THEN proc[p].n ELSE None]
Unseen == Shown' = Shown /\ Opened' = Opened

\* Process at place r has no block at hand.
Inside(r) == r.pc = "user" => r.bh = None /\ r.n = None
SameData ==
    \A c \in Bufs : /\ buf'[c].blk = buf[c].blk /\ buf'[c].uptodate = buf[c].uptodate
                    /\ buf'[c].dirt = buf[c].dirt /\ buf'[c].lock = buf[c].lock
                    /\ buf'[c].data = buf[c].data

LEMMA InsideOf ==
    ASSUME IInv, NEW p \in Procs, proc[p].pc # "user" \/ proc[p].bh = None
    PROVE  Inside(proc[p])
<1>1. CASE proc[p].pc # "user"
  BY <1>1 DEF Inside
<1>2. CASE proc[p].pc = "user" /\ proc[p].bh = None
  <2>1. proc[p] = Idle
    BY <1>2, ProcessOf DEF Ready, Stage
  <2> QED
    BY <2>1, IdleReady DEF Inside
<1> QED
  BY <1>1, <1>2

\* What the file systems see does not change, if the buffers keep what they
\* show or show what the disk has, and nobody opens or closes.
LEMMA ShownKept ==
    ASSUME IInv, IInv', disk' = disk,
           \A b \in Bufs : Same(buf, buf', b) \/ (Plain(buf, disk, b) /\ Plain(buf', disk, b))
    PROVE  Shown' = Shown
<1>1. Single(buf) /\ Single(buf')
  BY Views DEF IInv
<1>2. \A n \in Blocks : View(buf', disk, n) = View(buf, disk, n)
  BY <1>1, ViewKept
<1>3. \A n \in Blocks : Visible(n)' = Visible(n)
  BY <1>2, Views
<1> QED
  BY <1>3 DEF Shown

LEMMA OpenedKept ==
    ASSUME IInv, NEW p \in Procs, NEW v, proc' = [proc EXCEPT ![p] = v],
           Inside(proc[p]), Inside(v)
    PROVE  Opened' = Opened
<1>1. proc'[p] = v /\ \A q \in Procs : q # p => proc'[q] = proc[q]
  BY DEF IInv, Types
<1> QED
  BY <1>1 DEF Opened, Inside

\* Only counts and the place of a process change.
LEMMA InsideStep ==
    ASSUME IInv, IInv', Data, NEW p \in Procs, NEW v, proc' = [proc EXCEPT ![p] = v],
           Inside(proc[p]), Inside(v), v.pc # "slot", SameData,
           queue' = queue, moved' = moved, disk' = disk
    PROVE  Data' /\ Unseen
<1>1. proc'[p] = v /\ \A q \in Procs : q # p => proc'[q] = proc[q]
  BY DEF IInv, Types
<1>2. ASSUME NEW b \in Bufs PROVE Faithful(buf[b])'
  <2>1. Faithful(buf[b])
    BY DEF Data
  <2> QED
    BY <2>1 DEF Faithful, SameData
<1>3. ASSUME NEW b \in Bufs
      PROVE  (Has(queue, b, "WRITE") => buf[b].uptodate)' /\ (Has(queue, b, "READ") => ~buf[b].uptodate)'
  <2>1. (Has(queue, b, "WRITE") => buf[b].uptodate) /\ (Has(queue, b, "READ") => ~buf[b].uptodate)
    BY DEF Data
  <2>2. Has(queue', b, "WRITE") = Has(queue, b, "WRITE") /\ Has(queue', b, "READ") = Has(queue, b, "READ")
    OBVIOUS
  <2>3. buf'[b].uptodate = buf[b].uptodate
    BY DEF SameData
  <2> QED
    BY <2>1, <2>2, <2>3
<1>4. ASSUME NEW q \in Procs, proc'[q].pc = "slot" PROVE Asks(proc[q])'
  <2>1. q # p /\ proc'[q] = proc[q] /\ Asks(proc[q])
    BY <1>1, <1>4 DEF Data
  <2>2. proc[q].bh \in Bufs
    BY <1>4, <2>1, ProcessOf DEF Ready, Stage, Places
  <2> QED
    BY <2>1, <2>2 DEF Asks, SameData, cmd
<1>5. ASSUME NEW q \in Procs, proc'[q].pc = "user", proc'[q].bh # None
      PROVE  buf'[proc'[q].bh].uptodate
  <2>1. q # p
    BY <1>1, <1>5 DEF Inside
  <2>2. proc'[q] = proc[q] /\ buf[proc[q].bh].uptodate
    BY <1>1, <1>5, <2>1 DEF Data
  <2>3. proc[q].bh \in Bufs
    BY <1>5, <2>2, ProcessOf DEF Places
  <2> QED
    BY <2>2, <2>3 DEF SameData
<1>6. ASSUME moved'
      PROVE  queue' # <<>> /\ LET x == buf'[First(queue')] IN x.dirt \/ x.data = disk'[x.blk]
  <2>1. queue # <<>> /\ (buf[First(queue)].dirt \/ buf[First(queue)].data = disk[buf[First(queue)].blk])
    BY <1>6 DEF Data
  <2>2. First(queue) \in Bufs
    BY <2>1, Current DEF First
  <2>3. First(queue') = First(queue)
    OBVIOUS
  <2> QED
    BY <2>1, <2>2, <2>3 DEF SameData
<1>7. Data'
  BY <1>2, <1>3, <1>4, <1>5, <1>6, Zenon DEF Data
<1>8. Shown' = Shown
  BY ShownKept DEF SameData, Same
<1>9. Opened' = Opened
  BY OpenedKept
<1> QED
  BY <1>7, <1>8, <1>9 DEF Unseen

\* What only changes the count of a buffer.
LEMMA CountOnly ==
    ASSUME IInv, NEW b \in Bufs, NEW d \in Int, Refer(b, d)
    PROVE  SameData
<1>1. buf \in [Bufs -> Buffers]
  BY DEF IInv, Types
<1>2. PICK x \in Buffers : x = buf[b]
  BY <1>1
<1>3. PICK w : w = [x EXCEPT !.count = x.count + d]
  OBVIOUS
<1>4. w.blk = x.blk /\ w.uptodate = x.uptodate /\ w.dirt = x.dirt /\ w.lock = x.lock /\ w.data = x.data
  BY <1>3 DEF Buffers
<1>5. buf' = [buf EXCEPT ![b] = w]
  BY <1>2, <1>3 DEF Refer
<1>6. buf'[b] = w /\ \A c \in Bufs : c # b => buf'[c] = buf[c]
  BY <1>1, <1>5
<1> QED
  BY <1>2, <1>4, <1>6 DEF SameData

\* A step inside the cache: process p, without a block at hand, goes on to
\* another place, and at most a count changes.
Counts == buf' = buf \/ \E b \in Bufs, d \in Int : Refer(b, d)
Inward(p, v) ==
    /\ proc[p].pc # "user" \/ proc[p].bh = None
    /\ proc' = [proc EXCEPT ![p] = v]
    /\ v.pc \notin {"user", "slot"} \/ v = Idle
    /\ Counts /\ queue' = queue /\ moved' = moved /\ disk' = disk

LEMMA StepUnseen ==
    ASSUME IInv, IInv', Data, NEW p \in Procs, NEW v, Inward(p, v)
    PROVE  Data' /\ Unseen
<1>1. Inside(proc[p])
  BY InsideOf DEF Inward
<1>2. Inside(v) /\ v.pc # "slot"
  BY IdleReady DEF Inward, Inside
<1>3. SameData
  <2>1. CASE buf' = buf
    BY <2>1 DEF SameData
  <2>2. ASSUME NEW b \in Bufs, NEW d \in Int, Refer(b, d) PROVE SameData
    BY <2>2, CountOnly
  <2> QED
    BY <2>1, <2>2 DEF Inward, Counts
<1>4. proc' = [proc EXCEPT ![p] = v] /\ queue' = queue /\ moved' = moved /\ disk' = disk
  BY DEF Inward
<1> QED
  BY <1>1, <1>2, <1>3, <1>4, InsideStep

LEMMA ReferCounts ==
    ASSUME NEW b \in Bufs, NEW d \in Int, Refer(b, d)
    PROVE  Counts
  BY DEF Counts

\* The place where a process goes to.
LEMMA WaitingPlace ==
    ASSUME NEW r \in Places, NEW x \in BOOLEAN
    PROVE  [r EXCEPT !.waiting = x].pc = r.pc
  BY DEF Places

LEMMA WaitUnseen ==
    ASSUME IInv, IInv', Data, NEW p \in Procs, NEW r \in Places, StartWait(p, r), r.bh \in Bufs,
           r.pc \notin {"user", "slot"}, proc[p].pc # "user"
    PROVE  Data' /\ Unseen
<1>1. PICK v : v = [r EXCEPT !.waiting = TRUE]
  OBVIOUS
<1>2. v.pc = r.pc
  BY <1>1, WaitingPlace
<1>3. Counts
  <2>1. Refer(r.bh, 1) /\ 1 \in Int
    BY DEF StartWait, Refer
  <2> QED
    BY <2>1, ReferCounts
<1>4. proc' = [proc EXCEPT ![p] = v] /\ queue' = queue /\ moved' = moved /\ disk' = disk
  BY <1>1 DEF StartWait, requests
<1>5. Inward(p, v)
  BY <1>2, <1>3, <1>4 DEF Inward
<1> QED
  BY <1>5, StepUnseen

LEMMA EndWaitUnseen ==
    ASSUME IInv, IInv', Data, NEW p \in Procs, EndWait(p)
    PROVE  Data' /\ Unseen
<1>1. PICK r \in Places : r = proc[p]
  BY ProcessOf
<1>2. r.waiting /\ r.pc \notin {"user", "slot"} /\ r.bh # None
  BY <1>1, ProcessOf DEF EndWait, Ready, Stage
<1>3. r.bh \in Bufs
  BY <1>2 DEF Places
<1>4. PICK v : v = [r EXCEPT !.waiting = FALSE]
  OBVIOUS
<1>5. v.pc = r.pc
  BY <1>4, WaitingPlace
<1>6. Counts
  <2>1. buf' = [buf EXCEPT ![r.bh].count = @ - 1]
    BY <1>1 DEF EndWait
  <2>2. buf \in [Bufs -> Buffers]
    BY DEF IInv, Types
  <2>3. buf' = [buf EXCEPT ![r.bh].count = @ + (-1)]
    <3>1. PICK x \in Buffers : x = buf[r.bh]
      BY <1>3, <2>2
    <3>2. PICK k \in Int : k = x.count
      BY DEF Buffers
    <3>3. k - 1 = k + (-1)
      OBVIOUS
    <3>4. buf[r.bh].count - 1 = buf[r.bh].count + (-1)
      BY <3>1, <3>2, <3>3
    <3> QED
      BY <2>1, <3>4
  <2>4. Refer(r.bh, -1) /\ -1 \in Int
    BY <2>3 DEF Refer
  <2> QED
    BY <1>3, <2>4, ReferCounts
<1>7. proc' = [proc EXCEPT ![p] = v] /\ queue' = queue /\ moved' = moved /\ disk' = disk
  BY <1>1, <1>4 DEF EndWait, Go, requests
<1>8. Inward(p, v)
  BY <1>1, <1>2, <1>5, <1>6, <1>7 DEF Inward
<1> QED
  BY <1>8, StepUnseen

LEMMA SyncBufferUnseen ==
    ASSUME IInv, IInv', Data, NEW p \in Procs, SyncBuffer(p)
    PROVE  Data' /\ Unseen
<1>0. Turn(p, "sync")
  BY DEF SyncBuffer
<1>1. PICK s \in Places : s = SyncSkipped(p) /\ s.pc = "sync" /\ s.bh \in ToSet(free_list)
  BY <1>0, Skipping
<1>2. s.bh \in Bufs /\ proc[p].pc = "sync"
  BY <1>0, <1>1, ListIs DEF Turn
<1>3. CASE Go(p, SyncPass(s)) /\ UNCHANGED <<buf, requests, disk>>
  <2>1. PICK v : v = SyncPass(s)
    OBVIOUS
  <2>2. v.pc \notin {"user", "slot"} \/ v = Idle
    <3>1. CASE s.wait /\ s.retry /\ s.pass < 2
      <4>1. PICK z \in Places : z = SyncStart(s) /\ z.pc = "sync"
        BY Restarting
      <4>2. v = [z EXCEPT !.pass = s.pass + 1]
        BY <2>1, <3>1, <4>1 DEF SyncPass
      <4>3. v.pc = z.pc
        BY <4>2 DEF Places
      <4> QED
        BY <4>1, <4>3
    <3>2. CASE ~(s.wait /\ s.retry /\ s.pass < 2) /\ s.then = "user"
      BY <2>1, <3>2 DEF SyncPass
    <3>3. CASE ~(s.wait /\ s.retry /\ s.pass < 2) /\ s.then # "user"
      <4>1. v = [s EXCEPT !.pc = s.then, !.bh = None, !.wait = FALSE, !.pass = 0, !.retry = FALSE]
        BY <2>1, <3>3 DEF SyncPass
      <4>2. v.pc = s.then
        BY <4>1 DEF Places
      <4>3. s.then \in Thens
        BY DEF Places
      <4> QED
        BY <3>3, <4>2, <4>3 DEF Thens
    <3> QED
      BY <3>1, <3>2, <3>3
  <2>3. proc' = [proc EXCEPT ![p] = v] /\ queue' = queue /\ moved' = moved /\ disk' = disk /\ Counts
    BY <1>3, <2>1 DEF Go, requests, Counts
  <2>4. Inward(p, v)
    BY <1>2, <2>2, <2>3 DEF Inward
  <2> QED
    BY <2>4, StepUnseen
<1>4. CASE StartWait(p, s)
  BY <1>1, <1>2, <1>4, WaitUnseen
<1>5. CASE /\ Refer(s.bh, 1)
           /\ ll_rw_block(p, s, "WRITE", <<s.bh>>, "wrote")
           /\ UNCHANGED disk
  <2>1. "WRITE" \in Rws /\ "wrote" \in Rets
    BY DEF Rws, Rets
  <2>2. queue' = queue /\ moved' = moved
        /\ \E u \in Places : proc' = [proc EXCEPT ![p] = u] /\ u.pc = "rw"
    BY <1>2, <1>5, <2>1, ReadOrWrite
  <2>3. PICK u \in Places : proc' = [proc EXCEPT ![p] = u] /\ u.pc = "rw"
    BY <2>2
  <2>4. Counts /\ disk' = disk
    BY <1>2, <1>5, ReferCounts
  <2>5. Inward(p, u)
    BY <1>2, <2>2, <2>3, <2>4 DEF Inward
  <2> QED
    BY <2>5, StepUnseen
<1> QED
  BY <1>1, <1>3, <1>4, <1>5 DEF SyncBuffer

LEMMA GoUnseen ==
    ASSUME IInv, IInv', Data, NEW p \in Procs, NEW v, Go(p, v),
           v.pc \notin {"user", "slot"} \/ v = Idle, proc[p].pc # "user" \/ proc[p].bh = None,
           Counts, UNCHANGED <<requests, disk>>
    PROVE  Data' /\ Unseen
<1>1. Inward(p, v)
  BY DEF Inward, Go, requests
<1> QED
  BY <1>1, StepUnseen

LEMMA RequestUnseen ==
    ASSUME IInv, IInv', Data, NEW p \in Procs, NEW r \in Places, NEW b \in Bufs,
           NEW rw \in Rws, NEW ret \in Rets, ll_rw_block(p, r, rw, <<b>>, ret),
           proc[p].pc # "user", Counts, disk' = disk
    PROVE  Data' /\ Unseen
<1>1. queue' = queue /\ moved' = moved
      /\ \E u \in Places : proc' = [proc EXCEPT ![p] = u] /\ u.pc = "rw"
  BY ReadOrWrite
<1>2. PICK u \in Places : proc' = [proc EXCEPT ![p] = u] /\ u.pc = "rw"
  BY <1>1
<1>3. Inward(p, u)
  BY <1>1, <1>2 DEF Inward
<1> QED
  BY <1>3, StepUnseen

LEMMA SyncWroteUnseen ==
    ASSUME IInv, IInv', Data, NEW p \in Procs, SyncWrote(p)
    PROVE  Data' /\ Unseen
<1>1. PICK r \in Places : r = proc[p]
  BY ProcessOf
<1>2. r.pc = "wrote" /\ r.bh \in Bufs
  BY <1>1, ProcessOf DEF SyncWrote, Turn, Ready, Stage, Places
<1>3. PICK v : v = [r EXCEPT !.pc = "sync", !.bh = NextFree(free_list, @),
                             !.i = @ - 1, !.retry = TRUE]
  OBVIOUS
<1>4. v.pc = "sync"
  BY <1>3 DEF Places
<1>5. Go(p, v) /\ UNCHANGED <<requests, disk>> /\ Refer(r.bh, -1) /\ -1 \in Int
  BY <1>1, <1>3 DEF SyncWrote
<1>6. Counts
  BY <1>2, <1>5, ReferCounts
<1> QED
  BY <1>1, <1>2, <1>4, <1>5, <1>6, GoUnseen

LEMMA SyncUnseen ==
    ASSUME IInv, IInv', Data, NEW p \in Procs, NEW r \in Places, NEW x, NEW y,
           sync_buffers(p, r, x, y), proc[p].pc # "user" \/ proc[p].bh = None,
           Counts, UNCHANGED <<requests, disk>>
    PROVE  Data' /\ Unseen
<1>1. PICK s \in Places : s = SyncStart(r) /\ s.pc = "sync"
  BY Restarting
<1>2. PICK v : v = [s EXCEPT !.wait = x, !.then = y]
  OBVIOUS
<1>3. v.pc = "sync"
  BY <1>1, <1>2 DEF Places
<1>4. Go(p, v)
  BY <1>1, <1>2 DEF sync_buffers
<1> QED
  BY <1>3, <1>4, GoUnseen

LEMMA fsync_devUnseen ==
    ASSUME IInv, IInv', Data, NEW p \in Procs, fsync_dev(p)
    PROVE  Data' /\ Unseen
<1>1. PICK r \in Places : r = proc[p] /\ r.bh = None
  BY ProcessOf DEF fsync_dev
<1>2. TRUE \in BOOLEAN /\ "user" \in Thens
  BY DEF Thens
<1>3. sync_buffers(p, r, TRUE, "user") /\ UNCHANGED <<requests, disk>> /\ Counts
  BY <1>1 DEF fsync_dev, Counts
<1> QED
  BY <1>1, <1>2, <1>3, SyncUnseen

LEMMA GetHashTableUnseen ==
    ASSUME IInv, IInv', Data, NEW p \in Procs, GetHashTable(p)
    PROVE  Data' /\ Unseen
<1>1. PICK r \in Places : r = proc[p] /\ r.pc = "getblk"
  BY ProcessOf DEF GetHashTable, Turn
<1>2. PICK b \in find_buffer(r.block) :
          Refer(b, 1) /\ Go(p, [r EXCEPT !.pc = "found", !.bh = b])
  BY <1>1 DEF GetHashTable
<1>3. b \in Bufs /\ 1 \in Int
  BY DEF find_buffer
<1>4. PICK v : v = [r EXCEPT !.pc = "found", !.bh = b]
  OBVIOUS
<1>5. v.pc = "found"
  BY <1>4 DEF Places
<1>6. Go(p, v) /\ UNCHANGED <<requests, disk>>
  BY <1>2, <1>4 DEF GetHashTable
<1>7. Counts
  BY <1>2, <1>3, ReferCounts
<1> QED
  BY <1>1, <1>5, <1>6, <1>7, GoUnseen

LEMMA GetblkFoundUnseen ==
    ASSUME IInv, IInv', Data, NEW p \in Procs, GetblkFound(p)
    PROVE  Data' /\ Unseen
<1>1. PICK r \in Places : r = proc[p]
  BY ProcessOf
<1>2. r.pc = "found" /\ r.bh \in Bufs
  BY <1>1, ProcessOf DEF GetblkFound, Turn, Ready, Stage, Places
<1>3. CASE StartWait(p, r)
  BY <1>1, <1>2, <1>3, WaitUnseen
<1>4. CASE Go(p, At(p, "got")) /\ UNCHANGED <<buf, requests, disk>>
  <2>1. PICK v \in Places : v = [r EXCEPT !.pc = "got"] /\ v.pc = "got"
    BY AtPlace, Names
  <2>2. Go(p, v) /\ UNCHANGED <<requests, disk>> /\ Counts
    BY <1>1, <1>4, <2>1 DEF At, Counts
  <2> QED
    BY <1>1, <1>2, <2>1, <2>2, GoUnseen
<1> QED
  BY <1>1, <1>3, <1>4 DEF GetblkFound

LEMMA StandUnseen ==
    ASSUME IInv, IInv', Data, NEW p \in Procs, proc[p].pc \notin {"user", "slot"},
           UNCHANGED <<proc, buf, queue, moved, disk>>
    PROVE  Data' /\ Unseen
<1>1. proc' = [proc EXCEPT ![p] = proc[p]]
  BY DEF IInv, Types
<1>2. Inward(p, proc[p])
  BY <1>1 DEF Inward, Counts
<1> QED
  BY <1>2, StepUnseen

LEMMA GetblkChooseUnseen ==
    ASSUME IInv, IInv', Data, NEW p \in Procs, GetblkChoose(p)
    PROVE  Data' /\ Unseen
<1>1. PICK r \in Places : r = proc[p] /\ r.pc = "getblk"
  BY ProcessOf DEF GetblkChoose, Turn
<1>2. UNCHANGED <<buf, requests, disk>> /\ Counts
  BY DEF GetblkChoose, Counts
<1>3. CASE UNCHANGED proc
  BY <1>1, <1>2, <1>3, StandUnseen DEF requests
<1>4. ASSUME NEW l, Go(p, [r EXCEPT !.pc = "chosen", !.bh = Best(l)]) PROVE Data' /\ Unseen
  <2>1. PICK v : v = [r EXCEPT !.pc = "chosen", !.bh = Best(l)]
    OBVIOUS
  <2>2. v.pc = "chosen"
    BY <2>1 DEF Places
  <2>3. Go(p, v)
    BY <1>4, <2>1
  <2> QED
    BY <1>1, <1>2, <2>2, <2>3, GoUnseen
<1> QED
  BY <1>1, <1>3, <1>4 DEF GetblkChoose

LEMMA breadUnseen ==
    ASSUME IInv, IInv', Data, NEW p \in Procs, NEW n \in Blocks, NEW m \in Blocks,
           bread(p, n) \/ breada(p, n, m)
    PROVE  Data' /\ Unseen
<1>1. PICK r \in Places : r = proc[p] /\ r.bh = None
  BY ProcessOf DEF bread, breada
<1>2. UNCHANGED <<buf, requests, disk>> /\ Counts
  BY DEF bread, breada, Counts
<1>3. CASE bread(p, n)
  <2>1. PICK v : v = [r EXCEPT !.pc = "getblk", !.n = n, !.block = n]
    OBVIOUS
  <2>2. v.pc = "getblk"
    BY <2>1 DEF Places
  <2>3. Go(p, v)
    BY <1>1, <1>3, <2>1 DEF bread
  <2> QED
    BY <1>1, <1>2, <2>2, <2>3, GoUnseen
<1>4. CASE breada(p, n, m)
  <2>1. PICK v : v = [r EXCEPT !.pc = "getblk", !.n = n, !.block = n, !.ahead = m]
    OBVIOUS
  <2>2. v.pc = "getblk"
    BY <2>1 DEF Places
  <2>3. Go(p, v)
    BY <1>1, <1>4, <2>1 DEF breada
  <2> QED
    BY <1>1, <1>2, <2>2, <2>3, GoUnseen
<1> QED
  BY <1>3, <1>4

LEMMA GotUnseen ==
    ASSUME IInv, IInv', Data, NEW p \in Procs, Got(p)
    PROVE  Data' /\ Unseen
<1>1. PICK r \in Places : r = proc[p]
  BY ProcessOf
<1>2. r.pc = "got" /\ r.bh \in Bufs
  BY <1>1, ProcessOf DEF Got, Turn, Ready, Stage, Places
<1>3. PICK x \in {"readahead", "aheaddone", "bread"} :
          x = IF r.ahead # None THEN "readahead" ELSE IF r.first # None THEN "aheaddone" ELSE "bread"
  OBVIOUS
<1>4. PICK y \in {"READ", "READA"} : y = IF r.first # None THEN "READA" ELSE "READ"
  OBVIOUS
<1>5. Counts /\ disk' = disk
  BY DEF Got, Counts
<1>6. CASE Go(p, At(p, x)) /\ UNCHANGED requests
  <2>1. x \in Pcs
    BY Names
  <2>2. PICK v \in Places : v = [r EXCEPT !.pc = x] /\ v.pc = x
    BY <2>1, AtPlace
  <2>3. Go(p, v)
    BY <1>1, <1>6, <2>2 DEF At
  <2>4. v.pc \notin {"user", "slot"} /\ UNCHANGED <<requests, disk>>
    BY <1>5, <1>6, <2>2
  <2> QED
    BY <1>1, <1>2, <1>5, <2>3, <2>4, GoUnseen
<1>7. CASE ll_rw_block(p, r, y, <<r.bh>>, x)
  <2>1. y \in Rws /\ x \in Rets
    BY DEF Rws, Rets
  <2> QED
    BY <1>1, <1>2, <1>5, <1>7, <2>1, RequestUnseen
<1> QED
  BY <1>1, <1>3, <1>4, <1>6, <1>7 DEF Got

LEMMA ReadAheadUnseen ==
    ASSUME IInv, IInv', Data, NEW p \in Procs, ReadAhead(p)
    PROVE  Data' /\ Unseen
<1>1. PICK r \in Places : r = proc[p] /\ r.pc = "readahead"
  BY ProcessOf DEF ReadAhead, Turn
<1>2. PICK v : v = [r EXCEPT !.pc = "getblk", !.first = r.bh, !.block = r.ahead, !.ahead = None]
  OBVIOUS
<1>3. v.pc = "getblk"
  BY <1>2 DEF Places
<1>4. Go(p, v) /\ UNCHANGED <<requests, disk>> /\ Counts
  BY <1>1, <1>2 DEF ReadAhead, Counts
<1> QED
  BY <1>1, <1>3, <1>4, GoUnseen

LEMMA AheadDoneUnseen ==
    ASSUME IInv, IInv', Data, NEW p \in Procs, AheadDone(p)
    PROVE  Data' /\ Unseen
<1>1. PICK r \in Places : r = proc[p]
  BY ProcessOf
<1>2. r.pc = "aheaddone" /\ r.bh \in Bufs
  BY <1>1, ProcessOf DEF AheadDone, Turn, Ready, Stage, Places
<1>3. PICK v : v = [r EXCEPT !.pc = "bread", !.bh = r.first, !.first = None]
  OBVIOUS
<1>4. v.pc = "bread"
  BY <1>3 DEF Places
<1>5. Go(p, v) /\ UNCHANGED <<requests, disk>> /\ Refer(r.bh, -1) /\ -1 \in Int
  BY <1>1, <1>3 DEF AheadDone
<1>6. Counts
  BY <1>2, <1>5, ReferCounts
<1> QED
  BY <1>1, <1>2, <1>4, <1>5, <1>6, GoUnseen

\* brelse and the end of a loop: back to user mode without a buffer.
LEMMA ReleasedUnseen ==
    ASSUME IInv, IInv', Data, NEW p \in Procs, Released(p)
    PROVE  Data' /\ Unseen
<1>1. PICK r \in Places : r = proc[p]
  BY ProcessOf
<1>2. r.pc = "brelse" /\ r.bh \in Bufs
  BY <1>1, ProcessOf DEF Released, Turn, Ready, Stage, Places
<1>3. CASE StartWait(p, r)
  BY <1>1, <1>2, <1>3, WaitUnseen
<1>4. CASE Refer(r.bh, -1) /\ Return(p, None) /\ UNCHANGED <<requests, disk>>
  <2>1. Go(p, Idle)
    BY <1>4 DEF Return
  <2>2. Counts
    <3>1. -1 \in Int
      OBVIOUS
    <3> QED
      BY <1>2, <1>4, <3>1, ReferCounts
  <2> QED
    BY <1>1, <1>2, <1>4, <2>1, <2>2, GoUnseen
<1> QED
  BY <1>1, <1>3, <1>4 DEF Released

LEMMA shrink_buffersUnseen ==
    ASSUME IInv, IInv', Data, NEW p \in Procs, NEW k \in Priorities, shrink_buffers(p, k)
    PROVE  Data' /\ Unseen
<1>1. PICK r \in Places : r = proc[p] /\ r.bh = None
  BY ProcessOf DEF shrink_buffers
<1>2. k \in Urgency
  BY PrioritiesAssumption DEF Urgency
<1>3. PICK s \in Places : s = [r EXCEPT !.priority = k]
  BY <1>2 DEF Places
<1>4. UNCHANGED <<requests, disk>> /\ Counts
  BY DEF shrink_buffers, Counts
<1>5. CASE sync_buffers(p, s, FALSE, "shrink0")
  <2>1. FALSE \in BOOLEAN /\ "shrink0" \in Thens
    BY DEF Thens
  <2> QED
    BY <1>1, <1>4, <1>5, <2>1, SyncUnseen
<1>6. CASE Go(p, [s EXCEPT !.pc = "shrink0"])
  <2>1. PICK v \in Places : v = [s EXCEPT !.pc = "shrink0"] /\ v.pc = "shrink0"
    BY AtPlace, Names
  <2>2. Go(p, v)
    BY <1>6, <2>1
  <2> QED
    BY <1>1, <1>4, <2>1, <2>2, GoUnseen
<1> QED
  BY <1>1, <1>3, <1>5, <1>6 DEF shrink_buffers

LEMMA OnwardUnseen ==
    ASSUME IInv, IInv', Data, NEW p \in Procs, NEW h, NEW m, Go(p, Onward(proc[p], h, m)),
           proc[p].pc # "user", Counts, UNCHANGED <<requests, disk>>
    PROVE  Data' /\ Unseen
<1>1. PICK r \in Places : r = proc[p]
  BY ProcessOf
<1>2. PICK v : v = [r EXCEPT !.pc = "shrink", !.bh = h, !.i = m]
  OBVIOUS
<1>3. v.pc = "shrink"
  BY <1>2 DEF Places
<1>4. Go(p, v)
  BY <1>1, <1>2 DEF Onward
<1> QED
  BY <1>3, <1>4, GoUnseen

LEMMA ShrinkNextUnseen ==
    ASSUME IInv, IInv', Data, NEW p \in Procs, NEW l, ShrinkNext(p, l),
           proc[p].pc # "user", Counts, UNCHANGED <<requests, disk>>
    PROVE  Data' /\ Unseen
<1>1. Go(p, Onward(proc[p], NextFree(l, proc[p].bh), proc[p].i - 1))
  BY DEF ShrinkNext, Onward
<1> QED
  BY <1>1, OnwardUnseen

LEMMA ShrinkStartUnseen ==
    ASSUME IInv, IInv', Data, NEW p \in Procs, ShrinkStart(p)
    PROVE  Data' /\ Unseen
<1>1. Go(p, Onward(proc[p], Head(free_list), Len(free_list) \div 2 ^ proc[p].priority))
  BY DEF ShrinkStart, Onward
<1>2. proc[p].pc # "user" /\ Counts /\ UNCHANGED <<requests, disk>>
  BY DEF ShrinkStart, Turn, Counts
<1> QED
  BY <1>1, <1>2, OnwardUnseen

LEMMA ShrinkBufferUnseen ==
    ASSUME IInv, IInv', Data, NEW p \in Procs, ShrinkBuffer(p)
    PROVE  Data' /\ Unseen
<1>1. PICK r \in Places : r = proc[p] /\ r.pc = "shrink"
  BY ProcessOf DEF ShrinkBuffer, Turn
<1>2. UNCHANGED <<requests, disk>> /\ Counts
  BY DEF ShrinkBuffer, Counts
<1>3. CASE Return(p, None)
  <2>1. Go(p, Idle)
    BY <1>3 DEF Return
  <2> QED
    BY <1>1, <1>2, <2>1, GoUnseen
<1>4. CASE \E l : ShrinkNext(p, l)
  BY <1>1, <1>2, <1>4, ShrinkNextUnseen
<1>5. CASE Go(p, At(p, "free"))
  <2>1. PICK v \in Places : v = [r EXCEPT !.pc = "free"] /\ v.pc = "free"
    BY AtPlace, Names
  <2>2. Go(p, v)
    BY <1>1, <1>5, <2>1 DEF At
  <2> QED
    BY <1>1, <1>2, <2>1, <2>2, GoUnseen
<1> QED
  BY <1>3, <1>4, <1>5 DEF ShrinkBuffer

LEMMA ShrinkWroteUnseen ==
    ASSUME IInv, IInv', Data, NEW p \in Procs, ShrinkWrote(p)
    PROVE  Data' /\ Unseen
<1>1. proc[p].pc = "shrunk" /\ proc[p].bh \in Bufs
  BY ProcessOf DEF ShrinkWrote, Turn, Ready, Stage, Places
<1>2. ShrinkNext(p, free_list) /\ UNCHANGED <<requests, disk>> /\ Refer(proc[p].bh, -1)
  BY DEF ShrinkWrote
<1>3. Counts
  <2>1. -1 \in Int
    OBVIOUS
  <2> QED
    BY <1>1, <1>2, <2>1, ReferCounts
<1> QED
  BY <1>1, <1>2, <1>3, ShrinkNextUnseen

-----------------------------------------------------------------------------
(* Steps that change what a buffer holds, or its lock.                      *)

Settled(r) ==
    /\ r.pc = "slot" => Asks(r)
    /\ r.pc = "user" /\ r.bh # None => buf[r.bh].uptodate
Suits(x, y) == (y = "WRITE" => x.uptodate) /\ (y = "READ" => ~x.uptodate)
Carried ==
    /\ queue # <<>>
    /\ LET x == buf[First(queue)] IN x.dirt \/ x.data = disk[x.blk]

LEMMA DataParts ==
    ASSUME Data
    PROVE  /\ \A c \in Bufs : Faithful(buf[c])
           /\ \A c \in Bufs : \A y \in {"READ", "WRITE"} : Has(queue, c, y) => Suits(buf[c], y)
           /\ \A q \in Procs : Settled(proc[q])
           /\ moved => Carried
<1>1. \A c \in Bufs : Faithful(buf[c])
  BY DEF Data
<1>2. ASSUME NEW c \in Bufs, NEW y \in {"READ", "WRITE"}, Has(queue, c, y) PROVE Suits(buf[c], y)
  BY <1>2 DEF Data, Suits
<1>3. \A q \in Procs : Settled(proc[q])
  BY DEF Data, Settled
<1>4. moved => Carried
  BY DEF Data, Carried
<1> QED
  BY <1>1, <1>2, <1>3, <1>4

LEMMA DataFrom ==
    ASSUME \A c \in Bufs : Faithful(buf[c])',
           \A c \in Bufs : \A y \in {"READ", "WRITE"} : Has(queue', c, y) => Suits(buf'[c], y),
           \A q \in Procs : Settled(proc[q])',
           moved' => Carried'
    PROVE  Data'
<1>1. ASSUME NEW c \in Bufs
      PROVE  (Has(queue, c, "WRITE") => buf[c].uptodate)' /\ (Has(queue, c, "READ") => ~buf[c].uptodate)'
  BY Zenon DEF Suits
<1>2. ASSUME NEW q \in Procs
      PROVE  /\ (proc[q].pc = "slot" => Asks(proc[q]))'
             /\ (proc[q].pc = "user" /\ proc[q].bh # None => buf[proc[q].bh].uptodate)'
  BY Zenon DEF Settled
<1>3. moved' => /\ queue' # <<>>
                /\ (LET x == buf[First(queue)] IN x.dirt \/ x.data = disk[x.blk])'
  BY Zenon DEF Carried
<1> QED
  BY <1>1, <1>2, <1>3, Zenon DEF Data

\* Buffer b becomes w.  The processes, the queue and the transfer under way
\* that have to do with b find what they need.
Becomes(b, w) == buf'[b] = w /\ \A c \in Bufs : c # b => buf'[c] = buf[c]
Follows(b) ==
    \A q \in Procs : (proc'[q] = proc[q] /\ proc[q].bh # b) \/ Settled(proc[q])'
Enlisted(b, w) ==
    \A c \in Bufs : \A y \in {"READ", "WRITE"} :
        Has(queue', c, y) => (c # b /\ Has(queue, c, y)) \/ (c = b /\ Suits(w, y))

LEMMA DataStep ==
    ASSUME IInv, Data, NEW b \in Bufs, NEW w, Becomes(b, w), disk' = disk,
           Faithful(w), Follows(b), Enlisted(b, w), moved' => Carried'
    PROVE  Data'
<1>1. ASSUME NEW c \in Bufs PROVE Faithful(buf[c])'
  <2>1. Faithful(buf[c])
    BY DataParts
  <2> QED
    BY <2>1 DEF Faithful, Becomes
<1>2. ASSUME NEW c \in Bufs, NEW y \in {"READ", "WRITE"}, Has(queue', c, y) PROVE Suits(buf'[c], y)
  <2>1. Has(queue, c, y) => Suits(buf[c], y)
    BY DataParts
  <2>2. (c # b /\ Has(queue, c, y)) \/ (c = b /\ Suits(w, y))
    BY <1>2 DEF Enlisted
  <2> QED
    BY <2>1, <2>2 DEF Becomes
<1>3. ASSUME NEW q \in Procs PROVE Settled(proc[q])'
  <2>1. Settled(proc[q])
    BY DataParts
  <2>2. CASE proc'[q] = proc[q] /\ proc[q].bh # b
    <3>1. proc[q].pc = "slot" \/ proc[q].bh # None => proc[q].bh \in Bufs
      BY ProcessOf DEF Ready, Stage, Places
    <3>2. proc[q].pc = "slot" \/ proc[q].bh # None => buf'[proc[q].bh] = buf[proc[q].bh]
      BY <2>2, <3>1 DEF Becomes
    <3> QED
      BY <2>1, <2>2, <3>2 DEF Settled, Asks, cmd
  <2> QED
    BY <2>2 DEF Follows
<1> QED
  BY <1>1, <1>2, <1>3, DataFrom, Zenon

\* One field of a buffer changes.
LEMMA BecomesWhen ==
    ASSUME IInv, NEW b \in Bufs, NEW w, buf' = [buf EXCEPT ![b] = w]
    PROVE  Becomes(b, w)
  BY DEF IInv, Types, Becomes

LEMMA ShownStep ==
    ASSUME IInv, IInv', NEW b \in Bufs, NEW w, Becomes(b, w), disk' = disk,
           \/ w.blk = buf[b].blk /\ w.uptodate = buf[b].uptodate /\ w.data = buf[b].data
           \/ Plain(buf, disk, b) /\ Plain(buf', disk, b)
    PROVE  Shown' = Shown
<1>1. \A c \in Bufs : Same(buf, buf', c) \/ (Plain(buf, disk, c) /\ Plain(buf', disk, c))
  BY DEF Becomes, Same
<1> QED
  BY <1>1, ShownKept

\* A buffer that is not locked is in no queue and with no process in the loop.
LEMMA Unlocked ==
    ASSUME IInv, NEW b \in Bufs, ~buf[b].lock
    PROVE  /\ \A y \in {"READ", "WRITE"} : ~Has(queue, b, y)
           /\ \A q \in Procs : proc[q].pc = "slot" => proc[q].bh # b
           /\ queue # <<>> => First(queue) # b
<1>1. ~In(queue, b) /\ \A q \in Procs : ~InLoop(q, b)
  BY DEF IInv, Owned
<1>2. \A y \in {"READ", "WRITE"} : ~Has(queue, b, y)
  BY <1>1 DEF In, Has
<1>3. queue # <<>> => First(queue) # b
  BY Current DEF First
<1> QED
  BY <1>1, <1>2, <1>3 DEF InLoop

\* The transfer that is under way stays as it is.
LEMMA CarriedKept ==
    ASSUME IInv, Data, NEW b \in Bufs, NEW w, Becomes(b, w), disk' = disk, moved' = moved,
           queue # <<>> => First(queue) # b /\ queue' # <<>> /\ First(queue') = First(queue)
    PROVE  moved' => Carried'
<1> SUFFICES ASSUME moved' PROVE Carried'
  OBVIOUS
<1>1. Carried
  BY DataParts
<1>2. queue # <<>>
  BY <1>1 DEF Carried
<1>3. First(queue) \in Bufs
  BY <1>2, Current DEF First
<1>4. buf'[First(queue')] = buf[First(queue)] /\ queue' # <<>>
  BY <1>2, <1>3 DEF Becomes
<1> QED
  BY <1>1, <1>4 DEF Carried

LEMMA DoneUnseen ==
    ASSUME IInv, IInv', Data, NEW p \in Procs, proc[p].pc = "rw", ~proc[p].waiting,
           Go(p, Done(p)), UNCHANGED <<buf, requests, disk>>
    PROVE  Data' /\ Unseen
<1>1. PICK r \in Places : r = proc[p]
  BY ProcessOf
<1>2. Ready(r) /\ ~r.waiting /\ r.pc = "rw"
  BY <1>1, ProcessOf
<1>3. PICK v \in Places : v = Done(p) /\ v.pc \notin {"user", "slot"}
  BY <1>1, <1>2, DoneIs
<1>4. Go(p, v) /\ UNCHANGED <<requests, disk>> /\ Counts
  BY <1>3 DEF Counts
<1> QED
  BY <1>1, <1>2, <1>3, <1>4, GoUnseen

\* make_request locks a buffer that it has something to do with.
LEMMA make_requestUnseen ==
    ASSUME IInv, IInv', Data, NEW p \in Procs, make_request(p)
    PROVE  Data' /\ Unseen
<1>1. PICK r \in Places : r = proc[p]
  BY ProcessOf
<1>2. r.pc = "rw" /\ ~r.waiting /\ r.bh \in Bufs
  BY <1>1, ProcessOf DEF make_request, Turn, Ready, Stage, Places
<1>3. CASE Go(p, Done(p)) /\ UNCHANGED <<buf, requests, disk>>
  BY <1>1, <1>2, <1>3, DoneUnseen
<1>4. CASE StartWait(p, r)
  BY <1>1, <1>2, <1>4, WaitUnseen
<1>5. CASE /\ ~buf[r.bh].lock /\ ~NothingToDo(p, r.bh)
           /\ buf' = [buf EXCEPT ![r.bh].lock = TRUE]
           /\ Go(p, At(p, "slot"))
           /\ UNCHANGED <<requests, disk>>
  <2>1. PICK v \in Places : v = [r EXCEPT !.pc = "slot"] /\ v.pc = "slot" /\ v.bh = r.bh /\ v.rw = r.rw
    BY AtPlace, Names
  <2>2. proc' = [proc EXCEPT ![p] = v] /\ queue' = queue /\ moved' = moved /\ disk' = disk
    BY <1>1, <1>5, <2>1 DEF Go, At, requests
  <2>3. PICK x \in Buffers : x = buf[r.bh]
    BY <1>2, BufferOf
  <2>4. PICK w : w = [x EXCEPT !.lock = TRUE]
    OBVIOUS
  <2>5. w.blk = x.blk /\ w.uptodate = x.uptodate /\ w.dirt = x.dirt /\ w.lock = TRUE /\ w.data = x.data
    BY <2>4 DEF Buffers
  <2>6. Becomes(r.bh, w)
    <3>1. buf' = [buf EXCEPT ![r.bh] = w]
      BY <1>5, <2>3, <2>4
    <3> QED
      BY <1>2, <3>1, BecomesWhen
  <2>7. Faithful(w)
    <3>1. Faithful(x)
      BY <1>2, <2>3, DataParts
    <3> QED
      BY <2>5, <3>1 DEF Faithful
  <2>8. /\ \A y \in {"READ", "WRITE"} : ~Has(queue, r.bh, y)
        /\ \A q \in Procs : proc[q].pc = "slot" => proc[q].bh # r.bh
        /\ queue # <<>> => First(queue) # r.bh
    BY <1>2, <1>5, Unlocked
  <2>9. Follows(r.bh)
    <3> SUFFICES ASSUME NEW q \in Procs
                 PROVE  (proc'[q] = proc[q] /\ proc[q].bh # r.bh) \/ Settled(proc[q])'
      BY DEF Follows
    <3>1. CASE q = p
      <4>1. proc'[q] = v
        BY <2>2, <3>1 DEF IInv, Types
      <4>2. buf'[r.bh].dirt = buf[r.bh].dirt /\ buf'[r.bh].uptodate = buf[r.bh].uptodate
        BY <2>3, <2>5, <2>6 DEF Becomes
      <4>3. IF cmd(r.rw) = "WRITE" THEN buf[r.bh].dirt ELSE ~buf[r.bh].uptodate
        BY <1>1, <1>5 DEF NothingToDo
      <4>4. IF cmd(v.rw) = "WRITE" THEN buf'[v.bh].dirt ELSE ~buf'[v.bh].uptodate
        BY <2>1, <4>2, <4>3
      <4>5. Asks(proc[q])'
        BY <4>1, <4>4, Zenon DEF Asks, cmd
      <4>6. proc'[q].pc = "slot"
        BY <2>1, <4>1
      <4> QED
        BY <4>5, <4>6 DEF Settled
    <3>2. CASE q # p /\ proc[q].bh = r.bh
      <4>1. proc'[q] = proc[q] /\ proc[q].pc # "slot"
        BY <2>2, <2>8, <3>2 DEF IInv, Types
      <4>2. Settled(proc[q])
        BY DataParts
      <4>3. buf'[r.bh].uptodate = buf[r.bh].uptodate
        BY <2>3, <2>5, <2>6 DEF Becomes
      <4> QED
        BY <3>2, <4>1, <4>2, <4>3 DEF Settled
    <3>3. CASE q # p /\ proc[q].bh # r.bh
      BY <2>2, <3>3 DEF IInv, Types
    <3> QED
      BY <3>1, <3>2, <3>3
  <2>10. Enlisted(r.bh, w)
    BY <2>2, <2>8 DEF Enlisted
  <2>11. moved' => Carried'
    BY <1>2, <2>2, <2>6, <2>8, CarriedKept
  <2>12. Data'
    BY <1>2, <2>2, <2>6, <2>7, <2>9, <2>10, <2>11, DataStep
  <2>13. Shown' = Shown
    BY <1>2, <2>2, <2>3, <2>5, <2>6, ShownStep
  <2>14. Opened' = Opened
    BY <1>1, <1>2, <2>1, <2>2, OpenedKept DEF Inside
  <2> QED
    BY <2>12, <2>13, <2>14 DEF Unseen
<1> QED
  BY <1>1, <1>3, <1>4, <1>5 DEF make_request

LEMMA FollowsSame ==
    ASSUME IInv, Data, NEW p \in Procs, NEW v, proc' = [proc EXCEPT ![p] = v],
           v.pc \notin {"user", "slot"}, NEW b \in Bufs, NEW w, Becomes(b, w),
           w.uptodate = buf[b].uptodate,
           \A q \in Procs : q # p /\ proc[q].pc = "slot" => proc[q].bh # b
    PROVE  Follows(b)
<1> SUFFICES ASSUME NEW q \in Procs
             PROVE  (proc'[q] = proc[q] /\ proc[q].bh # b) \/ Settled(proc[q])'
  BY DEF Follows
<1>1. CASE q = p
  <2>1. proc'[q] = v
    BY <1>1 DEF IInv, Types
  <2> QED
    BY <2>1 DEF Settled
<1>2. CASE q # p /\ proc[q].bh = b
  <2>1. proc'[q] = proc[q] /\ proc[q].pc # "slot"
    BY <1>2 DEF IInv, Types
  <2>2. Settled(proc[q])
    BY DataParts
  <2>3. buf'[b].uptodate = buf[b].uptodate
    BY DEF Becomes
  <2> QED
    BY <1>2, <2>1, <2>2, <2>3 DEF Settled
<1>3. CASE q # p /\ proc[q].bh # b
  BY <1>3 DEF IInv, Types
<1> QED
  BY <1>1, <1>2, <1>3

\* Process p in the loop has locked its buffer, alone.
LEMMA LoopAlone ==
    ASSUME IInv, Data, NEW p \in Procs, NEW r \in Places, r = proc[p], r.pc = "slot"
    PROVE  /\ r.bh \in Bufs /\ buf[r.bh].lock
           /\ \A y \in {"READ", "WRITE"} : ~Has(queue, r.bh, y)
           /\ \A q \in Procs : q # p /\ proc[q].pc = "slot" => proc[q].bh # r.bh
           /\ queue # <<>> => First(queue) # r.bh
           /\ Asks(r) /\ Faithful(buf[r.bh]) /\ ~In(queue, r.bh)
<1>1. r.bh \in Bufs
  BY ProcessOf DEF Ready, Stage, Places
<1>2. InLoop(p, r.bh)
  BY DEF InLoop
<1>3. ~In(queue, r.bh) /\ buf[r.bh].lock /\ \A q \in Procs : InLoop(q, r.bh) => q = p
  BY <1>1, <1>2 DEF IInv, Owned
<1>4. \A y \in {"READ", "WRITE"} : ~Has(queue, r.bh, y)
  BY <1>3 DEF In, Has
<1>5. queue # <<>> => First(queue) # r.bh
  BY <1>4, Current DEF First
<1>6. Asks(r) /\ Faithful(buf[r.bh])
  BY <1>1, DataParts DEF Settled
<1> QED
  BY <1>1, <1>3, <1>4, <1>5, <1>6 DEF InLoop

\* The buffer is put into the queue, and is clean from here on.
LEMMA QueuedUnseen ==
    ASSUME IInv, IInv', Data, NEW p \in Procs, NEW r \in Places, r = proc[p], r.pc = "slot",
           ~r.waiting, Gains(queue, queue', r.bh, cmd(r.rw)),
           queue # <<>> => queue' # <<>> /\ First(queue') = First(queue),
           buf' = [buf EXCEPT ![r.bh].dirt = FALSE], Go(p, Done(p)),
           moved' = moved, disk' = disk
    PROVE  Data' /\ Unseen
<1>1. /\ r.bh \in Bufs /\ buf[r.bh].lock
      /\ \A y \in {"READ", "WRITE"} : ~Has(queue, r.bh, y)
      /\ \A q \in Procs : q # p /\ proc[q].pc = "slot" => proc[q].bh # r.bh
      /\ queue # <<>> => First(queue) # r.bh
      /\ Asks(r) /\ Faithful(buf[r.bh])
  BY LoopAlone
<1>2. PICK v \in Places : v = Done(p) /\ v.pc \notin {"user", "slot"}
  BY ProcessOf, DoneIs
<1>3. proc' = [proc EXCEPT ![p] = v]
  BY <1>2 DEF Go
<1>4. PICK x \in Buffers : x = buf[r.bh]
  BY <1>1, BufferOf
<1>5. PICK w : w = [x EXCEPT !.dirt = FALSE]
  OBVIOUS
<1>6. w.blk = x.blk /\ w.uptodate = x.uptodate /\ w.dirt = FALSE /\ w.lock = x.lock /\ w.data = x.data
  BY <1>5 DEF Buffers
<1>7. Becomes(r.bh, w)
  <2>1. buf' = [buf EXCEPT ![r.bh] = w]
    BY <1>4, <1>5
  <2> QED
    BY <1>1, <2>1, BecomesWhen
<1>8. Faithful(w)
  BY <1>1, <1>4, <1>6 DEF Faithful
<1>9. Follows(r.bh)
  BY <1>1, <1>2, <1>3, <1>4, <1>6, <1>7, FollowsSame
<1>10. Enlisted(r.bh, w)
  <2> SUFFICES ASSUME NEW c \in Bufs, NEW y \in {"READ", "WRITE"}, Has(queue', c, y)
               PROVE  (c # r.bh /\ Has(queue, c, y)) \/ (c = r.bh /\ Suits(w, y))
    BY DEF Enlisted
  <2>1. Has(queue, c, y) \/ (c = r.bh /\ y = cmd(r.rw))
    BY DEF Gains
  <2>2. cmd(r.rw) = "WRITE" => w.uptodate
    BY <1>1, <1>4, <1>6 DEF Asks, Faithful
  <2>3. cmd(r.rw) # "WRITE" => ~w.uptodate
    BY <1>1, <1>4, <1>6 DEF Asks
  <2>4. c = r.bh => ~Has(queue, c, y)
    BY <1>1
  <2> QED
    BY <2>1, <2>2, <2>3, <2>4 DEF Suits
<1>11. moved' => Carried'
  BY <1>1, <1>7, CarriedKept
<1>12. Data'
  BY <1>1, <1>7, <1>8, <1>9, <1>10, <1>11, DataStep
<1>13. Shown' = Shown
  BY <1>1, <1>4, <1>6, <1>7, ShownStep
<1>14. Opened' = Opened
  BY <1>2, <1>3, OpenedKept DEF Inside
<1> QED
  BY <1>12, <1>13, <1>14 DEF Unseen

\* What was only for later use is given up.
LEMMA GivenUpUnseen ==
    ASSUME IInv, IInv', Data, NEW p \in Procs, NEW r \in Places, r = proc[p], r.pc = "slot",
           ~r.waiting, buf' = [buf EXCEPT ![r.bh].lock = FALSE], Go(p, Done(p)),
           queue' = queue, moved' = moved, disk' = disk
    PROVE  Data' /\ Unseen
<1>1. /\ r.bh \in Bufs /\ buf[r.bh].lock
      /\ \A y \in {"READ", "WRITE"} : ~Has(queue, r.bh, y)
      /\ \A q \in Procs : q # p /\ proc[q].pc = "slot" => proc[q].bh # r.bh
      /\ queue # <<>> => First(queue) # r.bh
      /\ Asks(r) /\ Faithful(buf[r.bh])
  BY LoopAlone
<1>2. PICK v \in Places : v = Done(p) /\ v.pc \notin {"user", "slot"}
  BY ProcessOf, DoneIs
<1>3. proc' = [proc EXCEPT ![p] = v]
  BY <1>2 DEF Go
<1>4. PICK x \in Buffers : x = buf[r.bh]
  BY <1>1, BufferOf
<1>5. PICK w : w = [x EXCEPT !.lock = FALSE]
  OBVIOUS
<1>6. w.blk = x.blk /\ w.uptodate = x.uptodate /\ w.dirt = x.dirt /\ w.data = x.data
  BY <1>5 DEF Buffers
<1>7. Becomes(r.bh, w)
  <2>1. buf' = [buf EXCEPT ![r.bh] = w]
    BY <1>4, <1>5
  <2> QED
    BY <1>1, <2>1, BecomesWhen
<1>8. Faithful(w)
  <2>1. x.dirt \/ ~x.uptodate
    BY <1>1, <1>4 DEF Asks
  <2> QED
    BY <1>1, <1>4, <1>6, <2>1 DEF Faithful
<1>9. Follows(r.bh)
  BY <1>1, <1>2, <1>3, <1>4, <1>6, <1>7, FollowsSame
<1>10. Enlisted(r.bh, w)
  BY <1>1 DEF Enlisted
<1>11. moved' => Carried'
  BY <1>1, <1>7, CarriedKept
<1>12. Data'
  BY <1>1, <1>7, <1>8, <1>9, <1>10, <1>11, DataStep
<1>13. Shown' = Shown
  BY <1>1, <1>4, <1>6, <1>7, ShownStep
<1>14. Opened' = Opened
  BY <1>2, <1>3, OpenedKept DEF Inside
<1> QED
  BY <1>12, <1>13, <1>14 DEF Unseen

LEMMA FirstKept ==
    ASSUME NEW s \in Seq(Requests), NEW t \in Seq(Requests), s # <<>>, Len(t) >= Len(s), t[1] = s[1]
    PROVE  t # <<>> /\ First(t) = First(s)
<1>1. Len(s) \in Nat /\ Len(t) \in Nat /\ Len(s) # 0
  OBVIOUS
<1>2. Len(t) # 0
  BY <1>1
<1>3. t # <<>>
  BY <1>2
<1>4. Head(s) = s[1] /\ Head(t) = t[1]
  BY <1>3
<1> QED
  BY <1>3, <1>4 DEF First

\* Nothing that matters changes.
LEMMA StillUnseen ==
    ASSUME Data, UNCHANGED <<buf, queue, moved, disk, proc>>
    PROVE  Data' /\ Unseen
<1>1. Data'
  <2>1. \A c \in Bufs : Faithful(buf[c])'
    BY DataParts DEF Faithful
  <2>2. \A c \in Bufs : \A y \in {"READ", "WRITE"} : Has(queue', c, y) => Suits(buf'[c], y)
    BY DataParts
  <2>3. \A q \in Procs : Settled(proc[q])'
    BY DataParts DEF Settled, Asks
  <2>4. moved' => Carried'
    BY DataParts DEF Carried
  <2> QED
    BY <2>1, <2>2, <2>3, <2>4, DataFrom
<1>2. Unseen
  BY DEF Unseen, Shown, Opened, Visible, find_buffer
<1> QED
  BY <1>1, <1>2

LEMMA make_request_loopUnseen ==
    ASSUME IInv, IInv', Data, NEW p \in Procs, make_request_loop(p)
    PROVE  Data' /\ Unseen
<1>1. PICK r \in Places : r = proc[p]
  BY ProcessOf
<1>2. r.pc = "slot" /\ ~r.waiting
  BY <1>1 DEF make_request_loop, Turn
<1>3. r.bh \in Bufs /\ ~In(queue, r.bh)
  BY <1>1, <1>2, LoopAlone
<1>4. queue \in Seq(Requests) /\ Once(queue) /\ Len(queue) \in Nat /\ queue' \in Seq(Requests)
  BY DEF IInv, Types, Owned
<1>5. moved' = moved /\ disk' = disk
  BY DEF make_request_loop
<1>6. CASE /\ Joinable(r.rw, r.bh) # {}
           /\ queue' = Joined(Min(Joinable(r.rw, r.bh)), r.bh)
           /\ buf' = [buf EXCEPT ![r.bh].dirt = FALSE]
           /\ Go(p, Done(p))
  <2>1. Joinable(r.rw, r.bh) \subseteq 2 .. Len(queue)
    BY DEF Joinable
  <2>2. PICK k \in Joinable(r.rw, r.bh) : k = Min(Joinable(r.rw, r.bh))
    <3>1. Joinable(r.rw, r.bh) \subseteq Nat
      BY <1>4, <2>1
    <3> QED
      BY <1>6, <3>1, MinIsLeast
  <2>3. k \in 1 .. Len(queue) /\ k # 1 /\ 1 \in 1 .. Len(queue)
    BY <1>4, <2>1
  <2>4. queue[k].cmd = cmd(r.rw)
    BY DEF Joinable, Joins
  <2>5. Longer(queue, k, r.bh, queue')
    <3>1. queue' = Joined(k, r.bh)
      BY <1>6, <2>2
    <3> QED
      BY <3>1, Zenon DEF Joined, Longer
  <2>6. /\ Len(queue') = Len(queue) /\ \A l \in 1 .. Len(queue) : l # k => queue'[l] = queue[l]
        /\ \A c, x : Has(queue', c, x) <=> Has(queue, c, x) \/ (c = r.bh /\ x = queue[k].cmd)
    BY <1>3, <1>4, <2>3, <2>5, Lengthened
  <2>7. Gains(queue, queue', r.bh, cmd(r.rw))
    BY <2>4, <2>6 DEF Gains
  <2>8. queue # <<>> => queue' # <<>> /\ First(queue') = First(queue)
    <3>1. queue'[1] = queue[1] /\ Len(queue') >= Len(queue)
      BY <1>4, <2>3, <2>6
    <3> QED
      BY <1>4, <3>1, FirstKept
  <2> QED
    BY <1>1, <1>2, <1>5, <1>6, <2>7, <2>8, QueuedUnseen
<1>7. CASE /\ \E s \in Free(r.rw) :
                queue' = Insert([cmd |-> cmd(r.rw), bhs |-> <<r.bh>>, slot |-> s])
           /\ buf' = [buf EXCEPT ![r.bh].dirt = FALSE]
           /\ Go(p, Done(p))
  <2>1. PICK s \in Free(r.rw) :
           queue' = Insert([cmd |-> cmd(r.rw), bhs |-> <<r.bh>>, slot |-> s])
    BY <1>7
  <2>2. s \in {"low", "high"} /\ cmd(r.rw) \in {"READ", "WRITE"} /\ <<r.bh>> \in Seq(Bufs)
    <3>1. s \in IF cmd(r.rw) = "READ" THEN {"low", "high"} ELSE {"low"}
      BY DEF Free
    <3> QED
      BY <1>3, <3>1 DEF cmd
  <2>3. PICK z \in Requests : z = [cmd |-> cmd(r.rw), bhs |-> <<r.bh>>, slot |-> s]
    BY <2>2 DEF Requests
  <2>4. z.cmd = cmd(r.rw) /\ z.bhs = <<r.bh>> /\ queue' = Insert(z)
    BY <2>1, <2>3
  <2>5. PICK m \in 1 .. Len(queue) + 1 : Put(queue, queue', z, m) /\ (queue # <<>> => m > 1)
    BY <1>4, <2>4, InsertPuts
  <2>6. \A c, x : Has(queue', c, x) <=> Has(queue, c, x) \/ (c = r.bh /\ x = z.cmd)
    BY <1>3, <1>4, <2>4, <2>5, Inserted
  <2>7. Gains(queue, queue', r.bh, cmd(r.rw))
    BY <2>4, <2>6 DEF Gains
  <2>8. ASSUME queue # <<>> PROVE queue' # <<>> /\ First(queue') = First(queue)
    <3>1. Len(queue') = Len(queue) + 1 /\ \A i \in 1 .. m - 1 : queue'[i] = queue[i]
      BY <2>5 DEF Put
    <3>2. m > 1
      BY <2>5, <2>8
    <3>3. 1 \in 1 .. m - 1 /\ Len(queue') >= Len(queue)
      BY <1>4, <3>1, <3>2
    <3>4. queue'[1] = queue[1]
      BY <3>1, <3>3
    <3> QED
      BY <1>4, <2>8, <3>3, <3>4, FirstKept
  <2> QED
    BY <1>1, <1>2, <1>5, <1>7, <2>7, <2>8, QueuedUnseen
<1>8. CASE /\ buf' = [buf EXCEPT ![r.bh].lock = FALSE]
           /\ Go(p, Done(p))
           /\ UNCHANGED queue
  BY <1>1, <1>2, <1>5, <1>8, GivenUpUnseen
<1>9. CASE UNCHANGED <<buf, queue, proc>>
  BY <1>5, <1>9, StillUnseen
<1> QED
  BY <1>1, <1>6, <1>7, <1>8, <1>9 DEF make_request_loop

\* An unused clean buffer is taken for another block, or freed.
LEMMA TakenUnseen ==
    ASSUME IInv, IInv', Data, NEW p \in Procs, NEW v, proc' = [proc EXCEPT ![p] = v],
           Inside(proc[p]), Inside(v), v.pc # "slot", NEW b \in Bufs, NEW w, Becomes(b, w),
           ~buf[b].lock, ~buf[b].dirt, buf[b].count = 0, w.uptodate = FALSE, w.dirt = FALSE,
           queue' = queue, moved' = moved, disk' = disk
    PROVE  Data' /\ Unseen
<1>1. /\ \A y \in {"READ", "WRITE"} : ~Has(queue, b, y)
      /\ \A q \in Procs : proc[q].pc = "slot" => proc[q].bh # b
      /\ queue # <<>> => First(queue) # b
  BY Unlocked
<1>2. Faithful(w)
  BY DEF Faithful
<1>3. Follows(b)
  <2> SUFFICES ASSUME NEW q \in Procs
               PROVE  (proc'[q] = proc[q] /\ proc[q].bh # b) \/ Settled(proc[q])'
    BY DEF Follows
  <2>1. CASE q = p
    <3>1. proc'[q] = v
      BY <2>1 DEF IInv, Types
    <3> QED
      BY <3>1 DEF Settled, Inside
  <2>2. CASE q # p /\ proc[q].bh = b
    <3>1. proc'[q] = proc[q] /\ proc[q].pc # "slot"
      BY <1>1, <2>2 DEF IInv, Types
    <3>2. proc[q].pc # "user"
      <4>1. ~Holds(q, b)
        <5>1. Types /\ RefsExact
          BY DEF IInv
        <5>2. ~(buf[b].count > 0)
          OBVIOUS
        <5> QED
          BY <5>1, <5>2, RefsPositive
      <4> QED
        BY <2>2, <4>1 DEF Holds
    <3> QED
      BY <3>1, <3>2 DEF Settled
  <2>3. CASE q # p /\ proc[q].bh # b
    BY <2>3 DEF IInv, Types
  <2> QED
    BY <2>1, <2>2, <2>3
<1>4. Enlisted(b, w)
  BY <1>1 DEF Enlisted
<1>5. moved' => Carried'
  BY <1>1, CarriedKept
<1>6. Data'
  BY <1>2, <1>3, <1>4, <1>5, DataStep
<1>7. Plain(buf, disk, b) /\ Plain(buf', disk, b)
  <2>1. Faithful(buf[b])
    BY DataParts
  <2> QED
    BY <2>1 DEF Faithful, Plain, Becomes
<1>8. Shown' = Shown
  BY <1>7, ShownStep
<1>9. Opened' = Opened
  BY OpenedKept
<1> QED
  BY <1>6, <1>8, <1>9 DEF Unseen

LEMMA GetblkTakeUnseen ==
    ASSUME IInv, IInv', Data, NEW p \in Procs, GetblkTake(p)
    PROVE  Data' /\ Unseen
<1>1. PICK r \in Places : r = proc[p]
  BY ProcessOf
<1>2. r.pc = "chosen" /\ r.bh \in Bufs
  BY <1>1, ProcessOf DEF GetblkTake, Turn, Ready, Stage, Places
<1>3. CASE StartWait(p, r)
  BY <1>1, <1>2, <1>3, WaitUnseen
<1>4. CASE Go(p, At(p, "getblk")) /\ UNCHANGED <<buf, requests, disk>>
  <2>1. PICK v \in Places : v = [r EXCEPT !.pc = "getblk"] /\ v.pc = "getblk"
    BY AtPlace, Names
  <2>2. Go(p, v) /\ UNCHANGED <<requests, disk>> /\ Counts
    BY <1>1, <1>4, <2>1 DEF At, Counts
  <2> QED
    BY <1>1, <1>2, <2>1, <2>2, GoUnseen
<1>5. CASE sync_buffers(p, r, FALSE, "getblk") /\ UNCHANGED <<buf, requests, disk>>
  <2>1. Counts
    BY <1>5 DEF Counts
  <2> QED
    BY <1>1, <1>2, <1>5, <2>1, SyncUnseen
<1>6. CASE /\ ~buf[r.bh].lock /\ buf[r.bh].count = 0 /\ ~buf[r.bh].dirt
           /\ buf' = [buf EXCEPT ![r.bh] = [Unused EXCEPT !.blk = r.block, !.count = 1]]
           /\ Go(p, At(p, "got"))
           /\ UNCHANGED <<requests, disk>>
  <2>1. PICK v \in Places : v = [r EXCEPT !.pc = "got"] /\ v.pc = "got"
    BY AtPlace, Names
  <2>2. proc' = [proc EXCEPT ![p] = v] /\ queue' = queue /\ moved' = moved /\ disk' = disk
    BY <1>1, <1>6, <2>1 DEF Go, At, requests
  <2>3. PICK w : w = [Unused EXCEPT !.blk = r.block, !.count = 1]
    OBVIOUS
  <2>4. w.uptodate = FALSE /\ w.dirt = FALSE
    BY <2>3 DEF Unused
  <2>5. Becomes(r.bh, w)
    BY <1>2, <1>6, <2>3, BecomesWhen
  <2>6. Inside(proc[p]) /\ Inside(v) /\ v.pc # "slot"
    BY <1>1, <1>2, <2>1 DEF Inside
  <2> QED
    BY <1>2, <1>6, <2>2, <2>4, <2>5, <2>6, TakenUnseen
<1> QED
  BY <1>1, <1>3, <1>4, <1>5, <1>6 DEF GetblkTake

LEMMA TryToFreeUnseen ==
    ASSUME IInv, IInv', Data, NEW p \in Procs, TryToFree(p)
    PROVE  Data' /\ Unseen
<1>1. PICK r \in Places : r = proc[p]
  BY ProcessOf
<1>2. r.pc = "free" /\ r.bh \in Bufs
  BY <1>1, ProcessOf DEF TryToFree, Turn, Ready, Stage, Places
<1>3. CASE StartWait(p, r)
  BY <1>1, <1>2, <1>3, WaitUnseen
<1>4. CASE Refer(r.bh, 1) /\ ll_rw_block(p, r, "WRITEA", <<r.bh>>, "shrunk") /\ UNCHANGED disk
  <2>1. "WRITEA" \in Rws /\ "shrunk" \in Rets /\ 1 \in Int
    BY DEF Rws, Rets
  <2>2. Counts
    BY <1>2, <1>4, <2>1, ReferCounts
  <2> QED
    BY <1>1, <1>2, <1>4, <2>1, <2>2, RequestUnseen
<1>5. CASE ShrinkNext(p, free_list) /\ UNCHANGED <<buf, requests, disk>>
  <2>1. Counts
    BY <1>5 DEF Counts
  <2> QED
    BY <1>1, <1>2, <1>5, <2>1, ShrinkNextUnseen
<1>6. CASE /\ ~buf[r.bh].lock /\ ~buf[r.bh].dirt /\ buf[r.bh].count = 0
           /\ buf' = [buf EXCEPT ![r.bh] = Unused]
           /\ Return(p, None)
           /\ UNCHANGED <<requests, disk>>
  <2>1. proc' = [proc EXCEPT ![p] = Idle] /\ queue' = queue /\ moved' = moved /\ disk' = disk
    BY <1>6 DEF Return, Go, requests
  <2>2. Unused.uptodate = FALSE /\ Unused.dirt = FALSE
    BY DEF Unused
  <2>3. Becomes(r.bh, Unused)
    BY <1>2, <1>6, BecomesWhen
  <2>4. Inside(proc[p]) /\ Inside(Idle) /\ Idle.pc # "slot"
    BY <1>1, <1>2, IdleReady DEF Inside
  <2> QED
    BY <1>2, <1>6, <2>1, <2>2, <2>3, <2>4, TakenUnseen
<1> QED
  BY <1>1, <1>3, <1>4, <1>5, <1>6 DEF TryToFree

-----------------------------------------------------------------------------
(* The disk.                                                               *)

LEMMA TransferUnseen ==
    ASSUME IInv, IInv', Data, Transfer
    PROVE  Data' /\ Unseen
<1>1. queue # <<>> /\ queue' = queue /\ proc' = proc /\ moved'
  BY DEF Transfer
<1>2. PICK b \in Bufs : b = First(queue) /\ buf[b].lock /\ buf[b].blk \in Blocks
                        /\ Has(queue, b, Head(queue).cmd)
  BY <1>1, Current DEF First
<1>3. PICK x \in Buffers : x = buf[b]
  BY BufferOf
<1>4. Head(queue).cmd \in {"READ", "WRITE"} /\ Suits(x, Head(queue).cmd)
  BY <1>1, <1>2, <1>3, Current, DataParts
<1>5. Opened' = Opened
  BY <1>1 DEF Opened
<1>6. CASE /\ Head(queue).cmd = "READ"
           /\ buf' = [buf EXCEPT ![b].data = disk[buf[b].blk]]
           /\ UNCHANGED disk
  <2>1. ~x.uptodate
    BY <1>4, <1>6 DEF Suits
  <2>2. PICK w : w = [x EXCEPT !.data = disk[x.blk]]
    OBVIOUS
  <2>3. w.blk = x.blk /\ w.uptodate = x.uptodate /\ w.dirt = x.dirt /\ w.lock = x.lock
        /\ w.data = disk[x.blk]
    BY <2>2 DEF Buffers
  <2>4. Becomes(b, w)
    <3>1. buf' = [buf EXCEPT ![b] = w]
      BY <1>3, <1>6, <2>2
    <3> QED
      BY <3>1, BecomesWhen
  <2>5. Faithful(w)
    <3>1. Faithful(x)
      BY <1>3, DataParts
    <3> QED
      BY <1>2, <1>3, <2>3, <3>1 DEF Faithful
  <2>6. Follows(b)
    <3> SUFFICES ASSUME NEW q \in Procs PROVE Settled(proc[q])'
      BY DEF Follows
    <3>1. Settled(proc[q])
      BY DataParts
    <3>2. proc[q].pc = "slot" \/ proc[q].bh # None => proc[q].bh \in Bufs
      BY ProcessOf DEF Ready, Stage, Places
    <3>3. \A c \in Bufs : buf'[c].uptodate = buf[c].uptodate /\ buf'[c].dirt = buf[c].dirt
      BY <1>3, <2>3, <2>4 DEF Becomes
    <3> QED
      BY <1>1, <3>1, <3>2, <3>3 DEF Settled, Asks, cmd
  <2>7. Enlisted(b, w)
    <3> SUFFICES ASSUME NEW c \in Bufs, NEW y \in {"READ", "WRITE"}, Has(queue', c, y)
                 PROVE  (c # b /\ Has(queue, c, y)) \/ (c = b /\ Suits(w, y))
      BY DEF Enlisted
    <3>1. Has(queue, c, y)
      BY <1>1
    <3>2. c = b => Suits(x, y)
      BY <1>3, <3>1, DataParts
    <3> QED
      BY <2>3, <3>1, <3>2 DEF Suits
  <2>8. Carried'
    <3>1. buf'[First(queue')] = w
      BY <1>1, <1>2, <2>4 DEF Becomes
    <3> QED
      BY <1>1, <1>6, <2>3, <3>1 DEF Carried
  <2>9. Data'
    BY <1>6, <2>4, <2>5, <2>6, <2>7, <2>8, DataStep
  <2>10. Plain(buf, disk, b) /\ Plain(buf', disk, b)
    BY <1>3, <2>1, <2>3, <2>4 DEF Plain, Becomes
  <2>11. Shown' = Shown
    BY <1>6, <2>4, <2>10, ShownStep
  <2> QED
    BY <1>5, <2>9, <2>11 DEF Unseen
<1>7. CASE /\ Head(queue).cmd = "WRITE"
           /\ disk' = [disk EXCEPT ![buf[b].blk] = buf[b].data]
           /\ UNCHANGED buf
  <2>1. x.uptodate
    BY <1>4, <1>7 DEF Suits
  <2>2. disk'[x.blk] = x.data /\ \A n \in Blocks : n # x.blk => disk'[n] = disk[n]
    BY <1>2, <1>3, <1>7 DEF IInv, Types
  <2>3. \A c \in Bufs : Faithful(buf[c])'
    <3> SUFFICES ASSUME NEW c \in Bufs PROVE Faithful(buf[c])'
      OBVIOUS
    <3>1. Faithful(buf[c])
      BY DataParts
    <3>2. CASE c = b
      BY <1>2, <1>7, <3>1, <3>2 DEF Faithful
    <3>3. CASE c # b
      <4>1. buf[c].blk # x.blk
        BY <1>2, <1>3, <3>3, NoneAssumption DEF IInv, BlockOnce
      <4>2. buf[c].uptodate => buf[c].blk \in Blocks
        <5>1. buf[c].uptodate => buf[c].blk # None
          BY InUse
        <5>2. buf[c].blk \in Blocks \cup {None}
          BY BufferOf DEF Buffers
        <5> QED
          BY <5>1, <5>2
      <4> QED
        BY <1>7, <2>2, <3>1, <4>1, <4>2 DEF Faithful
    <3> QED
      BY <3>2, <3>3
  <2>4. \A c \in Bufs : \A y \in {"READ", "WRITE"} : Has(queue', c, y) => Suits(buf'[c], y)
    BY <1>1, <1>7, DataParts
  <2>5. \A q \in Procs : Settled(proc[q])'
    BY <1>1, <1>7, DataParts DEF Settled, Asks
  <2>6. Carried'
    <3>1. buf'[First(queue')] = x
      BY <1>1, <1>2, <1>3, <1>7
    <3> QED
      BY <1>1, <2>2, <3>1 DEF Carried
  <2>7. Data'
    BY <2>3, <2>4, <2>5, <2>6, DataFrom
  <2>8. Single(buf)
    BY Views DEF IInv
  <2>9. ASSUME NEW n \in Blocks PROVE View(buf, disk', n) = View(buf, disk, n)
    <3>1. ASSUME NEW c \in Bufs, Shows(buf, c, n) PROVE View(buf, disk', n) = View(buf, disk, n)
      <4>1. View(buf, disk', n) = buf[c].data
        BY <2>8, <3>1, ViewIs
      <4>2. View(buf, disk, n) = buf[c].data
        BY <2>8, <3>1, ViewIs
      <4> QED
        BY <4>1, <4>2
    <3>2. CASE \A c \in Bufs : ~Shows(buf, c, n)
      <4>1. n # x.blk
        BY <1>3, <2>1, <3>2 DEF Shows
      <4>2. View(buf, disk', n) = disk'[n] /\ View(buf, disk, n) = disk[n]
        BY <2>8, <3>2, ViewIs
      <4> QED
        BY <2>2, <4>1, <4>2
    <3> QED
      BY <3>1, <3>2
  <2>10. Shown' = Shown
    <3>1. \A n \in Blocks : Visible(n)' = Visible(n)
      BY <1>7, <2>9, Views
    <3> QED
      BY <3>1 DEF Shown
  <2> QED
    BY <1>5, <2>7, <2>10 DEF Unseen
<1> QED
  BY <1>1, <1>2, <1>4, <1>6, <1>7 DEF Transfer, First

\* What a read has brought is what the disk has, unless it was changed; only a
\* read fails, and then nobody has had the block yet.
LEMMA end_requestUnseen ==
    ASSUME IInv, IInv', Data, "WRITE" \notin Failing, NEW u \in BOOLEAN, end_request(u)
    PROVE  Data' /\ Unseen
<1>1. queue # <<>> /\ queue \in Seq(Requests) /\ Once(queue)
  BY DEF end_request, IInv, Types, Owned
<1>2. PICK b \in Bufs : b = First(queue) /\ buf[b].lock /\ Has(queue, b, Head(queue).cmd)
  BY <1>1, Current DEF First
<1>3. queue' = Shorter(queue) /\ moved' = FALSE /\ disk' = disk /\ proc' = proc
  BY DEF end_request, Shorter
<1>4. PICK x \in Buffers : x = buf[b]
  BY BufferOf
<1>5. PICK w : w = [x EXCEPT !.uptodate = u, !.lock = FALSE]
  OBVIOUS
<1>6. w.blk = x.blk /\ w.uptodate = u /\ w.dirt = x.dirt /\ w.lock = FALSE /\ w.data = x.data
  BY <1>5 DEF Buffers
<1>7. Becomes(b, w)
  <2>1. buf' = [buf EXCEPT ![b].uptodate = u, ![b].lock = FALSE]
    BY <1>2 DEF end_request, First
  <2>2. buf \in [Bufs -> Buffers]
    BY DEF IInv, Types
  <2>3. buf' = [buf EXCEPT ![b] = w]
    BY <1>4, <1>5, <2>1, <2>2
  <2> QED
    BY <2>3, BecomesWhen
<1>8. Head(queue).cmd \in {"READ", "WRITE"} /\ Suits(x, Head(queue).cmd)
  BY <1>1, <1>2, <1>4, Current, DataParts
<1>9. (x.dirt => x.uptodate) /\ (u => x.dirt \/ x.data = disk[x.blk]) /\ (~u => ~x.uptodate)
  <2>1. x.dirt => x.uptodate
    BY <1>4, DataParts DEF Faithful
  <2>2. u => x.dirt \/ x.data = disk[x.blk]
    <3>1. u => moved
      BY DEF end_request
    <3>2. moved => x.dirt \/ x.data = disk[x.blk]
      BY <1>2, <1>4, DataParts DEF Carried
    <3> QED
      BY <3>1, <3>2
  <2>3. ~u => ~x.uptodate
    <3>1. ~u => Head(queue).cmd \in Failing
      BY DEF end_request
    <3> QED
      BY <1>8, <3>1 DEF Suits
  <2> QED
    BY <2>1, <2>2, <2>3
<1>10. Faithful(w)
  BY <1>6, <1>9 DEF Faithful
<1>11. Follows(b)
  <2> SUFFICES ASSUME NEW q \in Procs
               PROVE  (proc'[q] = proc[q] /\ proc[q].bh # b) \/ Settled(proc[q])'
    BY DEF Follows
  <2>1. proc'[q] = proc[q]
    BY <1>3
  <2>2. CASE proc[q].bh = b
    <3>1. proc[q].pc # "slot"
      <4>1. In(queue, b)
        BY <1>2 DEF Has, In
      <4> QED
        BY <2>2, <4>1 DEF IInv, Owned, InLoop
    <3>2. Settled(proc[q])
      BY DataParts
    <3>3. proc[q].pc = "user" => u
      BY <1>4, <1>9, <2>2, <3>2, NoneAssumption DEF Settled
    <3>4. buf'[b].uptodate = u
      BY <1>6, <1>7 DEF Becomes
    <3> QED
      BY <2>1, <2>2, <3>1, <3>3, <3>4 DEF Settled
  <2> QED
    BY <2>1, <2>2
<1>12. Enlisted(b, w)
  <2>1. \A c, y : Has(queue', c, y) <=> Has(queue, c, y) /\ c # Head(Head(queue).bhs)
    BY <1>1, <1>3, Ended
  <2> QED
    BY <1>2, <2>1 DEF Enlisted, First
<1>13. Data'
  BY <1>3, <1>7, <1>10, <1>11, <1>12, DataStep
<1>14. Shown' = Shown
  <2>1. CASE x.uptodate
    <3>1. u = x.uptodate
      BY <1>4, <1>9, <2>1 DEF Buffers
    <3> QED
      BY <1>3, <1>4, <1>6, <1>7, <3>1, ShownStep
  <2>2. CASE ~x.uptodate
    <3>1. Plain(buf, disk, b) /\ Plain(buf', disk, b)
      BY <1>4, <1>6, <1>7, <1>9, <2>2 DEF Plain, Becomes
    <3> QED
      BY <1>3, <1>7, <3>1, ShownStep
  <2> QED
    BY <2>1, <2>2
<1>15. Opened' = Opened
  BY <1>3 DEF Opened
<1> QED
  BY <1>13, <1>14, <1>15 DEF Unseen

-----------------------------------------------------------------------------
(* The steps that the file systems see.                                    *)

LEMMA PlaceOnly ==
    ASSUME IInv, Data, NEW p \in Procs, NEW v, proc' = [proc EXCEPT ![p] = v], Settled(v),
           UNCHANGED <<buf, queue, moved, disk>>
    PROVE  Data' /\ Shown' = Shown
<1>1. proc'[p] = v /\ \A q \in Procs : q # p => proc'[q] = proc[q]
  BY DEF IInv, Types
<1>2. \A c \in Bufs : Faithful(buf[c])'
  BY DataParts DEF Faithful
<1>3. \A c \in Bufs : \A y \in {"READ", "WRITE"} : Has(queue', c, y) => Suits(buf'[c], y)
  BY DataParts
<1>4. \A q \in Procs : Settled(proc[q])'
  BY <1>1, DataParts DEF Settled, Asks
<1>5. moved' => Carried'
  BY DataParts DEF Carried
<1>6. Data'
  BY <1>2, <1>3, <1>4, <1>5, DataFrom
<1>7. Shown' = Shown
  BY DEF Shown, Visible, find_buffer
<1> QED
  BY <1>6, <1>7

\* bread returns its block.
LEMMA BreadReturnReads ==
    ASSUME IInv, IInv', Data, NEW p \in Procs, BreadReturn(p)
    PROVE  /\ Data'
           /\ Unseen \/ \E n \in Blocks : Store!Read(p, n)
<1>1. PICK r \in Places : r = proc[p]
  BY ProcessOf
<1>2. r.pc = "bread" /\ r.bh \in Bufs
  BY <1>1, ProcessOf DEF BreadReturn, Turn, Ready, Stage, Places
<1>3. CASE StartWait(p, r)
  BY <1>1, <1>2, <1>3, WaitUnseen
<1>4. CASE Go(p, At(p, "brelse")) /\ UNCHANGED <<buf, requests, disk>>
  <2>1. PICK v \in Places : v = [r EXCEPT !.pc = "brelse"] /\ v.pc = "brelse"
    BY AtPlace, Names
  <2>2. Go(p, v) /\ UNCHANGED <<requests, disk>> /\ Counts
    BY <1>1, <1>4, <2>1 DEF At, Counts
  <2> QED
    BY <1>1, <1>2, <2>1, <2>2, GoUnseen
<1>5. CASE buf[r.bh].uptodate /\ Return(p, r.bh) /\ UNCHANGED <<buf, requests, disk>>
  <2>1. r.n \in Blocks
    <3>1. buf[r.bh].blk = r.n
      BY <1>1, <1>2 DEF IInv, Found
    <3>2. buf[r.bh].blk # None
      BY <1>2, <1>5, InUse
    <3> QED
      BY <3>1, <3>2 DEF Places
  <2>2. PICK v : v = [Idle EXCEPT !.bh = r.bh, !.n = r.n]
    OBVIOUS
  <2>3. v.pc = "user" /\ v.bh = r.bh /\ v.n = r.n
    BY <2>2 DEF Idle
  <2>4. r.bh # None
    BY <1>2, NoneAssumption
  <2>5. proc' = [proc EXCEPT ![p] = v]
    BY <1>1, <1>5, <2>2, <2>4 DEF Return, Go
  <2>6. Settled(v)
    BY <1>5, <2>3 DEF Settled
  <2>7. Data' /\ Shown' = Shown
    BY <1>5, <2>5, <2>6, PlaceOnly DEF requests
  <2>8. Opened[p] = None /\ Opened' = [Opened EXCEPT ![p] = r.n]
    <3>1. proc'[p] = v /\ \A q \in Procs : q # p => proc'[q] = proc[q]
      BY <2>5 DEF IInv, Types
    <3> QED
      BY <1>1, <1>2, <2>3, <3>1 DEF Opened
  <2>9. Store!Read(p, r.n)
    BY <2>7, <2>8 DEF Store!Read, Shown, Opened
  <2> QED
    BY <2>1, <2>7, <2>9
<1> QED
  BY <1>1, <1>3, <1>4, <1>5 DEF BreadReturn

\* A process in the file system has its block at hand.
LEMMA AtHand ==
    ASSUME IInv, Data, NEW p \in Procs, NEW r \in Places, r = proc[p], r.pc = "user", r.bh # None
    PROVE  /\ r.bh \in Bufs /\ r.n \in Blocks /\ buf[r.bh].blk = r.n /\ buf[r.bh].uptodate
           /\ Opened[p] = r.n
<1>1. r.bh \in Bufs
  BY DEF Places
<1>2. buf[r.bh].blk = r.n
  BY DEF IInv, Found
<1>3. buf[r.bh].uptodate
  BY DataParts DEF Settled
<1>4. r.n \in Blocks
  <2>1. buf[r.bh].blk # None
    BY <1>1, <1>3, InUse
  <2> QED
    BY <1>2, <2>1 DEF Places
<1> QED
  BY <1>1, <1>2, <1>3, <1>4 DEF Opened

LEMMA brelseReleases ==
    ASSUME IInv, Data, NEW p \in Procs, brelse(p)
    PROVE  Data' /\ Store!Release(p)
<1>1. PICK r \in Places : r = proc[p] /\ r.pc = "user" /\ r.bh # None
  BY ProcessOf DEF brelse, Turn
<1>2. Opened[p] = r.n /\ r.n # None
  BY <1>1, AtHand, NoneAssumption
<1>3. PICK v \in Places : v = [r EXCEPT !.pc = "brelse"] /\ v.pc = "brelse"
  BY AtPlace, Names
<1>4. proc' = [proc EXCEPT ![p] = v] /\ UNCHANGED <<buf, queue, moved, disk>>
  BY <1>1, <1>3 DEF brelse, Go, At, requests
<1>5. Settled(v)
  BY <1>3 DEF Settled
<1>6. Data' /\ Shown' = Shown
  BY <1>4, <1>5, PlaceOnly
<1>7. Opened' = [Opened EXCEPT ![p] = None]
  <2>1. proc'[p] = v /\ \A q \in Procs : q # p => proc'[q] = proc[q]
    BY <1>4 DEF IInv, Types
  <2> QED
    BY <1>3, <2>1 DEF Opened
<1>8. Store!Release(p)
  BY <1>2, <1>6, <1>7 DEF Store!Release, Shown, Opened
<1> QED
  BY <1>6, <1>8

LEMMA ChangeChanges ==
    ASSUME IInv, IInv', Data, NEW p \in Procs, NEW c \in Contents, Change(p, c)
    PROVE  Data' /\ Store!Change(p, c)
<1>1. PICK r \in Places : r = proc[p] /\ r.pc = "user" /\ r.bh # None
  BY ProcessOf DEF Change, Turn
<1>2. /\ r.bh \in Bufs /\ r.n \in Blocks /\ buf[r.bh].blk = r.n /\ buf[r.bh].uptodate
      /\ Opened[p] = r.n
  BY <1>1, AtHand
<1>3. queue' = queue /\ moved' = moved /\ disk' = disk /\ proc' = proc
  BY DEF Change, requests
<1>4. PICK x \in Buffers : x = buf[r.bh]
  BY <1>2, BufferOf
<1>5. PICK w : w = [x EXCEPT !.data = c, !.dirt = TRUE]
  OBVIOUS
<1>6. w.blk = x.blk /\ w.uptodate = x.uptodate /\ w.dirt = TRUE /\ w.lock = x.lock /\ w.data = c
  BY <1>5 DEF Buffers
<1>7. Becomes(r.bh, w)
  <2>1. buf' = [buf EXCEPT ![r.bh].data = c, ![r.bh].dirt = TRUE]
    BY <1>1 DEF Change
  <2>2. buf \in [Bufs -> Buffers]
    BY DEF IInv, Types
  <2>3. buf' = [buf EXCEPT ![r.bh] = w]
    BY <1>2, <1>4, <1>5, <2>1, <2>2
  <2> QED
    BY <1>2, <2>3, BecomesWhen
<1>8. Faithful(w)
  BY <1>2, <1>4, <1>6 DEF Faithful
<1>9. Follows(r.bh)
  <2> SUFFICES ASSUME NEW q \in Procs
               PROVE  (proc'[q] = proc[q] /\ proc[q].bh # r.bh) \/ Settled(proc[q])'
    BY DEF Follows
  <2>1. proc'[q] = proc[q] /\ Settled(proc[q])
    BY <1>3, DataParts
  <2>2. buf'[r.bh].uptodate = buf[r.bh].uptodate /\ buf'[r.bh].dirt = TRUE
    BY <1>4, <1>6, <1>7 DEF Becomes
  <2>3. CASE proc[q].bh = r.bh
    BY <2>1, <2>2, <2>3 DEF Settled, Asks, cmd
  <2> QED
    BY <2>1, <2>3
<1>10. Enlisted(r.bh, w)
  <2> SUFFICES ASSUME NEW b \in Bufs, NEW y \in {"READ", "WRITE"}, Has(queue', b, y)
               PROVE  (b # r.bh /\ Has(queue, b, y)) \/ (b = r.bh /\ Suits(w, y))
    BY DEF Enlisted
  <2>1. Has(queue, b, y)
    BY <1>3
  <2>2. b = r.bh => Suits(x, y)
    BY <1>4, <2>1, DataParts
  <2> QED
    BY <1>6, <2>1, <2>2 DEF Suits
<1>11. moved' => Carried'
  <2> SUFFICES ASSUME moved' PROVE Carried'
    OBVIOUS
  <2>1. Carried
    BY <1>3, DataParts
  <2>2. queue # <<>> /\ First(queue) \in Bufs
    BY <2>1, Current DEF Carried, First
  <2>3. CASE First(queue) = r.bh
    BY <1>3, <1>6, <1>7, <2>2, <2>3 DEF Carried, Becomes
  <2>4. CASE First(queue) # r.bh
    BY <1>3, <1>7, <2>1, <2>2, <2>4 DEF Carried, Becomes
  <2> QED
    BY <2>3, <2>4
<1>12. Data'
  BY <1>2, <1>3, <1>7, <1>8, <1>9, <1>10, <1>11, DataStep
<1>13. Shown' = [Shown EXCEPT ![r.n] = c]
  <2>1. Single(buf) /\ Single(buf')
    BY Views DEF IInv
  <2>2. View(buf', disk, r.n) = c
    <3>1. Shows(buf', r.bh, r.n) /\ buf'[r.bh].data = c
      BY <1>2, <1>4, <1>6, <1>7 DEF Shows, Becomes
    <3>2. PICK g : g = buf'
      OBVIOUS
    <3>3. Single(g) /\ Shows(g, r.bh, r.n) /\ g[r.bh].data = c
      BY <2>1, <3>1, <3>2
    <3>4. View(g, disk, r.n) = c
      BY <1>2, <3>3, ViewIs
    <3> QED
      BY <3>2, <3>4
  <2>3. ASSUME NEW n \in Blocks, n # r.n PROVE View(buf', disk, n) = View(buf, disk, n)
    <3>1. \A b \in Bufs : Shows(buf', b, n) <=> Shows(buf, b, n)
      BY <1>2, <1>4, <1>6, <1>7, <2>3 DEF Shows, Becomes
    <3>2. \A b \in Bufs : Shows(buf, b, n) => buf'[b].data = buf[b].data
      BY <1>2, <1>7, <2>3 DEF Shows, Becomes
    <3>3. ASSUME NEW b \in Bufs, Shows(buf, b, n) PROVE View(buf', disk, n) = View(buf, disk, n)
      <4>1. View(buf, disk, n) = buf[b].data
        BY <2>1, <3>3, ViewIs
      <4>2. View(buf', disk, n) = buf'[b].data
        <5>1. PICK g : g = buf'
          OBVIOUS
        <5>2. Single(g) /\ Shows(g, b, n)
          BY <2>1, <3>1, <3>3, <5>1
        <5>3. View(g, disk, n) = g[b].data
          BY <5>2, ViewIs
        <5> QED
          BY <5>1, <5>3
      <4> QED
        BY <3>2, <3>3, <4>1, <4>2
    <3>4. CASE \A b \in Bufs : ~Shows(buf, b, n)
      <4>1. View(buf, disk, n) = disk[n]
        BY <2>1, <3>4, ViewIs
      <4>2. View(buf', disk, n) = disk[n]
        BY <2>1, <3>1, <3>4, ViewIs
      <4> QED
        BY <4>1, <4>2
    <3> QED
      BY <3>3, <3>4
  <2>4. Visible(r.n)' = c /\ \A n \in Blocks : n # r.n => Visible(n)' = Visible(n)
    BY <1>3, <2>2, <2>3, Views
  <2> QED
    BY <1>2, <2>4 DEF Shown
<1>14. Opened' = Opened
  BY <1>3 DEF Opened
<1>15. Store!Change(p, c)
  <2>1. Opened[p] # None
    BY <1>2, NoneAssumption
  <2>2. Shown' = [Shown EXCEPT ![Opened[p]] = c]
    BY <1>2, <1>13
  <2> QED
    BY <1>14, <2>1, <2>2 DEF Store!Change, Shown, Opened
<1> QED
  BY <1>12, <1>15

-----------------------------------------------------------------------------
(* The refinement.                                                         *)

\* A step that the file systems see, or do not see at all.
Seen ==
    \/ Unseen
    \/ \E p \in Procs : \E n \in Blocks : Store!Read(p, n)
    \/ \E p \in Procs : \E c \in Contents : Store!Change(p, c)
    \/ \E p \in Procs : Store!Release(p)

LEMMA UnseenSeen == Unseen => Seen
  BY DEF Seen

LEMMA RequestSeen ==
    ASSUME IInv, IInv', Data, NEW p \in Procs, Request(p)
    PROVE  Data' /\ Seen
<1>1. EndWait(p) \/ make_request(p) \/ make_request_loop(p)
  BY DEF Request
<1> QED
  BY <1>1, EndWaitUnseen, make_requestUnseen, make_request_loopUnseen, UnseenSeen

LEMMA InterruptSeen ==
    ASSUME IInv, IInv', Data, "WRITE" \notin Failing, Interrupt
    PROVE  Data' /\ Seen
<1>1. CASE DiskTransfer
  <2>1. Transfer
    BY <1>1 DEF DiskTransfer
  <2> QED
    BY <2>1, TransferUnseen, UnseenSeen
<1>2. ASSUME NEW u \in BOOLEAN, end_request(u) PROVE Data' /\ Seen
  BY <1>2, end_requestUnseen, UnseenSeen
<1> QED
  BY <1>1, <1>2 DEF Interrupt

LEMMA NextSeen ==
    ASSUME IInv, IInv', Data, "WRITE" \notin Failing, [Next]_vars
    PROVE  Data' /\ Seen
<1>1. CASE UNCHANGED vars
  BY <1>1, StillUnseen, UnseenSeen DEF vars, requests
<1>2. CASE Interrupt
  BY <1>2, InterruptSeen
<1>3. ASSUME NEW p \in Procs, Request(p) PROVE Data' /\ Seen
  BY <1>3, RequestSeen
<1>4. ASSUME NEW p \in Procs, SyncBuffer(p) \/ SyncWrote(p) \/ fsync_dev(p) PROVE Data' /\ Seen
  BY <1>4, SyncBufferUnseen, SyncWroteUnseen, fsync_devUnseen, UnseenSeen
<1>5. ASSUME NEW p \in Procs,
             GetHashTable(p) \/ GetblkFound(p) \/ GetblkChoose(p) \/ GetblkTake(p)
      PROVE  Data' /\ Seen
  BY <1>5, GetHashTableUnseen, GetblkFoundUnseen, GetblkChooseUnseen, GetblkTakeUnseen, UnseenSeen
<1>6. ASSUME NEW p \in Procs, NEW n \in Blocks, bread(p, n) \/ \E m \in Blocks : breada(p, n, m)
      PROVE  Data' /\ Seen
  BY <1>6, breadUnseen, UnseenSeen
<1>7. ASSUME NEW p \in Procs, Got(p) \/ ReadAhead(p) \/ AheadDone(p) PROVE Data' /\ Seen
  BY <1>7, GotUnseen, ReadAheadUnseen, AheadDoneUnseen, UnseenSeen
<1>8. ASSUME NEW p \in Procs, BreadReturn(p) PROVE Data' /\ Seen
  BY <1>8, BreadReturnReads DEF Seen
<1>9. ASSUME NEW p \in Procs, NEW c \in Contents, Change(p, c) PROVE Data' /\ Seen
  BY <1>9, ChangeChanges DEF Seen
<1>10. ASSUME NEW p \in Procs, brelse(p) PROVE Data' /\ Seen
  BY <1>10, brelseReleases DEF Seen
<1>11. ASSUME NEW p \in Procs, Released(p) PROVE Data' /\ Seen
  BY <1>11, ReleasedUnseen, UnseenSeen
<1>12. ASSUME NEW p \in Procs, NEW k \in Priorities, shrink_buffers(p, k) PROVE Data' /\ Seen
  BY <1>12, shrink_buffersUnseen, UnseenSeen
<1>13. ASSUME NEW p \in Procs,
              ShrinkStart(p) \/ ShrinkBuffer(p) \/ TryToFree(p) \/ ShrinkWrote(p)
       PROVE  Data' /\ Seen
  BY <1>13, ShrinkStartUnseen, ShrinkBufferUnseen, TryToFreeUnseen, ShrinkWroteUnseen, UnseenSeen
<1> QED
  BY <1>1, <1>2, <1>3, <1>4, <1>5, <1>6, <1>7, <1>8, <1>9, <1>10, <1>11, <1>12, <1>13,
     ZenonT(60) DEF Next

LEMMA SeenByStore == Seen => [Store!Next]_(Store!vars)
<1>1. Unseen => UNCHANGED Store!vars
  BY DEF Unseen, Shown, Opened, Store!vars
<1> QED
  BY <1>1 DEF Seen, Store!Next

LEMMA StoreInit == Init => Store!Init /\ Data
<1> SUFFICES ASSUME Init PROVE Store!Init /\ Data
  OBVIOUS
<1>1. /\ buf = [b \in Bufs |-> Unused] /\ queue = <<>> /\ moved = FALSE
      /\ proc = [p \in Procs |-> Idle]
  BY DEF Init
<1>2. Unused.uptodate = FALSE /\ Unused.dirt = FALSE
  BY DEF Unused
<1>3. Data
  <2>1. \A c \in Bufs : Faithful(buf[c])
    BY <1>1, <1>2 DEF Faithful
  <2>2. \A c, y : ~Has(queue, c, y)
    <3>1. Len(<<>>) = 0 /\ \A k : k \notin 1 .. 0
      OBVIOUS
    <3> QED
      BY <1>1, <3>1 DEF Has, Spot
  <2>3. \A q \in Procs : proc[q].pc = "user" /\ proc[q].bh = None
    BY <1>1, IdleReady
  <2> QED
    BY <1>1, <2>1, <2>2, <2>3 DEF Data
<1>4. Store!Init
  <2>1. PICK c \in Contents : disk = [n \in Blocks |-> c]
    BY DEF Init
  <2>2. \A n \in Blocks : Visible(n) = c
    <3>1. \A b \in Bufs : ~buf[b].uptodate
      BY <1>1, <1>2
    <3>2. \A n : {b \in find_buffer(n) : buf[b].uptodate} = {}
      BY <3>1 DEF find_buffer
    <3>3. \A n : Visible(n) = disk[n]
      BY <3>2 DEF Visible
    <3> QED
      BY <2>1, <3>3
  <2>3. [n \in Blocks |-> Visible(n)] \in [Blocks -> Contents]
    BY <2>2
  <2>4. [p \in Procs |-> IF proc[p].pc = "user" THEN proc[p].n ELSE None] = [p \in Procs |-> None]
    BY <1>1, IdleReady
  <2> QED
    BY <2>3, <2>4 DEF Store!Init
<1> QED
  BY <1>3, <1>4

\* The cache does not show (fs/buffer.c): for every number of processes, buffers,
\* blocks and requests, what a file system reads in a block is what was last put
\* into it, and only who has the block at hand changes it, through reading,
\* writing back, recycling and freeing of buffers.  A write that fails loses the
\* change (end_request clears b_uptodate), so none does here.
THEOREM CacheImplementsStore ==
    "WRITE" \notin Failing /\ Spec => ImplementsStore
<1> SUFFICES ASSUME "WRITE" \notin Failing PROVE Spec => ImplementsStore
  OBVIOUS
<1>1. IInv /\ IInv' /\ Data /\ [Next]_vars => Data' /\ [Store!Next]_(Store!vars)
  BY NextSeen, SeenByStore
<1> QED
  BY <1>1, BufferInvariant, StoreInit, PTL DEF Spec, ImplementsStore, Store!Spec

=============================================================================
