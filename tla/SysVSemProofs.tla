---------------------------- MODULE SysVSemProofs ----------------------------
(***************************************************************************)
(* Proofs about SysVSem, for any number of processes, sets and semaphores  *)
(* and any lists of operations: the undo values balance, no sleeper is     *)
(* forgotten, and nobody on a queue comes back to a set that was freed.    *)
(***************************************************************************)
EXTENDS SysVSem, FiniteSetTheorems, WellFoundedInduction, TLAPS

-----------------------------------------------------------------------------
(* Induction over finite sets and numbers, with the property as a set.     *)

LEMMA MinIsLeast ==
    ASSUME NEW S, S \subseteq Nat, S # {}
    PROVE  Min(S) \in S /\ \A y \in S : Min(S) <= y
<1>1. PICK m \in S : \A y \in S : <<y, m>> \notin OpToRel(<, Nat)
  BY NatLessThanWellFounded, WFMin
<1>2. ASSUME NEW y \in S PROVE m <= y
  <2>1. m \in Nat /\ y \in Nat
    OBVIOUS
  <2>2. y < m => <<y, m>> \in OpToRel(<, Nat)
    BY <2>1 DEF OpToRel
  <2>3. ~(y < m)
    BY <1>1, <2>2, Zenon
  <2> QED
    BY <2>1, <2>3
<1> QED
  BY <1>2 DEF Min

LEMMA NumberInduction ==
    ASSUME NEW Q, 0 \in Q, \A n \in Nat : n \in Q => n + 1 \in Q
    PROVE  Nat \subseteq Q
<1> SUFFICES ASSUME Nat \ Q # {} PROVE FALSE
  OBVIOUS
<1> DEFINE m == Min(Nat \ Q)
<1>1. m \in Nat \ Q /\ \A y \in Nat \ Q : m <= y
  <2>1. Nat \ Q \subseteq Nat
    OBVIOUS
  <2> QED
    BY <2>1, MinIsLeast
<1> HIDE DEF m
<1>2. m # 0 /\ m - 1 \in Nat /\ ~(m <= m - 1)
  BY <1>1
<1>3. m - 1 \in Q
  BY <1>1, <1>2
<1>4. (m - 1) + 1 \in Q
  BY <1>2, <1>3
<1>5. (m - 1) + 1 = m
  BY <1>1
<1> QED
  BY <1>1, <1>4, <1>5

LEMMA SetInduction ==
    ASSUME NEW S, IsFiniteSet(S), NEW Q, {} \in Q,
           \A T \in SUBSET S : T # {} /\ (\A x \in T : T \ {x} \in Q) => T \in Q
    PROVE  S \in Q
<1> DEFINE N == {n \in Nat : \A T \in SUBSET S : Cardinality(T) = n => T \in Q}
<1>0. \A T \in SUBSET S : IsFiniteSet(T) /\ Cardinality(T) \in Nat
  BY FS_Subset, FS_CardinalityType
<1>1. 0 \in N
  BY <1>0, FS_EmptySet
<1>2. ASSUME NEW n \in Nat, n \in N PROVE n + 1 \in N
  <2> SUFFICES ASSUME NEW T \in SUBSET S, Cardinality(T) = n + 1 PROVE T \in Q
    OBVIOUS
  <2>1. IsFiniteSet(T) /\ T # {}
    BY <1>0, FS_EmptySet
  <2>2. ASSUME NEW x \in T PROVE T \ {x} \in Q
    <3>1. Cardinality(T \ {x}) = Cardinality(T) - 1
      BY <2>1, FS_RemoveElement
    <3>2. Cardinality(T \ {x}) = n /\ T \ {x} \in SUBSET S
      BY <3>1
    <3> QED
      BY <1>2, <3>2
  <2> QED
    BY <2>1, <2>2
<1>3. Nat \subseteq N
  <2> HIDE DEF N
  <2> QED
    BY <1>1, <1>2, NumberInduction
<1> QED
  BY <1>0, <1>3

-----------------------------------------------------------------------------
(* Sums over finite sets.                                                  *)

Sum(f, S) == SumFunctionOnSet(f, S)
Picked(s) == CHOOSE x \in s : TRUE
Ints(f, S) == \A x \in S : f[x] \in Int

\* g gives the sum for each of the sets in D.
SumsOn(g, f, D) ==
    g = [s \in D |-> IF s = {} THEN 0 ELSE f[Picked(s)] + g[s \ {Picked(s)}]]

LEMMA SumIsChosen ==
    ASSUME NEW f, NEW S
    PROVE  Sum(f, S) = (CHOOSE g : SumsOn(g, f, SUBSET S))[S]
  BY DEF Sum, SumFunctionOnSet, FoldFunctionOnSet, MapThenFoldSet, SumsOn, Picked

\* Such a function exists.
LEMMA SumsExist ==
    ASSUME NEW f, NEW S, IsFiniteSet(S)
    PROVE  \E g : SumsOn(g, f, SUBSET S)
<1> DEFINE D(n) == {s \in SUBSET S : Cardinality(s) <= n}
           N == {n \in Nat : \E g : SumsOn(g, f, D(n))}
<1>0. \A T \in SUBSET S : IsFiniteSet(T) /\ Cardinality(T) \in Nat
  BY FS_Subset, FS_CardinalityType
<1>1. 0 \in N
  <2> DEFINE g == [s \in D(0) |-> 0]
  <2>1. \A s \in D(0) : s = {}
    BY <1>0, FS_EmptySet
  <2>2. g = [s \in D(0) |-> IF s = {} THEN 0 ELSE f[Picked(s)] + g[s \ {Picked(s)}]]
    BY <2>1
  <2>3. SumsOn(g, f, D(0))
    BY <2>2 DEF SumsOn
  <2> QED
    BY <2>3
<1>2. ASSUME NEW n \in Nat, n \in N PROVE n + 1 \in N
  <2>1. PICK g : SumsOn(g, f, D(n))
    BY <1>2
  <2> DEFINE h == [s \in D(n + 1) |-> IF s = {} THEN 0 ELSE f[Picked(s)] + g[s \ {Picked(s)}]]
  <2>2. \A s \in D(n) : s \in D(n + 1)
    BY <1>0
  <2>3. ASSUME NEW s \in D(n) PROVE h[s] = g[s]
    <3>1. h[s] = IF s = {} THEN 0 ELSE f[Picked(s)] + g[s \ {Picked(s)}]
      BY <2>2
    <3> HIDE DEF h, D
    <3>2. g[s] = IF s = {} THEN 0 ELSE f[Picked(s)] + g[s \ {Picked(s)}]
      BY <2>1 DEF SumsOn
    <3> QED
      BY <3>1, <3>2
  <2>4. ASSUME NEW s \in D(n + 1), s # {} PROVE s \ {Picked(s)} \in D(n)
    <3>1. Picked(s) \in s /\ IsFiniteSet(s) /\ Cardinality(s) \in Nat
      BY <1>0, <2>4 DEF Picked
    <3>2. Cardinality(s \ {Picked(s)}) = Cardinality(s) - 1
      BY <3>1, FS_RemoveElement
    <3> QED
      BY <3>1, <3>2
  <2>5. h = [s \in D(n + 1) |-> IF s = {} THEN 0 ELSE f[Picked(s)] + h[s \ {Picked(s)}]]
    <3>1. \A s \in D(n + 1) : s # {} => h[s \ {Picked(s)}] = g[s \ {Picked(s)}]
      BY <2>3, <2>4
    <3> HIDE DEF D
    <3> QED
      BY <3>1
  <2>6. SumsOn(h, f, D(n + 1))
    BY <2>5 DEF SumsOn
  <2> HIDE DEF h, D
  <2>7. \E k : SumsOn(k, f, D(n + 1))
    BY <2>6
  <2> QED
    BY <2>7
<1>3. Nat \subseteq N
  <2> HIDE DEF N
  <2> QED
    BY <1>1, <1>2, NumberInduction
<1>4. Cardinality(S) \in Nat /\ D(Cardinality(S)) = SUBSET S
  <2>1. \A T \in SUBSET S : Cardinality(T) <= Cardinality(S)
    BY FS_Subset
  <2> QED
    BY <1>0, <2>1
<1> QED
  BY <1>3, <1>4

\* There is only one.
LEMMA SumsAreSums ==
    ASSUME NEW f, NEW S, IsFiniteSet(S), NEW g, SumsOn(g, f, SUBSET S), NEW T \in SUBSET S
    PROVE  g[T] = Sum(f, T)
<1> DEFINE h == CHOOSE k : SumsOn(k, f, SUBSET T)
           Q == {U \in SUBSET T : g[U] = h[U]}
<1>1. IsFiniteSet(T)
  BY FS_Subset
<1>2. SumsOn(h, f, SUBSET T) /\ Sum(f, T) = h[T]
  BY <1>1, SumsExist, SumIsChosen
<1> HIDE DEF h
<1>3. {} \in Q
  BY <1>2 DEF SumsOn
<1>4. ASSUME NEW U \in SUBSET T, U # {}, \A y \in U : U \ {y} \in Q PROVE U \in Q
  <2>1. Picked(U) \in U
    BY <1>4 DEF Picked
  <2>2. g[U \ {Picked(U)}] = h[U \ {Picked(U)}]
    BY <1>4, <2>1
  <2>3. g[U] = f[Picked(U)] + g[U \ {Picked(U)}] /\ h[U] = f[Picked(U)] + h[U \ {Picked(U)}]
    BY <1>2, <1>4 DEF SumsOn
  <2> QED
    BY <2>2, <2>3
<1>5. T \in Q
  <2> HIDE DEF Q
  <2> QED
    BY <1>1, <1>3, <1>4, SetInduction
<1> QED
  BY <1>2, <1>5

\* What a sum is: nothing for the empty set, and any element can be taken out.
LEMMA SumFirst ==
    ASSUME NEW f, NEW S, IsFiniteSet(S), S # {}
    PROVE  Sum(f, S) = f[Picked(S)] + Sum(f, S \ {Picked(S)})
<1> DEFINE g == CHOOSE k : SumsOn(k, f, SUBSET S)
<1>1. SumsOn(g, f, SUBSET S)
  BY SumsExist
<1> HIDE DEF g
<1>2. g[S] = Sum(f, S) /\ g[S \ {Picked(S)}] = Sum(f, S \ {Picked(S)})
  <2>1. S \in SUBSET S /\ S \ {Picked(S)} \in SUBSET S
    OBVIOUS
  <2> QED
    BY <1>1, <2>1, SumsAreSums, ZenonT(40)
<1>3. g[S] = f[Picked(S)] + g[S \ {Picked(S)}]
  BY <1>1 DEF SumsOn
<1> QED
  BY <1>2, <1>3

LEMMA SumEmpty == ASSUME NEW f PROVE Sum(f, {}) = 0
<1> DEFINE g == CHOOSE k : SumsOn(k, f, SUBSET {})
<1>1. IsFiniteSet({})
  BY FS_EmptySet
<1>2. SumsOn(g, f, SUBSET {}) /\ Sum(f, {}) = g[{}]
  BY <1>1, SumsExist, SumIsChosen
<1> HIDE DEF g
<1>3. g[{}] = 0
  BY <1>2 DEF SumsOn
<1> QED
  BY <1>2, <1>3

LEMMA SumType ==
    ASSUME NEW f, NEW S, IsFiniteSet(S), Ints(f, S)
    PROVE  Sum(f, S) \in Int
<1> DEFINE Q == {T \in SUBSET S : Sum(f, T) \in Int}
<1>1. {} \in Q
  BY SumEmpty
<1>2. ASSUME NEW T \in SUBSET S, T # {}, \A x \in T : T \ {x} \in Q PROVE T \in Q
  <2>1. Picked(T) \in T /\ IsFiniteSet(T)
    BY <1>2, FS_Subset DEF Picked
  <2>2. Sum(f, T) = f[Picked(T)] + Sum(f, T \ {Picked(T)})
    BY <1>2, <2>1, SumFirst
  <2>3. Sum(f, T \ {Picked(T)}) \in Int /\ f[Picked(T)] \in Int
    BY <1>2, <2>1 DEF Ints
  <2> QED
    BY <2>2, <2>3
<1>3. S \in Q
  <2> HIDE DEF Q
  <2> QED
    BY <1>1, <1>2, SetInduction
<1> QED
  BY <1>3

LEMMA SumElement ==
    ASSUME NEW f, NEW S, IsFiniteSet(S), Ints(f, S)
    PROVE  \A x \in S : Sum(f, S) = f[x] + Sum(f, S \ {x})
<1> DEFINE Q == {T \in SUBSET S : \A x \in T : Sum(f, T) = f[x] + Sum(f, T \ {x})}
<1>0. \A T \in SUBSET S : IsFiniteSet(T) /\ Ints(f, T) /\ Sum(f, T) \in Int
  BY FS_Subset, SumType DEF Ints
<1>1. {} \in Q
  OBVIOUS
<1>2. ASSUME NEW T \in SUBSET S, T # {}, \A x \in T : T \ {x} \in Q PROVE T \in Q
  <2> SUFFICES ASSUME NEW x \in T PROVE Sum(f, T) = f[x] + Sum(f, T \ {x})
    OBVIOUS
  <2> DEFINE d == Picked(T)
             R == (T \ {d}) \ {x}
  <2>1. d \in T
    BY DEF Picked
  <2>2. Sum(f, T) = f[d] + Sum(f, T \ {d})
    BY <1>0, <1>2, SumFirst
  <2> HIDE DEF d
  <2>3. CASE x = d
    BY <2>2, <2>3
  <2>4. CASE x # d
    <3>1. Sum(f, T \ {d}) = f[x] + Sum(f, R)
      BY <1>2, <2>1, <2>4
    <3>2. Sum(f, T \ {x}) = f[d] + Sum(f, (T \ {x}) \ {d})
      BY <1>2, <2>1, <2>4
    <3>3. (T \ {x}) \ {d} = R
      OBVIOUS
    <3>4. f[x] \in Int /\ f[d] \in Int /\ Sum(f, R) \in Int
      BY <1>0, <2>1 DEF Ints
    <3>5. Sum(f, T \ {x}) = f[d] + Sum(f, R)
      BY <3>2, <3>3
    <3> HIDE DEF R
    <3> QED
      BY <2>2, <3>1, <3>4, <3>5
  <2> QED
    BY <2>3, <2>4
<1>3. S \in Q
  <2> HIDE DEF Q
  <2> QED
    BY <1>1, <1>2, SetInduction
<1> QED
  BY <1>3

\* The same numbers have the same sum.
LEMMA SumSame ==
    ASSUME NEW f, NEW g, NEW S, IsFiniteSet(S), Ints(f, S), \A x \in S : f[x] = g[x]
    PROVE  Sum(f, S) = Sum(g, S)
<1> DEFINE Q == {T \in SUBSET S : Sum(f, T) = Sum(g, T)}
<1>1. {} \in Q
  BY SumEmpty
<1>2. ASSUME NEW T \in SUBSET S, T # {}, \A x \in T : T \ {x} \in Q PROVE T \in Q
  <2>1. Picked(T) \in T /\ IsFiniteSet(T)
    BY <1>2, FS_Subset DEF Picked
  <2>2. /\ Sum(f, T) = f[Picked(T)] + Sum(f, T \ {Picked(T)})
        /\ Sum(g, T) = g[Picked(T)] + Sum(g, T \ {Picked(T)})
    BY <1>2, <2>1, SumFirst
  <2>3. Sum(f, T \ {Picked(T)}) = Sum(g, T \ {Picked(T)})
    BY <1>2, <2>1
  <2>4. f[Picked(T)] = g[Picked(T)]
    BY <2>1
  <2> QED
    BY <2>2, <2>3, <2>4
<1>3. S \in Q
  <2> HIDE DEF Q
  <2> QED
    BY <1>1, <1>2, SetInduction
<1> QED
  BY <1>3

\* One number changes, and the sum by as much.
LEMMA SumChange ==
    ASSUME NEW f, NEW g, NEW S, IsFiniteSet(S), Ints(f, S), Ints(g, S),
           NEW p \in S, \A x \in S \ {p} : f[x] = g[x]
    PROVE  Sum(g, S) = Sum(f, S) + (g[p] - f[p])
<1>1. IsFiniteSet(S \ {p}) /\ Ints(f, S \ {p})
  BY FS_Subset DEF Ints
<1>2. Sum(f, S) = f[p] + Sum(f, S \ {p}) /\ Sum(g, S) = g[p] + Sum(g, S \ {p})
  BY SumElement
<1>3. Sum(f, S \ {p}) = Sum(g, S \ {p}) /\ Sum(f, S \ {p}) \in Int
  BY <1>1, SumSame, SumType
<1>4. f[p] \in Int /\ g[p] \in Int
  BY DEF Ints
<1> QED
  BY <1>2, <1>3, <1>4

\* Numbers that are not positive have a sum that is not.
LEMMA SumNotPositive ==
    ASSUME NEW f, NEW S, IsFiniteSet(S), Ints(f, S), \A x \in S : f[x] <= 0
    PROVE  Sum(f, S) <= 0
<1> DEFINE Q == {T \in SUBSET S : Sum(f, T) <= 0}
<1>0. \A T \in SUBSET S : IsFiniteSet(T) /\ Ints(f, T) /\ Sum(f, T) \in Int
  BY FS_Subset, SumType DEF Ints
<1>1. {} \in Q
  BY SumEmpty
<1>2. ASSUME NEW T \in SUBSET S, T # {}, \A x \in T : T \ {x} \in Q PROVE T \in Q
  <2>1. Picked(T) \in T /\ IsFiniteSet(T)
    BY <1>2, FS_Subset DEF Picked
  <2>2. Sum(f, T) = f[Picked(T)] + Sum(f, T \ {Picked(T)})
    BY <1>2, <2>1, SumFirst
  <2>3. /\ Sum(f, T \ {Picked(T)}) \in Int /\ Sum(f, T \ {Picked(T)}) <= 0
        /\ f[Picked(T)] \in Int /\ f[Picked(T)] <= 0
    BY <1>0, <1>2, <2>1 DEF Ints
  <2> QED
    BY <2>2, <2>3
<1>3. S \in Q
  <2> HIDE DEF Q
  <2> QED
    BY <1>1, <1>2, SetInduction
<1> QED
  BY <1>3

LEMMA SumZero ==
    ASSUME NEW f, NEW S, IsFiniteSet(S), \A x \in S : f[x] = 0
    PROVE  Sum(f, S) = 0
<1> DEFINE Q == {T \in SUBSET S : Sum(f, T) = 0}
<1>1. {} \in Q
  BY SumEmpty
<1>2. ASSUME NEW T \in SUBSET S, T # {}, \A x \in T : T \ {x} \in Q PROVE T \in Q
  <2>1. Picked(T) \in T /\ IsFiniteSet(T)
    BY <1>2, FS_Subset DEF Picked
  <2>2. Sum(f, T) = f[Picked(T)] + Sum(f, T \ {Picked(T)})
    BY <1>2, <2>1, SumFirst
  <2>3. Sum(f, T \ {Picked(T)}) = 0 /\ f[Picked(T)] = 0
    BY <1>2, <2>1
  <2> QED
    BY <2>2, <2>3
<1>3. S \in Q
  <2> HIDE DEF Q
  <2> QED
    BY <1>1, <1>2, SetInduction
<1> QED
  BY <1>3

-----------------------------------------------------------------------------
(* The inductive invariant.                                                *)

ProcState ==
    [pc : {"user", "exit"}]
    \cup [pc : {"kmalloc"}, slot : Slots]
    \cup [pc : {"slept"}, id : Ids, sops : Sops, k : Nat, queue : {"n", "z"}]
    \cup [pc : {"semctl"}, id : Ids, sems : SUBSET Sems]
    \cup [pc : {"freeary"}, id : Ids]
    \cup [pc : {"exiting"}, id : Ids, num : Sems, queue : {"n"}]

Values == [Ids -> [Sems -> Int]]

Types ==
    /\ semary \in [Slots -> Int] /\ sem_seq \in Nat
    /\ semval \in Values /\ base \in Values /\ undo \in [Procs -> Values]
    /\ freed \subseteq Ids /\ proc \in [Procs -> ProcState]
    /\ asleep \subseteq Procs /\ sig \subseteq Procs

\* Identifiers of before the last removal, which no set will have again.
Old(id) == id < sem_seq * SEMMNI
Dead(id) == Old(id) /\ ~Live(id)

\* A set has an identifier of the present sequence number or an older one.
LiveBound == \A id \in Ids : Live(id) => id < (sem_seq + 1) * SEMMNI

\* Each slot that newary has taken is reserved for one process.
Making ==
    /\ \A p \in Procs : proc[p].pc = "kmalloc" => semary[proc[p].slot] = IPC_NOID
    /\ \A p, q \in Procs : p # q /\ proc[p].pc = "kmalloc" /\ proc[q].pc = "kmalloc"
                              => proc[p].slot # proc[q].slot

\* Whoever is in a call for a set knows it by an identifier that is not given
\* to another set.
AllKnown ==
    /\ \A p \in Procs : proc[p].pc \in {"slept", "exiting"} =>
                            Live(proc[p].id) \/ Old(proc[p].id)
    /\ \A p \in Procs : proc[p].pc = "freeary" => Dead(proc[p].id)
    /\ \A id \in freed : Dead(id)

\* The state of a set begins with zeros.
Fresh ==
    \A id \in Ids : ~Old(id) /\ ~Live(id) =>
        semval[id] = Zero /\ base[id] = Zero /\ \A p \in Procs : undo[p][id] = Zero

\* Why p sleeps.
Reason(p) ==
    LET r == proc[p] IN
    IF ~Live(r.id) THEN \E q \in Procs : proc[q].pc = "freeary" /\ proc[q].id = r.id
    ELSE IF r.pc = "exiting" THEN semval[r.id][r.num] + undo[p][r.id][r.num] < 0
    ELSE IF r.queue = "z" THEN BlockedZ(r.id, r.sops[r.k])
    ELSE BlockedN(r.id, r.sops[r.k])

Sleepers ==
    /\ \A p \in Procs : proc[p].pc = "slept" => proc[p].k \in DOMAIN proc[p].sops
    /\ \A p \in asleep : proc[p].pc \in {"slept", "exiting"} /\ Reason(p)

\* The undo entries of p are where they should be: each in the list of its set,
\* one for every value to undo, except for the one that an exit has in hand, and
\* one for every value that p will have to undo when it wakes.
ListOk(p) ==
    /\ \A u \in semun[p] : u.on = u.semid
    /\ proc[p].pc = "slept" => \A k \in DOMAIN proc[p].sops :
            proc[p].sops[k].undo => Listed(p, proc[p].id, proc[p].sops[k].num)
    /\ \A id \in Ids, n \in Sems :
        /\ undo[p][id][n] # 0 => Listed(p, id, n) \/ ExitsAt(p, id, n)
        /\ ExitsAt(p, id, n) => ~Listed(p, id, n)

Lists ==
    /\ semun \in [Procs -> SUBSET Entry] /\ astray \in BOOLEAN
    /\ ~astray => \A p \in Procs : ListOk(p)

\* The parts that the three results rest on.
Structure == Types /\ LiveBound /\ Making /\ AllKnown /\ NoUseAfterFree
IInv == Structure /\ Fresh /\ UndoBalance /\ Sleepers

-----------------------------------------------------------------------------
(* Identifiers and processes.                                              *)

\* What division leaves of a multiple and a smaller number.
LEMMA Remainder ==
    ASSUME NEW m \in Nat \ {0}, NEW s \in Nat, NEW i \in 0 .. m - 1
    PROVE  (s * m + i) % m = i
<1> DEFINE N == {t \in Nat : (t * m + i) % m = i}
<1>1. 0 \in N
  OBVIOUS
<1>2. ASSUME NEW t \in Nat, t \in N PROVE t + 1 \in N
  <2>1. (t + 1) * m + i = (t * m + i) + m /\ t * m + i \in Nat
    OBVIOUS
  <2>2. ASSUME NEW a \in Nat PROVE (a + m) % m = a % m
    <3> DEFINE d == a \div m
               e == (a + m) \div m
               q == e - d - 1
    <3>1. d \in Int /\ a % m \in 0 .. m - 1 /\ a = m * d + (a % m)
      OBVIOUS
    <3>2. e \in Int /\ (a + m) % m \in 0 .. m - 1 /\ a + m = m * e + ((a + m) % m)
      OBVIOUS
    <3> HIDE DEF d, e
    <3>3. q \in Int /\ m * q = (a % m) - ((a + m) % m)
      BY <3>1, <3>2
    <3> HIDE DEF q
    <3>4. (q >= 1 => m * q >= m) /\ (q <= -1 => m * q <= -m)
      BY <3>3
    <3>5. q = 0
      BY <3>1, <3>2, <3>3, <3>4
    <3> QED
      BY <3>1, <3>2, <3>3, <3>5
  <2> QED
    BY <1>2, <2>1, <2>2
<1>3. Nat \subseteq N
  <2> HIDE DEF N
  <2> QED
    BY <1>1, <1>2, NumberInduction
<1> QED
  BY <1>3

\* The identifier that a new set gets.
LEMMA NewId ==
    ASSUME NEW s \in 0 .. MaxSeq, NEW i \in Slots
    PROVE  LET id == s * SEMMNI + i
           IN  /\ id \in Ids /\ slot(id) = i /\ s * SEMMNI <= id /\ id < (s + 1) * SEMMNI
<1> DEFINE id == s * SEMMNI + i
<1>1. SEMMNI \in Nat \ {0} /\ MaxSeq \in Nat /\ s \in Nat /\ i \in 0 .. SEMMNI - 1
  BY SEMMNIAssumption, MaxSeqAssumption DEF Slots
<1>2. slot(id) = i
  BY <1>1, Remainder DEF slot
<1>3. s * SEMMNI \in Nat /\ (s + 1) * SEMMNI = s * SEMMNI + SEMMNI
  BY <1>1
<1>4. s * SEMMNI <= id /\ id < (s + 1) * SEMMNI /\ id \in Nat
  BY <1>1, <1>3
<1>5. (s + 1) * SEMMNI <= (MaxSeq + 1) * SEMMNI
  BY <1>1
<1>6. id \in Ids
  BY <1>1, <1>3, <1>4, <1>5 DEF Ids
<1> QED
  BY <1>2, <1>4, <1>6

LEMMA IdFacts ==
    ASSUME NEW id \in Ids
    PROVE  id \in Nat /\ slot(id) \in Slots /\ id # IPC_UNUSED /\ id # IPC_NOID
<1>1. SEMMNI \in Nat \ {0} /\ id \in Nat
  BY SEMMNIAssumption, MaxSeqAssumption DEF Ids
<1>2. id % SEMMNI \in 0 .. SEMMNI - 1
  BY <1>1
<1> QED
  BY <1>1, <1>2 DEF slot, Slots, IPC_UNUSED, IPC_NOID

\* The numbers that Old compares with.
LEMMA Bounds ==
    ASSUME NEW s \in Nat
    PROVE  /\ s * SEMMNI \in Nat /\ (s + 1) * SEMMNI \in Nat
           /\ s * SEMMNI <= (s + 1) * SEMMNI /\ (s + 1) * SEMMNI <= (s + 1 + 1) * SEMMNI
  BY SEMMNIAssumption

LEMMA ProcFields ==
    ASSUME NEW r \in ProcState
    PROVE  /\ r.pc \in {"user", "exit", "kmalloc", "slept", "semctl", "freeary", "exiting"}
           /\ r.pc = "kmalloc" => r.slot \in Slots
           /\ r.pc \in {"slept", "semctl", "exiting", "freeary"} => r.id \in Ids
           /\ r.pc \in {"slept", "exiting"} => r.queue \in {"n", "z"}
           /\ r.pc = "slept" => r.sops \in Sops /\ r.k \in Nat
           /\ r.pc = "exiting" => r.num \in Sems /\ r.queue = "n"
  BY DEF ProcState

-----------------------------------------------------------------------------
(* Steps that leave the table of the sets alone.                           *)

\* A process goes back to user mode or on with its exit, or to sleep on a set
\* that is there.
Moves(q) ==
    \/ proc'[q] = proc[q]
    \/ proc'[q].pc \in {"user", "exit", "semctl"}
    \/ proc'[q].pc \in {"slept", "exiting"} /\ Live(proc'[q].id)

LEMMA StructureStep ==
    ASSUME Structure, Types', UNCHANGED <<semary, sem_seq, freed>>, \A q \in Procs : Moves(q)
    PROVE  Structure'
<1>1. \A id : (Live(id)' <=> Live(id)) /\ (Old(id)' <=> Old(id)) /\ (Dead(id)' <=> Dead(id))
  BY DEF Live, Old, Dead
<1>2. LiveBound'
  BY <1>1 DEF LiveBound, Structure
<1>3. Making'
  <2>1. ASSUME NEW q \in Procs, proc'[q].pc = "kmalloc" PROVE proc'[q] = proc[q]
    BY <2>1 DEF Moves
  <2> QED
    BY <2>1 DEF Making, Structure
<1>4. AllKnown'
  <2>1. \A q \in Procs : proc'[q].pc \in {"slept", "exiting"} =>
                            Live(proc'[q].id) \/ Old(proc'[q].id)
    BY DEF AllKnown, Structure, Moves
  <2>2. \A q \in Procs : proc'[q].pc = "freeary" => Dead(proc'[q].id)
    BY DEF AllKnown, Structure, Moves
  <2> QED
    BY <1>1, <2>1, <2>2 DEF AllKnown, Structure
<1>5. NoUseAfterFree'
  <2> SUFFICES ASSUME NEW q \in Procs, NEW id \in freed, Waits(q, id)' PROVE FALSE
    BY DEF NoUseAfterFree
  <2>1. proc'[q].pc \in {"slept", "exiting"} /\ proc'[q].id = id
    BY DEF Waits
  <2>2. Dead(id)
    BY DEF Structure, AllKnown
  <2>3. proc'[q] = proc[q]
    BY <2>1, <2>2 DEF Moves, Dead
  <2> QED
    BY <2>1, <2>3 DEF Structure, NoUseAfterFree, Waits
<1> QED
  BY <1>2, <1>3, <1>4, <1>5 DEF Structure

\* The set that p sleeps on still gives it the reason to.
StillBlocked(p) ==
    LET r == proc[p] IN
    /\ r.pc = "exiting" => semval'[r.id][r.num] + undo'[p][r.id][r.num] < 0
    /\ r.pc = "slept" /\ r.queue = "z" => semval'[r.id][r.sops[r.k].num] # 0
    /\ r.pc = "slept" /\ r.queue = "n" =>
            semval'[r.id][r.sops[r.k].num] <= semval[r.id][r.sops[r.k].num]

\* A process sleeps on.
LEMMA SleepOn ==
    ASSUME Structure, Types', Sleepers, NEW p \in asleep, proc'[p] = proc[p], UNCHANGED semary,
           \A q \in Procs : proc[q].pc = "freeary" => proc'[q] = proc[q],
           Live(proc[p].id) => StillBlocked(p)
    PROVE  proc'[p].pc \in {"slept", "exiting"} /\ Reason(p)'
<1> DEFINE r == proc[p]
<1>1. /\ r.pc \in {"slept", "exiting"} /\ Reason(p) /\ p \in Procs
      /\ r \in ProcState /\ (r.pc = "slept" => r.k \in DOMAIN r.sops)
  BY DEF Sleepers, Structure, Types
<1>2. /\ r.id \in Ids /\ r.queue \in {"n", "z"}
      /\ r.pc = "slept" => r.sops \in Sops
      /\ r.pc = "exiting" => r.num \in Sems
  BY <1>1, ProcFields
<1>3. Live(r.id)' <=> Live(r.id)
  BY DEF Live
<1>4. CASE ~Live(r.id)
  <2>1. PICK q \in Procs : proc[q].pc = "freeary" /\ proc[q].id = r.id
    BY <1>1, <1>4 DEF Reason
  <2>2. proc'[q].pc = "freeary" /\ proc'[q].id = r.id
    BY <2>1
  <2> QED
    BY <1>1, <1>3, <1>4, <2>2 DEF Reason
<1>5. CASE Live(r.id) /\ r.pc = "exiting"
  BY <1>3, <1>5 DEF Reason, StillBlocked
<1>6. CASE Live(r.id) /\ r.pc = "slept"
  <2>1. r.sops \in Seq(Sop) /\ r.sops[r.k] \in Sop
    <3>1. r.sops \in Seq(Sop)
      BY <1>2, <1>6, SopsAssumption
    <3> QED
      BY <1>1, <1>6, <3>1
  <2>2. r.sops[r.k].num \in Sems /\ r.sops[r.k].op \in Int
    BY <2>1 DEF Sop
  <2>3. semval[r.id][r.sops[r.k].num] \in Int /\ semval'[r.id][r.sops[r.k].num] \in Int
    BY <1>2, <2>2 DEF Structure, Types, Values
  <2>4. CASE r.queue = "z"
    BY <1>1, <1>3, <1>6, <2>4 DEF Reason, StillBlocked, BlockedZ
  <2>5. CASE r.queue = "n"
    <3>1. semval[r.id][r.sops[r.k].num] + r.sops[r.k].op < 0
      BY <1>1, <1>6, <2>5 DEF Reason, BlockedN
    <3>2. semval'[r.id][r.sops[r.k].num] <= semval[r.id][r.sops[r.k].num]
      BY <1>6, <2>5 DEF StillBlocked
    <3>3. semval'[r.id][r.sops[r.k].num] + r.sops[r.k].op < 0
      <4>1. \A x, y, z \in Int : x + z < 0 /\ y <= x => y + z < 0
        OBVIOUS
      <4> QED
        BY <2>2, <2>3, <3>1, <3>2, <4>1, Zenon
    <3> QED
      BY <1>1, <1>3, <1>6, <2>5, <3>3 DEF Reason, BlockedN
  <2> QED
    BY <1>2, <2>4, <2>5
<1> QED
  BY <1>1, <1>4, <1>5, <1>6

\* Nothing has changed for p.
LEMMA NothingNew ==
    ASSUME Structure, Sleepers, NEW p \in asleep,
           LET id == proc[p].id IN semval'[id] = semval[id] /\ undo'[p][id] = undo[p][id],
           Live(proc[p].id)
    PROVE  StillBlocked(p)
<1> DEFINE r == proc[p]
<1>1. /\ r.pc \in {"slept", "exiting"} /\ Reason(p) /\ p \in Procs
      /\ r \in ProcState /\ (r.pc = "slept" => r.k \in DOMAIN r.sops)
  BY DEF Sleepers, Structure, Types
<1>2. r.id \in Ids /\ (r.pc = "slept" => r.sops \in Sops)
  BY <1>1, ProcFields
<1>3. r.pc = "slept" => semval[r.id][r.sops[r.k].num] \in Int
  <2> SUFFICES ASSUME r.pc = "slept" PROVE semval[r.id][r.sops[r.k].num] \in Int
    OBVIOUS
  <2>1. r.sops \in Seq(Sop)
    BY <1>2, SopsAssumption
  <2>2. r.sops[r.k] \in Sop
    BY <1>1, <2>1
  <2>3. r.sops[r.k].num \in Sems
    BY <2>2 DEF Sop
  <2> QED
    BY <1>2, <2>3 DEF Structure, Types, Values
<1>4. r.pc = "exiting" => semval[r.id][r.num] + undo[p][r.id][r.num] < 0
  BY <1>1 DEF Reason
<1>5. r.pc = "slept" /\ r.queue = "z" => semval[r.id][r.sops[r.k].num] # 0
  BY <1>1 DEF Reason, BlockedZ
<1>6. semval'[r.id] = semval[r.id] /\ undo'[p][r.id] = undo[p][r.id]
  OBVIOUS
<1>7. \A x \in Int : x <= x
  OBVIOUS
<1>8. r.pc = "slept" => semval'[r.id][r.sops[r.k].num] <= semval[r.id][r.sops[r.k].num]
  BY <1>3, <1>6, <1>7, Zenon
<1> QED
  BY <1>4, <1>5, <1>6, <1>8, Zenon DEF StillBlocked

LEMMA SleepersStep ==
    ASSUME Structure, Types', Sleepers, UNCHANGED semary,
           \A q \in Procs : proc[q].pc = "freeary" => proc'[q] = proc[q],
           \A q \in Procs : \/ proc'[q] = proc[q] \/ proc'[q].pc # "slept"
                            \/ proc'[q].k \in DOMAIN proc'[q].sops,
           \A q \in asleep' :
               \/ q \in asleep /\ proc'[q] = proc[q] /\ (Live(proc[q].id) => StillBlocked(q))
               \/ proc'[q].pc \in {"slept", "exiting"} /\ Reason(q)'
    PROVE  Sleepers'
<1>1. \A q \in Procs : proc'[q].pc = "slept" => proc'[q].k \in DOMAIN proc'[q].sops
  BY DEF Sleepers
<1>2. ASSUME NEW q \in asleep' PROVE proc'[q].pc \in {"slept", "exiting"} /\ Reason(q)'
  <2>1. CASE q \in asleep /\ proc'[q] = proc[q] /\ (Live(proc[q].id) => StillBlocked(q))
    BY <2>1, SleepOn
  <2> QED
    BY <2>1
<1> QED
  BY <1>1, <1>2 DEF Sleepers

\* A step that changes no set, and puts nobody to sleep.
LEMMA Quiet ==
    ASSUME IInv, Types', UNCHANGED <<semary, sem_seq, freed, semval, base, undo>>, astray => astray',
           \A q \in Procs : proc'[q] = proc[q] \/ proc'[q].pc \in {"user", "exit", "semctl"},
           \A q \in Procs : proc[q].pc = "freeary" => proc'[q] = proc[q],
           asleep' \subseteq asleep, \A q \in asleep' : proc'[q] = proc[q]
    PROVE  IInv'
<1>1. Structure /\ Sleepers /\ Fresh /\ UndoBalance
  BY DEF IInv
<1>2. Structure'
  BY <1>1, StructureStep DEF Moves
<1>3. Fresh'
  BY <1>1 DEF Fresh, Old, Live
<1>4. UndoBalance'
  BY <1>1 DEF UndoBalance, Live
<1>5. Sleepers'
  <2>1. \A q \in asleep' : Live(proc[q].id) => StillBlocked(q)
    BY <1>1, NothingNew
  <2> QED
    BY <1>1, <2>1, SleepersStep
<1> QED
  BY <1>2, <1>3, <1>4, <1>5 DEF IInv

\* A process that is not on a queue is not asleep.
LEMMA Awake ==
    ASSUME IInv, NEW p \in Procs, proc[p].pc \notin {"slept", "exiting"}
    PROVE  p \notin asleep
  BY DEF IInv, Sleepers

LEMMA KeepsSemExit == ASSUME IInv, NEW p \in Procs, sem_exit(p) PROVE IInv'
<1>1. p \notin asleep /\ asleep \subseteq Procs /\ proc \in [Procs -> ProcState]
  BY Awake DEF sem_exit, IInv, Structure, Types
<1>2. [pc |-> "exit"] \in ProcState
  BY DEF ProcState
<1>3. Types'
  BY <1>1, <1>2 DEF sem_exit, IInv, Structure, Types
<1> QED
  BY <1>1, <1>3, Quiet DEF sem_exit

LEMMA KeepsExitDone == ASSUME IInv, NEW p \in Procs, ExitDone(p) PROVE IInv'
<1>1. p \notin asleep /\ asleep \subseteq Procs /\ proc \in [Procs -> ProcState]
  BY Awake DEF ExitDone, IInv, Structure, Types
<1>2. User \in ProcState /\ User.pc = "user"
  BY DEF ProcState, User
<1>3. Types'
  BY <1>1, <1>2 DEF ExitDone, Return, IInv, Structure, Types
<1> QED
  BY <1>1, <1>2, <1>3, Quiet DEF ExitDone, Return

LEMMA KeepsSendSig == ASSUME IInv, NEW p \in Procs, send_sig(p) PROVE IInv'
<1>1. Types'
  BY DEF send_sig, IInv, Structure, Types
<1> QED
  BY <1>1, Quiet DEF send_sig

-----------------------------------------------------------------------------
(* Sets are made.                                                          *)

\* A step that changes the table, but for the sets that were there or have been.
LEMMA TableStep ==
    ASSUME IInv, Types', LiveBound', Making',
           UNCHANGED <<sem_seq, freed, semval, base, undo, asleep, astray>>,
           \A id \in Ids : Live(id) => Live(id)',
           \A id \in Ids : Old(id) /\ Live(id)' => Live(id),
           \A q \in Procs : \/ proc'[q] = proc[q]
                            \/ proc[q].pc \in {"user", "kmalloc"} /\ proc'[q].pc \in {"user", "kmalloc"}
    PROVE  IInv'
<1>0. Structure /\ Fresh /\ UndoBalance /\ Sleepers /\ Types /\ AllKnown /\ NoUseAfterFree
  BY DEF IInv, Structure
<1>1. \A id : Old(id)' <=> Old(id)
  BY DEF Old
<1>2. \A q \in Procs : proc[q] \in ProcState
  BY <1>0 DEF Types
<1>3. \A q \in Procs : proc'[q].pc \in {"slept", "exiting", "freeary"} =>
                           proc'[q] = proc[q] /\ proc[q].id \in Ids
  BY <1>2, ProcFields
<1>4. \A id \in Ids : Dead(id) => Dead(id)'
  BY <1>1 DEF Dead
<1>5. AllKnown'
  <2>1. \A q \in Procs : proc'[q].pc \in {"slept", "exiting"} =>
                            Live(proc[q].id)' \/ Old(proc[q].id)'
    BY <1>0, <1>1, <1>3 DEF AllKnown
  <2>2. \A q \in Procs : proc'[q].pc = "freeary" => Dead(proc[q].id)'
    BY <1>0, <1>3, <1>4 DEF AllKnown
  <2>3. \A id \in freed' : Dead(id)'
    BY <1>0, <1>4 DEF AllKnown, Types
  <2> QED
    BY <2>1, <2>2, <2>3 DEF AllKnown
<1>6. NoUseAfterFree'
  <2> SUFFICES ASSUME NEW q \in Procs, NEW id \in freed, Waits(q, id)' PROVE FALSE
    BY DEF NoUseAfterFree
  <2>1. proc'[q] = proc[q]
    BY <1>3 DEF Waits
  <2> QED
    BY <1>0, <2>1 DEF NoUseAfterFree, Waits
<1>7. Fresh'
  BY <1>0, <1>1 DEF Fresh
<1>8. UndoBalance'
  <2> SUFFICES ASSUME ~astray, NEW id \in Ids, Live(id)', NEW n \in Sems
               PROVE  semval[id][n] + SumAdj(undo, id, n) = base[id][n]
    BY DEF UndoBalance
  <2>1. CASE Live(id)
    BY <1>0, <2>1 DEF UndoBalance
  <2>2. CASE ~Live(id)
    <3>1. semval[id] = Zero /\ base[id] = Zero /\ \A q \in Procs : undo[q][id] = Zero
      BY <1>0, <2>2 DEF Fresh
    <3>2. semval[id][n] = 0 /\ base[id][n] = 0 /\ \A q \in Procs : undo[q][id][n] = 0
      BY <3>1 DEF Zero
    <3>3. SumAdj(undo, id, n) = 0
      BY <3>2, SumZero, ProcsAssumption DEF SumAdj, Sum
    <3> QED
      BY <3>2, <3>3
  <2> QED
    BY <2>1, <2>2
<1>9. Sleepers'
  <2>1. \A q \in Procs : proc'[q].pc = "slept" => proc'[q].k \in DOMAIN proc'[q].sops
    BY <1>0, <1>3 DEF Sleepers
  <2>2. ASSUME NEW q \in asleep PROVE proc'[q].pc \in {"slept", "exiting"} /\ Reason(q)'
    <3>1. q \in Procs /\ proc[q].pc \in {"slept", "exiting"} /\ Reason(q)
      BY <1>0 DEF Types, Sleepers
    <3>2. proc'[q] = proc[q] /\ proc[q].id \in Ids
      BY <1>2, <3>1, ProcFields
    <3>3. Live(proc[q].id)' <=> Live(proc[q].id)
      BY <1>0, <3>1, <3>2 DEF AllKnown
    <3>4. CASE Live(proc[q].id)
      BY <3>1, <3>2, <3>3, <3>4 DEF Reason, BlockedZ, BlockedN
    <3>5. CASE ~Live(proc[q].id)
      <4>1. PICK f \in Procs : proc[f].pc = "freeary" /\ proc[f].id = proc[q].id
        BY <3>1, <3>5 DEF Reason
      <4>2. proc'[f] = proc[f]
        BY <4>1
      <4> QED
        BY <3>1, <3>2, <3>3, <3>5, <4>1, <4>2 DEF Reason
    <3> QED
      BY <3>4, <3>5
  <2> QED
    BY <2>1, <2>2 DEF Sleepers
<1> QED
  BY <1>5, <1>6, <1>7, <1>8, <1>9 DEF IInv, Structure

LEMMA KeepsNewary == ASSUME IInv, NEW p \in Procs, newary(p) PROVE IInv'
<1>0. /\ semary \in [Slots -> Int] /\ proc \in [Procs -> ProcState] /\ sem_seq \in Nat
      /\ LiveBound /\ Making
  BY DEF IInv, Structure, Types
<1>1. PICK i \in Slots :
         /\ semary[i] = IPC_UNUSED
         /\ semary' = [semary EXCEPT ![i] = IPC_NOID]
         /\ proc' = [proc EXCEPT ![p] = [pc |-> "kmalloc", slot |-> i]]
  BY DEF newary
<1>2. /\ proc[p].pc = "user"
      /\ UNCHANGED <<sem_seq, semval, freed, undo, asleep, sig, base, astray>>
  BY DEF newary
<1>3. \A id \in Ids : Live(id)' <=> Live(id)
  <2> TAKE id \in Ids
  <2>1. slot(id) \in Slots /\ id # IPC_UNUSED /\ id # IPC_NOID
    BY IdFacts
  <2> QED
    BY <1>0, <1>1, <2>1 DEF Live
<1>4. Types'
  <2>1. [pc |-> "kmalloc", slot |-> i] \in ProcState
    BY DEF ProcState
  <2>2. IPC_NOID \in Int
    BY DEF IPC_NOID
  <2>3. semary' \in [Slots -> Int] /\ proc' \in [Procs -> ProcState]
    BY <1>0, <1>1, <2>1, <2>2
  <2> QED
    BY <1>2, <2>3 DEF IInv, Structure, Types
<1>5. LiveBound'
  BY <1>0, <1>2, <1>3 DEF LiveBound
<1>6. Making'
  <2>1. ASSUME NEW q \in Procs, q # p, proc'[q].pc = "kmalloc"
        PROVE  proc'[q] = proc[q] /\ proc[q].slot # i /\ semary'[proc[q].slot] = IPC_NOID
    <3>1. proc'[q] = proc[q]
      BY <1>0, <1>1, <2>1
    <3>2. semary[proc[q].slot] = IPC_NOID /\ proc[q].slot \in Slots
      BY <1>0, <2>1, <3>1, ProcFields DEF Making
    <3>3. IPC_NOID # IPC_UNUSED
      BY DEF IPC_NOID, IPC_UNUSED
    <3> QED
      BY <1>0, <1>1, <3>1, <3>2, <3>3
  <2>2. proc'[p].slot = i /\ semary'[i] = IPC_NOID
    BY <1>0, <1>1
  <2> QED
    BY <1>0, <2>1, <2>2 DEF Making
<1>7. \A q \in Procs : \/ proc'[q] = proc[q]
                       \/ proc[q].pc \in {"user", "kmalloc"} /\ proc'[q].pc \in {"user", "kmalloc"}
  BY <1>0, <1>1, <1>2
<1> QED
  BY <1>2, <1>3, <1>4, <1>5, <1>6, <1>7, TableStep

LEMMA KeepsNewaryDone == ASSUME IInv, NEW p \in Procs, NewaryDone(p) PROVE IInv'
<1> DEFINE s == proc[p].slot
           new == sem_seq * SEMMNI + s
<1>0. /\ semary \in [Slots -> Int] /\ proc \in [Procs -> ProcState] /\ sem_seq \in Nat
      /\ LiveBound /\ Making
  BY DEF IInv, Structure, Types
<1>1. /\ proc[p].pc = "kmalloc" /\ proc' = [proc EXCEPT ![p] = User] /\ sig' = sig \ {p}
      /\ UNCHANGED <<sem_seq, semval, freed, undo, asleep, base, astray>>
  BY DEF NewaryDone, Return
<1>2. s \in Slots /\ semary[s] = IPC_NOID
  BY <1>0, <1>1, ProcFields DEF Making
<1>3. \/ sem_seq <= MaxSeq /\ semary' = [semary EXCEPT ![s] = new]
      \/ semary' = [semary EXCEPT ![s] = IPC_UNUSED]
  BY DEF NewaryDone
<1>4. sem_seq <= MaxSeq => /\ new \in Ids /\ slot(new) = s
                           /\ sem_seq * SEMMNI <= new /\ new < (sem_seq + 1) * SEMMNI
  <2> SUFFICES ASSUME sem_seq <= MaxSeq
               PROVE  /\ new \in Ids /\ slot(new) = s
                      /\ sem_seq * SEMMNI <= new /\ new < (sem_seq + 1) * SEMMNI
    OBVIOUS
  <2>1. sem_seq \in 0 .. MaxSeq
    BY <1>0, MaxSeqAssumption
  <2> QED
    BY <1>2, <2>1, NewId
<1> HIDE DEF new
<1>5. \A id \in Ids : Live(id)' => Live(id) \/ (sem_seq <= MaxSeq /\ id = new)
  <2> TAKE id \in Ids
  <2>1. slot(id) \in Slots /\ id # IPC_UNUSED /\ id # IPC_NOID
    BY IdFacts
  <2> QED
    BY <1>0, <1>2, <1>3, <2>1 DEF Live
<1>6. \A id \in Ids : Live(id) => Live(id)'
  <2> TAKE id \in Ids
  <2>1. slot(id) \in Slots /\ id # IPC_UNUSED /\ id # IPC_NOID
    BY IdFacts
  <2> QED
    BY <1>0, <1>2, <1>3, <2>1 DEF Live
<1>7. sem_seq <= MaxSeq => ~Old(new) /\ new < (sem_seq + 1) * SEMMNI
  <2>1. sem_seq * SEMMNI \in Nat
    BY <1>0, Bounds
  <2>2. new \in Ids => new \in Nat
    BY IdFacts
  <2> QED
    BY <1>4, <2>1, <2>2 DEF Old
<1>8. Types'
  <2>1. User \in ProcState
    BY DEF ProcState, User
  <2>2. IPC_UNUSED \in Int /\ (sem_seq <= MaxSeq => new \in Int)
    BY <1>4, IdFacts DEF IPC_UNUSED
  <2>3. semary' \in [Slots -> Int] /\ proc' \in [Procs -> ProcState]
    BY <1>0, <1>1, <1>3, <2>1, <2>2
  <2> QED
    BY <1>1, <2>3 DEF IInv, Structure, Types
<1>9. LiveBound'
  BY <1>0, <1>1, <1>5, <1>7 DEF LiveBound
<1>10. Making'
  <2>1. ASSUME NEW q \in Procs, proc'[q].pc = "kmalloc"
        PROVE  q # p /\ proc'[q] = proc[q] /\ semary'[proc[q].slot] = IPC_NOID
    <3>1. q # p /\ proc'[q] = proc[q]
      BY <1>0, <1>1, <2>1 DEF User
    <3>2. semary[proc[q].slot] = IPC_NOID /\ proc[q].slot \in Slots /\ proc[q].slot # s
      BY <1>0, <1>1, <2>1, <3>1, ProcFields DEF Making
    <3> QED
      BY <1>0, <1>3, <3>1, <3>2
  <2> QED
    BY <1>0, <2>1 DEF Making
<1>11. \A q \in Procs : \/ proc'[q] = proc[q]
                        \/ proc[q].pc \in {"user", "kmalloc"} /\ proc'[q].pc \in {"user", "kmalloc"}
  BY <1>0, <1>1 DEF User
<1>12. \A id \in Ids : Old(id) /\ Live(id)' => Live(id)
  BY <1>5, <1>7
<1> QED
  BY <1>1, <1>6, <1>8, <1>9, <1>10, <1>11, <1>12, TableStep

-----------------------------------------------------------------------------
(* Sets are removed.                                                       *)

\* What Cleared leaves of the undo values.
LEMMA ClearedValues ==
    ASSUME Types, NEW id \in Ids, NEW S, NEW q \in Procs
    PROVE  /\ Cleared(id, S) \in [Procs -> Values]
           /\ \A j \in Ids : j # id => Cleared(id, S)[q][j] = undo[q][j]
           /\ \A n \in Sems : Cleared(id, S)[q][id][n] =
                  IF n \in S /\ Listed(q, id, n) THEN 0 ELSE undo[q][id][n]
<1>1. undo \in [Procs -> Values]
  BY DEF Types
<1>2. \A r \in Procs : undo[r] \in [Ids -> [Sems -> Int]] /\ undo[r][id] \in [Sems -> Int]
  BY <1>1 DEF Values
<1> DEFINE C(r) == [n \in Sems |-> IF n \in S /\ Listed(r, id, n) THEN 0 ELSE undo[r][id][n]]
<1>3. \A r \in Procs : C(r) \in [Sems -> Int]
  BY <1>2
<1>4. Cleared(id, S) = [r \in Procs |-> [undo[r] EXCEPT ![id] = C(r)]]
  BY DEF Cleared
<1>5. \A n \in Sems : C(q)[n] = IF n \in S /\ Listed(q, id, n) THEN 0 ELSE undo[q][id][n]
  OBVIOUS
<1> HIDE DEF C
<1>6. \A r \in Procs : [undo[r] EXCEPT ![id] = C(r)] \in Values
  BY <1>2, <1>3 DEF Values
<1>7. Cleared(id, S)[q] = [undo[q] EXCEPT ![id] = C(q)]
  BY <1>4
<1>8. Cleared(id, S)[q][id] = C(q) /\ \A j \in Ids : j # id => Cleared(id, S)[q][j] = undo[q][j]
  BY <1>2, <1>7
<1> QED
  BY <1>4, <1>5, <1>6, <1>8

\* A set keeps its balance when nothing of it changes.
LEMMA SameBalance ==
    ASSUME UndoBalance, ~astray, NEW j \in Ids, Live(j), NEW n \in Sems,
           semval'[j] = semval[j], base'[j] = base[j],
           \A q \in Procs : undo'[q][j] = undo[q][j]
    PROVE  semval'[j][n] + SumAdj(undo', j, n) = base'[j][n]
<1>1. [q \in Procs |-> undo'[q][j][n]] = [q \in Procs |-> undo[q][j][n]]
  OBVIOUS
<1>2. SumAdj(undo', j, n) = SumAdj(undo, j, n)
  BY <1>1 DEF SumAdj
<1> QED
  BY <1>2 DEF UndoBalance

LEMMA KeepsFreeary == ASSUME IInv, NEW p \in Procs, NEW id \in Ids, freeary(p, id) PROVE IInv'
<1>0. Types /\ LiveBound /\ Making /\ AllKnown /\ NoUseAfterFree /\ Fresh /\ UndoBalance /\ Sleepers
  BY DEF IInv, Structure
<1>1. /\ proc[p].pc = "user" /\ Live(id)
      /\ semary' = [semary EXCEPT ![slot(id)] = IPC_UNUSED] /\ sem_seq' = sem_seq + 1
      /\ undo' = Cleared(id, Sems) /\ proc' = [proc EXCEPT ![p] = [pc |-> "freeary", id |-> id]]
      /\ base' = [base EXCEPT ![id] = Zero] /\ UNCHANGED <<semval, freed, asleep, sig, astray>>
  BY DEF freeary
<1>2. /\ semary \in [Slots -> Int] /\ proc \in [Procs -> ProcState] /\ sem_seq \in Nat
      /\ base \in Values /\ slot(id) \in Slots
  BY <1>0, IdFacts DEF Types
<1>3. \A j \in Ids : Live(j)' <=> Live(j) /\ j # id
  <2> TAKE j \in Ids
  <2>1. slot(j) \in Slots /\ j # IPC_UNUSED
    BY IdFacts
  <2>2. CASE slot(j) = slot(id)
    BY <1>1, <1>2, <2>1, <2>2 DEF Live
  <2>3. CASE slot(j) # slot(id)
    BY <1>1, <1>2, <2>1, <2>3 DEF Live
  <2> QED
    BY <2>2, <2>3
<1>4. \A j \in Ids : Live(j) \/ Old(j) => Old(j)'
  <2> TAKE j \in Ids
  <2>1. j \in Nat
    BY IdFacts
  <2>2. /\ sem_seq * SEMMNI \in Nat /\ (sem_seq + 1) * SEMMNI \in Nat
        /\ sem_seq * SEMMNI <= (sem_seq + 1) * SEMMNI
    BY <1>2, Bounds
  <2>3. Old(j)' <=> j < (sem_seq + 1) * SEMMNI
    BY <1>1 DEF Old
  <2>4. Live(j) => j < (sem_seq + 1) * SEMMNI
    BY <1>0 DEF LiveBound
  <2>5. Old(j) => j < (sem_seq + 1) * SEMMNI
    BY <2>1, <2>2 DEF Old
  <2> QED
    BY <2>3, <2>4, <2>5
<1>5. \A q \in Procs : q # p => proc'[q] = proc[q]
  BY <1>1, <1>2
<1>6. proc'[p].pc = "freeary" /\ proc'[p].id = id
  BY <1>1, <1>2
<1>7. \A q \in Procs : /\ proc'[q].pc \in {"slept", "exiting"} => proc[q].id \in Ids /\ q # p
                       /\ proc'[q].pc = "freeary" /\ q # p => proc[q].id \in Ids
  BY <1>2, <1>5, <1>6, ProcFields
<1>8. Types'
  <2>1. [pc |-> "freeary", id |-> id] \in ProcState
    BY DEF ProcState
  <2>2. semary' \in [Slots -> Int]
    BY <1>1, <1>2 DEF IPC_UNUSED
  <2>3. proc' \in [Procs -> ProcState]
    BY <1>1, <1>2, <2>1
  <2>4. Zero \in [Sems -> Int]
    BY DEF Zero
  <2>5. base' \in Values
    BY <1>1, <1>2, <2>4 DEF Values
  <2>6. undo' \in [Procs -> Values]
    BY <1>0, <1>1, ClearedValues
  <2>7. sem_seq' \in Nat
    BY <1>1, <1>2
  <2> QED
    BY <1>0, <1>1, <2>2, <2>3, <2>5, <2>6, <2>7 DEF Types
<1>9. LiveBound'
  <2> SUFFICES ASSUME NEW j \in Ids, Live(j)' PROVE j < (sem_seq' + 1) * SEMMNI
    BY DEF LiveBound
  <2>1. /\ j \in Nat /\ (sem_seq + 1) * SEMMNI \in Nat
        /\ (sem_seq + 1) * SEMMNI <= (sem_seq + 1 + 1) * SEMMNI
        /\ (sem_seq + 1 + 1) * SEMMNI \in Nat
    BY <1>2, IdFacts, Bounds
  <2>2. j < (sem_seq + 1) * SEMMNI
    BY <1>0, <1>3 DEF LiveBound
  <2>3. sem_seq' + 1 = sem_seq + 1 + 1
    BY <1>1
  <2>4. j < (sem_seq + 1 + 1) * SEMMNI
    BY <2>1, <2>2
  <2> QED
    BY <2>3, <2>4
<1>10. Making'
  <2>1. ASSUME NEW q \in Procs, proc'[q].pc = "kmalloc"
        PROVE  proc'[q] = proc[q] /\ semary'[proc[q].slot] = IPC_NOID
    <3>1. proc'[q] = proc[q]
      BY <1>5, <1>6, <2>1
    <3>2. semary[proc[q].slot] = IPC_NOID /\ proc[q].slot \in Slots
      BY <1>0, <1>2, <2>1, <3>1, ProcFields DEF Making
    <3>3. semary[slot(id)] # IPC_NOID
      BY <1>1, IdFacts DEF Live
    <3> QED
      BY <1>1, <1>2, <3>1, <3>2, <3>3
  <2> QED
    BY <1>0, <2>1 DEF Making
<1>11. \A j \in Ids : Dead(j) => Dead(j)'
  BY <1>3, <1>4 DEF Dead
<1>12. AllKnown'
  <2>1. \A q \in Procs : proc'[q].pc \in {"slept", "exiting"} => Old(proc[q].id)'
    <3> SUFFICES ASSUME NEW q \in Procs, proc'[q].pc \in {"slept", "exiting"}
                 PROVE  Old(proc[q].id)'
      OBVIOUS
    <3>1. proc[q].id \in Ids /\ proc'[q] = proc[q]
      BY <1>5, <1>7
    <3>2. Live(proc[q].id) \/ Old(proc[q].id)
      BY <1>0, <3>1 DEF AllKnown
    <3>3. PICK j \in Ids : j = proc[q].id
      BY <3>1
    <3>4. Old(j)'
      BY <1>4, <3>2, <3>3
    <3> QED
      BY <3>1, <3>3, <3>4 DEF Old
  <2>2. \A q \in Procs : proc'[q].pc = "freeary" => Dead(proc[q].id)'
    <3> SUFFICES ASSUME NEW q \in Procs, proc'[q].pc = "freeary" PROVE Dead(proc[q].id)'
      OBVIOUS
    <3>1. CASE q = p
      <4>1. Dead(id)'
        BY <1>1, <1>3, <1>4 DEF Dead
      <4> QED
        BY <1>6, <3>1, <4>1 DEF Dead, Old, Live, slot
    <3>2. CASE q # p
      <4>1. proc'[q] = proc[q] /\ proc[q].id \in Ids
        BY <1>5, <1>7, <3>2
      <4>2. PICK j \in Ids : j = proc[q].id
        BY <4>1
      <4>3. Dead(j)'
        BY <1>0, <1>11, <4>1, <4>2 DEF AllKnown
      <4> QED
        BY <4>1, <4>2, <4>3 DEF Dead, Old, Live, slot
    <3> QED
      BY <3>1, <3>2
  <2>3. \A j \in freed' : Dead(j)'
    BY <1>0, <1>1, <1>11 DEF AllKnown, Types
  <2> QED
    BY <2>1, <2>2, <2>3 DEF AllKnown
<1>13. NoUseAfterFree'
  <2> SUFFICES ASSUME NEW q \in Procs, NEW j \in freed, Waits(q, j)' PROVE FALSE
    BY <1>1 DEF NoUseAfterFree
  <2>1. proc'[q] = proc[q]
    BY <1>5, <1>7 DEF Waits
  <2> QED
    BY <1>0, <2>1 DEF NoUseAfterFree, Waits
<1>14. \A j \in Ids : j # id => /\ semval'[j] = semval[j] /\ base'[j] = base[j]
                                /\ \A q \in Procs : undo'[q][j] = undo[q][j]
  <2>1. \A j \in Ids : j # id => base'[j] = base[j]
    BY <1>1, <1>2 DEF Values
  <2>2. \A q \in Procs : \A j \in Ids : j # id => undo'[q][j] = undo[q][j]
    BY <1>0, <1>1, ClearedValues
  <2> QED
    BY <1>1, <2>1, <2>2
<1>15. Fresh'
  <2> SUFFICES ASSUME NEW j \in Ids, ~Old(j)', ~Live(j)'
               PROVE  semval'[j] = Zero /\ base'[j] = Zero /\ \A q \in Procs : undo'[q][j] = Zero
    BY DEF Fresh
  <2>1. ~Old(j) /\ ~Live(j) /\ j # id
    BY <1>1, <1>4
  <2> QED
    BY <1>0, <1>14, <2>1 DEF Fresh
<1>16. UndoBalance'
  <2> SUFFICES ASSUME ~astray', NEW j \in Ids, Live(j)', NEW n \in Sems
               PROVE  semval'[j][n] + SumAdj(undo', j, n) = base'[j][n]
    BY DEF UndoBalance, SumAdj
  <2>1. Live(j) /\ j # id
    BY <1>3
  <2> QED
    BY <1>0, <1>1, <1>14, <2>1, SameBalance
<1>17. Sleepers'
  <2>1. \A q \in Procs : proc'[q].pc = "slept" => proc'[q].k \in DOMAIN proc'[q].sops
    BY <1>0, <1>5, <1>6 DEF Sleepers
  <2>2. ASSUME NEW q \in asleep PROVE proc'[q].pc \in {"slept", "exiting"} /\ Reason(q)'
    <3>1. q \in Procs /\ proc[q].pc \in {"slept", "exiting"} /\ Reason(q) /\ q # p
      BY <1>0, <1>1 DEF Types, Sleepers
    <3>2. proc'[q] = proc[q] /\ proc[q].id \in Ids
      BY <1>2, <1>5, <3>1, ProcFields
    <3>3. PICK j \in Ids : j = proc[q].id
      BY <3>2
    <3>4. Live(j)' <=> Live(j) /\ j # id
      BY <1>3
    <3>5. CASE j = id
      <4>1. ~Live(proc[q].id)'
        BY <3>2, <3>3, <3>4, <3>5 DEF Live, slot
      <4> QED
        BY <1>6, <3>1, <3>2, <3>3, <3>5, <4>1 DEF Reason
    <3>6. CASE j # id /\ ~Live(j)
      <4>1. PICK f \in Procs : proc[f].pc = "freeary" /\ proc[f].id = j
        BY <3>1, <3>3, <3>6 DEF Reason
      <4>2. f # p /\ proc'[f] = proc[f]
        BY <1>1, <1>5, <4>1
      <4>3. ~Live(proc[q].id)'
        BY <3>2, <3>3, <3>4, <3>6 DEF Live, slot
      <4> QED
        BY <3>1, <3>2, <3>3, <4>1, <4>2, <4>3 DEF Reason
    <3>7. CASE j # id /\ Live(j)
      <4>1. Live(proc[q].id)' /\ Live(proc[q].id)
        BY <3>2, <3>3, <3>4, <3>7 DEF Live, slot
      <4>2. semval'[j] = semval[j] /\ undo'[q][j] = undo[q][j]
        BY <1>14, <3>1, <3>7
      <4> QED
        BY <3>1, <3>2, <3>3, <4>1, <4>2 DEF Reason, BlockedZ, BlockedN
    <3> QED
      BY <3>5, <3>6, <3>7
  <2> QED
    BY <1>1, <2>1, <2>2 DEF Sleepers
<1> QED
  BY <1>8, <1>9, <1>10, <1>12, <1>13, <1>15, <1>16, <1>17 DEF IInv, Structure

\* Everybody who is on a queue of a set is in one of the two.
LEMMA WaitingAll ==
    ASSUME Types, NEW q \in Procs, NEW id
    PROVE  Waits(q, id) <=> q \in eventn(id) \cup eventz(id)
<1>1. proc[q] \in ProcState
  BY DEF Types
<1>2. Waits(q, id) => proc[q].queue \in {"n", "z"}
  BY <1>1, ProcFields DEF Waits
<1> QED
  BY <1>2 DEF eventn, eventz

LEMMA KeepsFreearyLoop == ASSUME IInv, NEW p \in Procs, FreearyLoop(p) PROVE IInv'
<1> DEFINE id == proc[p].id
<1>0. /\ Structure /\ Types /\ LiveBound /\ Making /\ AllKnown /\ NoUseAfterFree
      /\ Fresh /\ UndoBalance /\ Sleepers
  BY DEF IInv, Structure
<1>1. proc[p].pc = "freeary" /\ UNCHANGED <<semary, sem_seq, undo, base, astray>>
  BY DEF FreearyLoop
<1>2. /\ proc \in [Procs -> ProcState] /\ semval \in Values /\ id \in Ids
      /\ Dead(id) /\ p \notin asleep /\ asleep \subseteq Procs
  BY <1>0, <1>1, ProcFields, Awake DEF Types, AllKnown
<1>3. CASE asleep' = asleep \ Waiting(id) /\ UNCHANGED <<semval, freed, proc, sig>>
  <2>1. Types'
    BY <1>0, <1>1, <1>3 DEF Types
  <2> QED
    BY <1>1, <1>3, <2>1, Quiet
<1>4. CASE /\ Waiting(id) = {} /\ freed' = freed \cup {id} /\ asleep' = asleep
           /\ semval' = [semval EXCEPT ![id] = Zero]
           /\ proc' = [proc EXCEPT ![p] = User] /\ sig' = sig \ {p}
  <2>1. \A q \in Procs : ~Waits(q, id)
    BY <1>0, <1>4, WaitingAll DEF Waiting
  <2>2. \A j : (Live(j)' <=> Live(j)) /\ (Old(j)' <=> Old(j)) /\ (Dead(j)' <=> Dead(j))
    BY <1>1 DEF Live, Old, Dead
  <2>3. /\ \A q \in Procs : q # p => proc'[q] = proc[q]
        /\ proc'[p].pc = "user"
    BY <1>2, <1>4 DEF User
  <2>4. \A j \in Ids : j # id => semval'[j] = semval[j]
    BY <1>2, <1>4 DEF Values
  <2>5. Types'
    <3>1. User \in ProcState /\ Zero \in [Sems -> Int]
      BY DEF ProcState, User, Zero
    <3>2. proc' \in [Procs -> ProcState]
      BY <1>2, <1>4, <3>1
    <3>3. semval' \in Values
      BY <1>2, <1>4, <3>1 DEF Values
    <3>4. freed' \subseteq Ids
      BY <1>0, <1>2, <1>4 DEF Types
    <3> QED
      BY <1>0, <1>1, <1>4, <3>2, <3>3, <3>4 DEF Types
  <2>6. LiveBound' /\ Making'
    BY <1>0, <1>1, <2>2, <2>3 DEF LiveBound, Making
  <2>7. AllKnown'
    <3>1. \A q \in Procs : proc'[q].pc \in {"slept", "exiting"} =>
                              Live(proc[q].id)' \/ Old(proc[q].id)'
      BY <1>0, <2>2, <2>3 DEF AllKnown
    <3>2. \A q \in Procs : proc'[q].pc = "freeary" => Dead(proc[q].id)'
      BY <1>0, <2>2, <2>3 DEF AllKnown
    <3>3. \A j \in freed' : Dead(j)'
      BY <1>0, <1>2, <1>4, <2>2 DEF AllKnown
    <3> QED
      BY <3>1, <3>2, <3>3 DEF AllKnown
  <2>8. NoUseAfterFree'
    <3> SUFFICES ASSUME NEW q \in Procs, NEW j \in freed', Waits(q, j)' PROVE FALSE
      BY DEF NoUseAfterFree
    <3>1. proc'[q] = proc[q] /\ Waits(q, j)
      BY <2>3 DEF Waits
    <3> QED
      BY <1>0, <1>4, <2>1, <3>1 DEF NoUseAfterFree
  <2>9. Fresh'
    BY <1>0, <1>1, <1>2, <2>2, <2>4 DEF Fresh, Dead
  <2>10. UndoBalance'
    <3> SUFFICES ASSUME ~astray', NEW j \in Ids, Live(j), NEW n \in Sems
                 PROVE  semval'[j][n] + SumAdj(undo', j, n) = base'[j][n]
      BY <2>2 DEF UndoBalance, SumAdj
    <3>1. j # id
      BY <1>2 DEF Dead
    <3> QED
      BY <1>0, <1>1, <2>4, <3>1, SameBalance
  <2>11. Sleepers'
    <3>1. \A q \in Procs : proc'[q].pc = "slept" => proc'[q].k \in DOMAIN proc'[q].sops
      BY <1>0, <2>3 DEF Sleepers
    <3>2. ASSUME NEW q \in asleep PROVE proc'[q].pc \in {"slept", "exiting"} /\ Reason(q)'
      <4>1. q \in Procs /\ proc[q].pc \in {"slept", "exiting"} /\ Reason(q) /\ q # p
        BY <1>0, <1>2 DEF Types, Sleepers
      <4>2. proc'[q] = proc[q] /\ proc[q].id \in Ids /\ proc[q].id # id
        BY <1>2, <2>1, <2>3, <4>1, ProcFields DEF Waits
      <4>3. Live(proc[q].id)' <=> Live(proc[q].id)
        BY <1>1, <4>2 DEF Live, slot
      <4>4. CASE ~Live(proc[q].id)
        <5>1. PICK f \in Procs : proc[f].pc = "freeary" /\ proc[f].id = proc[q].id
          BY <4>1, <4>4 DEF Reason
        <5>2. f # p /\ proc'[f] = proc[f]
          BY <2>3, <4>2, <5>1
        <5> QED
          BY <4>1, <4>2, <4>3, <4>4, <5>1, <5>2 DEF Reason
      <4>5. CASE Live(proc[q].id)
        <5>1. semval'[proc[q].id] = semval[proc[q].id] /\ undo' = undo
          BY <1>1, <2>4, <4>2
        <5> QED
          BY <4>1, <4>2, <4>3, <4>5, <5>1 DEF Reason, BlockedZ, BlockedN
      <4> QED
        BY <4>4, <4>5
    <3> QED
      BY <1>4, <3>1, <3>2 DEF Sleepers
  <2> QED
    BY <2>5, <2>6, <2>7, <2>8, <2>9, <2>10, <2>11 DEF IInv, Structure
<1> QED
  BY <1>3, <1>4 DEF FreearyLoop, Return

-----------------------------------------------------------------------------
(* The values of a set change.                                             *)

\* The sums of the undo values are numbers.
LEMMA SumAdjType ==
    ASSUME NEW u \in [Procs -> Values], NEW id \in Ids, NEW n \in Sems
    PROVE  SumAdj(u, id, n) \in Int
<1> DEFINE f == [q \in Procs |-> u[q][id][n]]
<1>1. Ints(f, Procs)
  BY DEF Ints, Values
<1> HIDE DEF f
<1>2. Sum(f, Procs) \in Int
  BY <1>1, ProcsAssumption, SumType
<1> QED
  BY <1>2 DEF Sum, SumAdj, f

\* A step that changes nothing but the set id, which is there, and wakes its
\* processes as it should, keeps the rest.
LEMMA SetStep ==
    ASSUME IInv, Types', UNCHANGED <<semary, sem_seq, freed>>, astray => astray',
           NEW id \in Ids, Live(id),
           \A j \in Ids : j # id => /\ semval'[j] = semval[j] /\ base'[j] = base[j]
                                    /\ \A q \in Procs : undo'[q][j] = undo[q][j],
           ~astray' => \A n \in Sems : semval'[id][n] + SumAdj(undo', id, n) = base'[id][n],
           \A q \in Procs : proc'[q] = proc[q] \/ proc'[q].pc \in {"user", "exit"},
           \A q \in Procs : proc[q].pc = "freeary" => proc'[q] = proc[q],
           asleep' \subseteq asleep,
           \A q \in asleep' : proc'[q] = proc[q] /\ (proc[q].id = id => StillBlocked(q))
    PROVE  IInv'
<1>0. Structure /\ Types /\ Fresh /\ UndoBalance /\ Sleepers
  BY DEF IInv, Structure
<1>1. \A j : (Live(j)' <=> Live(j)) /\ (Old(j)' <=> Old(j))
  BY DEF Live, Old
<1>2. Structure'
  BY <1>0, StructureStep DEF Moves
<1>3. Fresh'
  BY <1>0, <1>1 DEF Fresh
<1>4. UndoBalance'
  <2> SUFFICES ASSUME ~astray', NEW j \in Ids, Live(j), NEW n \in Sems
               PROVE  semval'[j][n] + SumAdj(undo', j, n) = base'[j][n]
    BY <1>1 DEF UndoBalance, SumAdj
  <2>1. CASE j = id
    BY <2>1
  <2>2. CASE j # id
    BY <1>0, <2>2, SameBalance
  <2> QED
    BY <2>1, <2>2
<1>5. Sleepers'
  <2>1. ASSUME NEW q \in asleep', Live(proc[q].id) PROVE StillBlocked(q)
    <3>1. q \in asleep /\ q \in Procs /\ proc[q] \in ProcState /\ proc[q].pc \in {"slept", "exiting"}
      BY <1>0 DEF Types, Sleepers
    <3>2. proc[q].id \in Ids
      BY <3>1, ProcFields
    <3>3. CASE proc[q].id = id
      BY <3>3
    <3>4. CASE proc[q].id # id
      BY <1>0, <2>1, <3>1, <3>2, <3>4, NothingNew
    <3> QED
      BY <3>3, <3>4
  <2> QED
    BY <1>0, <2>1, SleepersStep
<1> QED
  BY <1>2, <1>3, <1>4, <1>5 DEF IInv

LEMMA KeepsSemctl ==
    ASSUME IInv, NEW p \in Procs, NEW id \in Ids, NEW S \in SUBSET Sems, semctl(p, id, S)
    PROVE  IInv'
<1>1. p \notin asleep /\ asleep \subseteq Procs /\ proc \in [Procs -> ProcState]
  BY Awake DEF semctl, IInv, Structure, Types
<1>2. [pc |-> "semctl", id |-> id, sems |-> S] \in ProcState
  BY DEF ProcState
<1>3. Types'
  BY <1>1, <1>2 DEF semctl, IInv, Structure, Types
<1> QED
  BY <1>1, <1>3, Quiet DEF semctl

\* When the undo values in the list of a set are cleared, those that are left
\* are those of the exits that are asleep.
LEMMA ClearedSum ==
    ASSUME Types, Lists, ~astray, NEW id \in Ids, NEW S, NEW n \in S, n \in Sems
    PROVE  SumAdj(Cleared(id, S), id, n) = ToCome(id, n)
<1> DEFINE f == [q \in Procs |-> Cleared(id, S)[q][id][n]]
           g == [q \in Procs |-> IF ExitsAt(q, id, n) THEN undo[q][id][n] ELSE 0]
<1>1. ASSUME NEW q \in Procs PROVE f[q] = g[q]
  <2>1. Cleared(id, S)[q][id][n] = IF Listed(q, id, n) THEN 0 ELSE undo[q][id][n]
    BY ClearedValues
  <2>2. /\ undo[q][id][n] # 0 => Listed(q, id, n) \/ ExitsAt(q, id, n)
        /\ ExitsAt(q, id, n) => ~Listed(q, id, n)
    BY DEF Lists, ListOk
  <2> QED
    BY <2>1, <2>2
<1>2. f = g
  BY <1>1
<1> QED
  BY <1>2 DEF SumAdj, ToCome

LEMMA ToComeType == ASSUME Types, NEW id \in Ids, NEW n \in Sems PROVE ToCome(id, n) \in Int
<1> DEFINE g == [q \in Procs |-> IF ExitsAt(q, id, n) THEN undo[q][id][n] ELSE 0]
<1>1. Ints(g, Procs)
  BY DEF Ints, Types, Values
<1> HIDE DEF g
<1>2. Sum(g, Procs) \in Int
  BY <1>1, ProcsAssumption, SumType
<1> QED
  BY <1>2 DEF Sum, ToCome, g

LEMMA KeepsSet == ASSUME IInv, Lists, NEW p \in Procs, Set(p) PROVE IInv'
<1> DEFINE id == proc[p].id
           S == proc[p].sems
<1>0. /\ Types /\ UndoBalance /\ semval \in Values /\ base \in Values
      /\ proc \in [Procs -> ProcState] /\ asleep \subseteq Procs
  BY DEF IInv, Structure, Types
<1>1. /\ proc[p].pc = "semctl" /\ p \notin asleep
      /\ proc' = [proc EXCEPT ![p] = User] /\ sig' = sig \ {p}
      /\ UNCHANGED <<semary, sem_seq, freed, semun, astray>>
  BY Awake DEF Set, Return
<1>2. id \in Ids
  BY <1>0, <1>1, ProcFields
<1>3. /\ proc' \in [Procs -> ProcState] /\ proc'[p].pc = "user"
      /\ \A q \in Procs : q # p => proc'[q] = proc[q]
  <2>1. User \in ProcState /\ User.pc = "user"
    BY DEF ProcState, User
  <2> QED
    BY <1>0, <1>1, <2>1
<1>4. /\ \A q \in Procs : proc'[q] = proc[q] \/ proc'[q].pc \in {"user", "exit"}
      /\ \A q \in Procs : proc[q].pc = "freeary" => proc'[q] = proc[q]
      /\ \A q \in asleep : proc'[q] = proc[q]
  BY <1>0, <1>1, <1>3
<1>5. CASE UNCHANGED <<semval, undo, base, asleep>>
  <2>1. Types'
    BY <1>0, <1>1, <1>3, <1>5 DEF Types
  <2> QED
    BY <1>1, <1>4, <1>5, <2>1, Quiet
<1>6. ASSUME Live(id), NEW v \in 0 .. SEMVMX,
             semval' = [semval EXCEPT ![id] = [n \in Sems |-> IF n \in S THEN v ELSE @[n]]],
             base' = [base EXCEPT ![id] =
                         [n \in Sems |-> IF n \in S THEN v + ToCome(id, n) ELSE @[n]]],
             undo' = Cleared(id, S), asleep' = asleep \ (eventn(id) \cup eventz(id))
      PROVE  IInv'
  <2> DEFINE b == [n \in Sems |-> IF n \in S THEN v + ToCome(id, n) ELSE base[id][n]]
             w == [n \in Sems |-> IF n \in S THEN v ELSE semval[id][n]]
  <2>0. v \in Int
    BY SEMVMXAssumption
  <2>2. semval' = [semval EXCEPT ![id] = w] /\ base' = [base EXCEPT ![id] = b]
    BY <1>6
  <2>3. undo' \in [Procs -> Values]
    BY <1>0, <1>2, <1>6, ClearedValues
  <2>4. w \in [Sems -> Int] /\ b \in [Sems -> Int]
    BY <1>0, <1>2, <2>0, ToComeType DEF Values
  <2>5. semval'[id] = w /\ base'[id] = b
    BY <1>0, <1>2, <2>2 DEF Values
  <2>6. ~astray' => \A n \in Sems : semval'[id][n] + SumAdj(undo', id, n) = base'[id][n]
    <3> SUFFICES ASSUME ~astray, NEW n \in Sems
                 PROVE  semval'[id][n] + SumAdj(undo', id, n) = base'[id][n]
      BY <1>1
    <3>1. CASE n \in S
      <4>1. SumAdj(undo', id, n) = ToCome(id, n)
        BY <1>0, <1>2, <1>6, <3>1, ClearedSum
      <4> QED
        BY <2>5, <3>1, <4>1
    <3>2. CASE n \notin S
      <4>1. \A q \in Procs : undo'[q][id][n] = undo[q][id][n]
        BY <1>0, <1>2, <1>6, <3>2, ClearedValues
      <4>2. [q \in Procs |-> undo'[q][id][n]] = [q \in Procs |-> undo[q][id][n]]
        BY <4>1
      <4>3. SumAdj(undo', id, n) = SumAdj(undo, id, n)
        BY <4>2 DEF SumAdj
      <4> QED
        BY <1>0, <1>2, <1>6, <2>5, <3>2, <4>3 DEF UndoBalance
    <3> QED
      BY <3>1, <3>2
  <2> HIDE DEF b, w
  <2>7. semval' \in Values /\ base' \in Values
    BY <1>0, <2>2, <2>4 DEF Values
  <2>8. Types'
    BY <1>0, <1>1, <1>3, <1>6, <2>3, <2>7 DEF Types
  <2>9. \A j \in Ids : j # id => /\ semval'[j] = semval[j] /\ base'[j] = base[j]
                                 /\ \A q \in Procs : undo'[q][j] = undo[q][j]
    <3>1. \A j \in Ids : j # id => semval'[j] = semval[j] /\ base'[j] = base[j]
      BY <1>0, <2>2 DEF Values
    <3>2. \A q \in Procs : \A j \in Ids : j # id => undo'[q][j] = undo[q][j]
      BY <1>0, <1>2, <1>6, ClearedValues
    <3> QED
      BY <3>1, <3>2
  <2>10. \A q \in asleep' : proc[q].id # id
    <3> SUFFICES ASSUME NEW q \in asleep', proc[q].id = id PROVE FALSE
      OBVIOUS
    <3>1. q \in Procs /\ q \in asleep /\ Waits(q, id)
      BY <1>0, <1>6 DEF Types, IInv, Sleepers, Waits
    <3> QED
      BY <1>0, <1>6, <3>1, WaitingAll
  <2>11. asleep' \subseteq asleep
    BY <1>6
  <2> HIDE DEF id, S
  <2> QED
    BY <1>1, <1>2, <1>4, <1>6, <2>6, <2>8, <2>9, <2>10, <2>11, SetStep
<1> QED
  BY <1>5, <1>6 DEF Set

\* What the undo values add up to, when those of one process change.
LEMMA SumAdjChange ==
    ASSUME NEW u \in [Procs -> Values], NEW w \in [Procs -> Values], NEW id \in Ids, NEW n \in Sems,
           NEW p \in Procs, \A q \in Procs \ {p} : w[q][id][n] = u[q][id][n]
    PROVE  SumAdj(w, id, n) = SumAdj(u, id, n) + (w[p][id][n] - u[p][id][n])
<1> DEFINE f == [q \in Procs |-> u[q][id][n]]
           g == [q \in Procs |-> w[q][id][n]]
<1>1. Ints(f, Procs) /\ Ints(g, Procs)
  BY DEF Ints, Values
<1>2. \A q \in Procs \ {p} : f[q] = g[q]
  OBVIOUS
<1>3. f[p] = u[p][id][n] /\ g[p] = w[p][id][n]
  OBVIOUS
<1>4. SumAdj(u, id, n) = Sum(f, Procs) /\ SumAdj(w, id, n) = Sum(g, Procs)
  BY DEF SumAdj, Sum
<1> HIDE DEF f, g
<1>5. Sum(g, Procs) = Sum(f, Procs) + (g[p] - f[p])
  BY <1>1, <1>2, ProcsAssumption, SumChange
<1> QED
  BY <1>3, <1>4, <1>5

\* A process that waits for an increase sleeps on when nothing was added, and
\* one that waits for 0 when no semaphore has become 0.
LEMMA StaysBlocked ==
    ASSUME Structure, Types', Sleepers, NEW q \in asleep, Live(proc[q].id), NEW id, id = proc[q].id,
           undo'[q][id] = undo[q][id],
           proc[q].queue = "n" => \A m \in Sems : semval'[id][m] <= semval[id][m],
           proc[q].queue = "z" =>
               \A m \in Sems : semval'[id][m] = semval[id][m] \/ semval'[id][m] # 0
    PROVE  StillBlocked(q)
<1> DEFINE r == proc[q]
<1>1. /\ r.pc \in {"slept", "exiting"} /\ Reason(q) /\ q \in Procs
      /\ r \in ProcState /\ (r.pc = "slept" => r.k \in DOMAIN r.sops)
  BY DEF Sleepers, Structure, Types
<1>2. /\ r.id \in Ids /\ (r.pc = "slept" => r.sops \in Sops)
      /\ r.pc = "exiting" => r.num \in Sems /\ r.queue = "n"
  BY <1>1, ProcFields
<1>3. CASE r.pc = "exiting"
  <2>1. semval[id][r.num] + undo[q][id][r.num] < 0
    BY <1>1, <1>3 DEF Reason
  <2>2. semval'[id][r.num] <= semval[id][r.num]
    BY <1>2, <1>3
  <2>3. semval[id][r.num] \in Int /\ semval'[id][r.num] \in Int /\ undo[q][id][r.num] \in Int
    BY <1>1, <1>2, <1>3 DEF Structure, Types, Values
  <2>4. semval'[id][r.num] + undo'[q][id][r.num] < 0
    BY <2>1, <2>2, <2>3
  <2> QED
    BY <1>3, <2>4 DEF StillBlocked
<1>4. CASE r.pc = "slept"
  <2>1. r.sops \in Seq(Sop)
    BY <1>2, <1>4, SopsAssumption
  <2>2. r.sops[r.k] \in Sop
    BY <1>1, <1>4, <2>1
  <2>3. r.sops[r.k].num \in Sems
    BY <2>2 DEF Sop
  <2>4. r.queue = "z" => semval[id][r.sops[r.k].num] # 0
    BY <1>1, <1>4 DEF Reason, BlockedZ
  <2>5. r.queue = "z" => semval'[id][r.sops[r.k].num] # 0
    BY <2>3, <2>4
  <2> QED
    BY <1>4, <2>3, <2>5 DEF StillBlocked
<1> QED
  BY <1>1, <1>3, <1>4

-----------------------------------------------------------------------------
(* sem_exit *)

LEMMA KeepsUndo ==
    ASSUME IInv, NEW p \in Procs, NEW id \in Ids, NEW n \in Sems, proc[p].pc \in {"exit", "exiting"},
           p \notin asleep, Undo(p, id, n), UNCHANGED <<semary, sem_seq, freed, sig, astray>>
    PROVE  IInv'
<1> DEFINE adj == undo[p][id][n]
           done == [undo EXCEPT ![p][id][n] = 0]
           exit == [proc EXCEPT ![p] = [pc |-> "exit"]]
<1>0. Structure /\ Types /\ Fresh /\ UndoBalance /\ Sleepers
  BY DEF IInv, Structure
<1>1. /\ proc \in [Procs -> ProcState] /\ undo \in [Procs -> Values] /\ semval \in Values
      /\ base \in Values /\ asleep \subseteq Procs /\ adj \in Int /\ semval[id][n] \in Int
      /\ base[id][n] \in Int
  BY <1>0 DEF Types, Values
<1>2. /\ done \in [Procs -> Values] /\ done[p][id][n] = 0
      /\ \A j \in Ids, m \in Sems : j # id \/ m # n => done[p][j][m] = undo[p][j][m]
      /\ \A j \in Ids : j # id => done[p][j] = undo[p][j]
      /\ \A q \in Procs : q # p => done[q] = undo[q]
  BY <1>1 DEF Values
<1>3. /\ exit \in [Procs -> ProcState] /\ exit[p] = [pc |-> "exit"]
      /\ \A q \in Procs : q # p => exit[q] = proc[q]
  <2>1. [pc |-> "exit"] \in ProcState
    BY DEF ProcState
  <2> QED
    BY <1>1, <2>1
<1>4. \A m \in Sems : /\ SumAdj(undo, id, m) \in Int
                      /\ SumAdj(done, id, m) = SumAdj(undo, id, m) - (IF m = n THEN adj ELSE 0)
  <2> TAKE m \in Sems
  <2>1. SumAdj(undo, id, m) \in Int
    BY <1>1, SumAdjType
  <2>2. done[p][id][m] = IF m = n THEN 0 ELSE undo[p][id][m]
    BY <1>2
  <2>3. undo[p][id][m] \in Int
    BY <1>1 DEF Values
  <2>4. \A q \in Procs \ {p} : done[q][id][m] = undo[q][id][m]
    BY <1>2
  <2> HIDE DEF done
  <2>5. SumAdj(done, id, m) = SumAdj(undo, id, m) + (done[p][id][m] - undo[p][id][m])
    BY <1>1, <1>2, <2>4, SumAdjChange
  <2> QED
    BY <1>1, <2>1, <2>2, <2>3, <2>5
<1> HIDE DEF done, exit
<1>5. ASSUME NEW q \in asleep PROVE q # p
  OBVIOUS
<1>6. CASE ~Live(id) /\ undo' = done /\ proc' = exit /\ UNCHANGED <<semval, asleep, base>>
  <2>1. Types'
    BY <1>0, <1>2, <1>3, <1>6 DEF Types
  <2>2. Structure'
    BY <1>0, <1>3, <1>6, <2>1, StructureStep DEF Moves
  <2>3. Fresh'
    <3> SUFFICES ASSUME NEW j \in Ids, ~Old(j), ~Live(j)
                 PROVE  semval[j] = Zero /\ base[j] = Zero /\ \A q \in Procs : done[q][j] = Zero
      BY <1>6 DEF Fresh, Old, Live
    <3>1. semval[j] = Zero /\ base[j] = Zero /\ \A q \in Procs : undo[q][j] = Zero
      BY <1>0 DEF Fresh
    <3>2. done[p][j] = Zero
      <4>1. CASE j # id
        BY <1>2, <3>1, <4>1
      <4>2. CASE j = id
        <5>1. \A m \in Sems : done[p][id][m] = 0
          BY <1>2, <3>1, <4>2 DEF Zero
        <5>2. done[p][id] \in [Sems -> Int]
          BY <1>2 DEF Values
        <5> QED
          BY <4>2, <5>1, <5>2 DEF Zero
      <4> QED
        BY <4>1, <4>2
    <3> QED
      BY <1>2, <3>1, <3>2
  <2>4. UndoBalance'
    <3> SUFFICES ASSUME ~astray, NEW j \in Ids, Live(j), NEW m \in Sems
                 PROVE  semval'[j][m] + SumAdj(undo', j, m) = base'[j][m]
      BY <1>6 DEF UndoBalance, SumAdj, Live
    <3>1. j # id /\ \A q \in Procs : undo'[q][j] = undo[q][j]
      BY <1>2, <1>6
    <3> QED
      BY <1>0, <1>6, <3>1, SameBalance
  <2>5. Sleepers'
    <3>1. \A q \in asleep' : q \in asleep /\ proc'[q] = proc[q] /\ undo'[q] = undo[q]
      BY <1>1, <1>2, <1>3, <1>6
    <3>2. \A q \in asleep' : Live(proc[q].id) => StillBlocked(q)
      BY <1>0, <1>6, <3>1, NothingNew
    <3> QED
      BY <1>0, <1>3, <1>6, <2>1, <3>1, <3>2, SleepersStep
  <2> QED
    BY <2>2, <2>3, <2>4, <2>5 DEF IInv
<1>7. CASE /\ Live(id) /\ semval' = [semval EXCEPT ![id][n] = @ + adj]
           /\ asleep' = asleep \ WokenByUndo(id, n, adj)
           /\ undo' = done /\ proc' = exit /\ base' = base
  <2>1. /\ semval' \in Values /\ semval'[id][n] = semval[id][n] + adj
        /\ \A m \in Sems : m # n => semval'[id][m] = semval[id][m]
        /\ \A j \in Ids : j # id => semval'[j] = semval[j]
    BY <1>1, <1>7 DEF Values
  <2>2. Types'
    BY <1>0, <1>2, <1>3, <1>7, <2>1 DEF Types
  <2>3. ~astray' => \A m \in Sems : semval'[id][m] + SumAdj(undo', id, m) = base'[id][m]
    <3> SUFFICES ASSUME ~astray, NEW m \in Sems
                 PROVE  semval'[id][m] + SumAdj(undo', id, m) = base'[id][m]
      OBVIOUS
    <3>1. semval[id][m] + SumAdj(undo, id, m) = base[id][m]
      BY <1>0, <1>7 DEF UndoBalance
    <3>2. semval[id][m] \in Int
      BY <1>1 DEF Values
    <3> QED
      BY <1>1, <1>4, <1>7, <2>1, <3>1, <3>2
  <2>4. ASSUME NEW q \in asleep', proc[q].id = id PROVE StillBlocked(q)
    <3>1. q \in asleep /\ q \in Procs /\ q # p /\ Waits(q, id)
      BY <1>0, <1>1, <1>7, <2>4 DEF Sleepers, Waits
    <3>2. proc[q].queue = "n" => \A m \in Sems : semval'[id][m] <= semval[id][m]
      <4> SUFFICES ASSUME proc[q].queue = "n", NEW m \in Sems PROVE semval'[id][m] <= semval[id][m]
        OBVIOUS
      <4>1. q \in eventn(id)
        BY <3>1 DEF eventn
      <4>2. ~(adj > 0)
        BY <1>7, <4>1 DEF WokenByUndo
      <4>3. semval[id][m] \in Int
        BY <1>1 DEF Values
      <4> QED
        BY <1>1, <2>1, <4>2, <4>3
    <3>3. proc[q].queue = "z" =>
              \A m \in Sems : semval'[id][m] = semval[id][m] \/ semval'[id][m] # 0
      <4> SUFFICES ASSUME proc[q].queue = "z" PROVE semval'[id][n] # 0
        BY <2>1
      <4>1. q \in eventz(id)
        BY <3>1 DEF eventz
      <4> QED
        BY <1>7, <2>1, <4>1 DEF WokenByUndo
    <3>4. undo'[q][id] = undo[q][id]
      BY <1>2, <1>7, <3>1
    <3> QED
      BY <1>0, <1>7, <2>2, <2>4, <3>1, <3>2, <3>3, <3>4, StaysBlocked
  <2>5. \A j \in Ids : j # id => /\ semval'[j] = semval[j] /\ base'[j] = base[j]
                                 /\ \A q \in Procs : undo'[q][j] = undo[q][j]
    BY <1>2, <1>7, <2>1
  <2>6. /\ \A q \in Procs : proc'[q] = proc[q] \/ proc'[q].pc \in {"user", "exit"}
        /\ \A q \in Procs : proc[q].pc = "freeary" => proc'[q] = proc[q]
        /\ asleep' \subseteq asleep /\ \A q \in asleep' : proc'[q] = proc[q]
    BY <1>1, <1>3, <1>7
  <2> QED
    BY <1>7, <2>2, <2>3, <2>4, <2>5, <2>6, SetStep
<1>8. CASE /\ Live(id) /\ base' = [base EXCEPT ![id][n] = @ - adj]
           /\ undo' = done /\ proc' = exit /\ UNCHANGED <<semval, asleep>>
  <2>1. /\ base' \in Values /\ base'[id][n] = base[id][n] - adj
        /\ \A m \in Sems : m # n => base'[id][m] = base[id][m]
        /\ \A j \in Ids : j # id => base'[j] = base[j]
    BY <1>1, <1>8 DEF Values
  <2>2. Types'
    BY <1>0, <1>2, <1>3, <1>8, <2>1 DEF Types
  <2>3. ~astray' => \A m \in Sems : semval'[id][m] + SumAdj(undo', id, m) = base'[id][m]
    <3> SUFFICES ASSUME ~astray, NEW m \in Sems
                 PROVE  semval'[id][m] + SumAdj(undo', id, m) = base'[id][m]
      OBVIOUS
    <3>1. semval[id][m] + SumAdj(undo, id, m) = base[id][m]
      BY <1>0, <1>8 DEF UndoBalance
    <3>2. semval[id][m] \in Int
      BY <1>1 DEF Values
    <3> QED
      BY <1>1, <1>4, <1>8, <2>1, <3>1, <3>2
  <2>4. ASSUME NEW q \in asleep', proc[q].id = id PROVE StillBlocked(q)
    <3>1. q \in asleep /\ undo'[q] = undo[q]
      BY <1>1, <1>2, <1>8
    <3> QED
      BY <1>0, <1>8, <2>4, <3>1, NothingNew
  <2>5. \A j \in Ids : j # id => /\ semval'[j] = semval[j] /\ base'[j] = base[j]
                                 /\ \A q \in Procs : undo'[q][j] = undo[q][j]
    BY <1>2, <1>8, <2>1
  <2>6. /\ \A q \in Procs : proc'[q] = proc[q] \/ proc'[q].pc \in {"user", "exit"}
        /\ \A q \in Procs : proc[q].pc = "freeary" => proc'[q] = proc[q]
        /\ asleep' \subseteq asleep /\ \A q \in asleep' : proc'[q] = proc[q]
    BY <1>1, <1>3, <1>8
  <2> QED
    BY <1>8, <2>2, <2>3, <2>4, <2>5, <2>6, SetStep
<1>9. CASE /\ Live(id) /\ semval[id][n] + adj < 0
           /\ proc' = [proc EXCEPT ![p] = [pc |-> "exiting", id |-> id, num |-> n, queue |-> "n"]]
           /\ asleep' = asleep \cup {p} /\ UNCHANGED <<semval, undo, base>>
  <2>0. [pc |-> "exiting", id |-> id, num |-> n, queue |-> "n"] \in ProcState
    BY DEF ProcState
  <2>1. /\ proc' \in [Procs -> ProcState] /\ \A q \in Procs : q # p => proc'[q] = proc[q]
        /\ proc'[p] = [pc |-> "exiting", id |-> id, num |-> n, queue |-> "n"]
    BY <1>1, <1>9, <2>0
  <2>2. Types'
    BY <1>0, <1>9, <2>1 DEF Types
  <2>3. proc'[p].pc = "exiting" /\ proc'[p].id = id /\ proc'[p].num = n
    BY <2>1
  <2>4. Structure'
    BY <1>0, <1>9, <2>1, <2>2, <2>3, StructureStep DEF Moves
  <2>5. Fresh' /\ UndoBalance'
    BY <1>0, <1>9 DEF Fresh, UndoBalance, Old, Live
  <2>6. Reason(p)'
    <3>1. Live(proc[p].id)'
      BY <1>9, <2>3 DEF Live, slot
    <3> QED
      BY <1>9, <2>3, <3>1 DEF Reason
  <2>7. \A q \in asleep : Live(proc[q].id) => StillBlocked(q)
    BY <1>0, <1>9, NothingNew
  <2>8. Sleepers'
    <3>1. \A q \in asleep' :
             \/ q \in asleep /\ proc'[q] = proc[q] /\ (Live(proc[q].id) => StillBlocked(q))
             \/ proc'[q].pc \in {"slept", "exiting"} /\ Reason(q)'
      BY <1>1, <1>9, <2>1, <2>3, <2>6, <2>7
    <3>2. /\ \A q \in Procs : proc[q].pc = "freeary" => proc'[q] = proc[q]
          /\ \A q \in Procs : proc'[q] = proc[q] \/ proc'[q].pc # "slept"
      BY <2>1, <2>3
    <3> QED
      BY <1>0, <2>2, <3>1, <3>2, SleepersStep
  <2> QED
    BY <2>4, <2>5, <2>8 DEF IInv
<1> QED
  BY <1>6, <1>7, <1>8, <1>9 DEF Undo, done, exit

LEMMA KeepsExitUndo == ASSUME IInv, Lists, NEW p \in Procs, ExitUndo(p) PROVE IInv'
<1>1. p \notin asleep
  BY Awake DEF ExitUndo
<1>2. PICK u \in semun[p] : Undo(p, u.semid, u.num)
  BY DEF ExitUndo, ToUndo
<1>3. u \in Entry
  BY DEF Lists
<1>4. u.semid \in Ids /\ u.num \in Sems
  BY <1>3 DEF Entry
<1> QED
  BY <1>1, <1>2, <1>4, KeepsUndo DEF ExitUndo

\* An entry in the list of a wrong set says that one went astray, and then
\* nothing is claimed of the values.
LEMMA KeepsExitAstray == ASSUME IInv, Lists, NEW p \in Procs, ExitAstray(p) PROVE IInv'
<1>0. Structure /\ Types /\ Fresh /\ UndoBalance /\ Sleepers
  BY DEF IInv, Structure
<1>1. /\ proc[p].pc = "exit" /\ p \notin asleep
      /\ UNCHANGED <<semary, sem_seq, semval, freed, proc, asleep, sig, base, astray>>
  BY Awake DEF ExitAstray
<1>2. PICK u \in semun[p] : u.on # u.semid
  BY DEF ExitAstray, ToUndo
<1>3. astray /\ astray'
  BY <1>1, <1>2 DEF Lists, ListOk
<1> DEFINE none == [id \in Ids |-> Zero]
<1>4. none \in Values /\ \A j \in Ids : none[j] = Zero
  BY DEF Values, Zero
<1> HIDE DEF none
<1>5. /\ undo' \in [Procs -> Values]
      /\ \A q \in Procs : q # p => undo'[q] = undo[q]
      /\ undo'[p] = undo[p] \/ undo'[p] = none
  <2>1. undo' = undo \/ undo' = [undo EXCEPT ![p] = none]
    BY DEF ExitAstray, none
  <2> QED
    BY <1>0, <1>4, <2>1 DEF Types
<1>6. Types'
  BY <1>0, <1>1, <1>5 DEF Types
<1>7. Structure'
  BY <1>0, <1>1, <1>6, StructureStep DEF Moves
<1>8. Fresh'
  BY <1>0, <1>1, <1>4, <1>5 DEF Fresh, Old, Live
<1>9. UndoBalance'
  BY <1>3 DEF UndoBalance
<1>10. Sleepers'
  <2>1. \A q \in asleep : Live(proc[q].id) => StillBlocked(q)
    <3> SUFFICES ASSUME NEW q \in asleep, Live(proc[q].id) PROVE StillBlocked(q)
      OBVIOUS
    <3>1. semval' = semval /\ undo'[q] = undo[q]
      BY <1>0, <1>1, <1>5 DEF Types
    <3> QED
      BY <1>0, <3>1, NothingNew
  <2> QED
    BY <1>0, <1>1, <1>6, <2>1, SleepersStep
<1> QED
  BY <1>7, <1>8, <1>9, <1>10 DEF IInv

LEMMA KeepsExitResume == ASSUME IInv, NEW p \in Procs, ExitResume(p) PROVE IInv'
<1>1. proc[p] \in ProcState
  BY DEF IInv, Structure, Types
<1>2. proc[p].id \in Ids /\ proc[p].num \in Sems
  BY <1>1, ProcFields DEF ExitResume
<1> QED
  BY <1>2, KeepsUndo DEF ExitResume

-----------------------------------------------------------------------------
(* semop *)

\* What the operations add is a number; without increments it is not positive.
LEMMA AddedType ==
    ASSUME NEW sops \in Seq(Sop), NEW n, NEW k \in 0 .. Len(sops), NEW u \in BOOLEAN
    PROVE  /\ Added(sops, n, k, u) \in Int
           /\ (\A j \in DOMAIN sops : sops[j].op <= 0) => Added(sops, n, k, u) <= 0
<1> DEFINE f == [j \in DOMAIN sops |-> sops[j].op]
           T == {j \in 1 .. k : sops[j].num = n /\ (u => sops[j].undo)}
<1>0. Added(sops, n, k, u) = Sum(f, T)
  BY DEF Added, Sum
<1>1. IsFiniteSet(T)
  <2>1. IsFiniteSet(1 .. k)
    BY FS_Interval
  <2> QED
    BY <2>1, FS_Subset
<1>2. \A j \in DOMAIN sops : f[j] = sops[j].op /\ f[j] \in Int
  <2>1. \A j \in DOMAIN sops : sops[j] \in Sop
    OBVIOUS
  <2> QED
    BY <2>1 DEF Sop
<1>3. T \subseteq DOMAIN sops
  OBVIOUS
<1> HIDE DEF f, T
<1>4. Ints(f, T)
  BY <1>2, <1>3 DEF Ints
<1>5. Sum(f, T) \in Int
  BY <1>1, <1>4, SumType
<1>6. ASSUME \A j \in DOMAIN sops : sops[j].op <= 0 PROVE Sum(f, T) <= 0
  <2>1. \A j \in T : f[j] <= 0
    BY <1>2, <1>3, <1>6
  <2> QED
    BY <1>1, <1>4, <2>1, SumNotPositive
<1> QED
  BY <1>0, <1>5, <1>6

\* The last operation on a semaphore leaves it with what it has in the end.
LEMMA AddedLast ==
    ASSUME NEW sops \in Seq(Sop), NEW n
    PROVE  \/ Added(sops, n, Len(sops), FALSE) = 0
           \/ \E k \in DOMAIN sops :
                 sops[k].num = n /\ Added(sops, n, k, FALSE) = Added(sops, n, Len(sops), FALSE)
<1> DEFINE T(k) == {j \in 1 .. k : sops[j].num = n /\ (FALSE => sops[j].undo)}
           f == [j \in DOMAIN sops |-> sops[j].op]
           D == {Len(sops) - j : j \in T(Len(sops))}
<1>0. \A k : Added(sops, n, k, FALSE) = Sum(f, T(k))
  BY DEF Added, Sum
<1>1. CASE T(Len(sops)) = {}
  BY <1>0, <1>1, SumEmpty
<1>2. CASE T(Len(sops)) # {}
  <2>1. Min(D) \in D /\ \A y \in D : Min(D) <= y
    <3>1. D \subseteq Nat /\ D # {}
      BY <1>2
    <3> HIDE DEF D
    <3> QED
      BY <3>1, MinIsLeast
  <2>2. PICK k \in T(Len(sops)) : Min(D) = Len(sops) - k
    BY <2>1
  <2>3. \A j \in T(Len(sops)) : Len(sops) - j \in D
    OBVIOUS
  <2>4. \A j \in T(Len(sops)) : Len(sops) - k <= Len(sops) - j
    BY <2>1, <2>2, <2>3
  <2>5. \A j \in T(Len(sops)) : j <= k
    BY <2>4
  <2>6. T(k) = T(Len(sops)) /\ k \in DOMAIN sops /\ sops[k].num = n
    BY <2>5
  <2> QED
    BY <1>0, <2>6
<1> QED
  BY <1>1, <1>2

\* A call that does all its operations.
LEMMA KeepsPerform ==
    ASSUME IInv, NEW p \in Procs, NEW id \in Ids, NEW sops \in Sops, Live(id),
           proc[p].pc \in {"user", "slept"}, p \notin asleep,
           Perform(p, id, sops), Return(p), UNCHANGED <<semary, sem_seq, freed>>, astray => astray'
    PROVE  IInv'
<1> DEFINE A(n) == Added(sops, n, Len(sops), FALSE)
           B(n) == Added(sops, n, Len(sops), TRUE)
           v == [n \in Sems |-> semval[id][n] + A(n)]
           w == [n \in Sems |-> undo[p][id][n] - B(n)]
           b == [n \in Sems |-> base[id][n] + A(n) - B(n)]
<1>0. /\ Structure /\ Types /\ UndoBalance /\ Sleepers
      /\ semval \in Values /\ base \in Values /\ undo \in [Procs -> Values]
      /\ proc \in [Procs -> ProcState] /\ asleep \subseteq Procs
  BY DEF IInv, Structure, Types
<1>1. /\ semval' = [semval EXCEPT ![id] = v] /\ base' = [base EXCEPT ![id] = b]
      /\ undo' = [undo EXCEPT ![p][id] = w] /\ asleep' = asleep \ Woken(id, sops)
  BY DEF Perform
<1>2. proc' = [proc EXCEPT ![p] = User] /\ sig' = sig \ {p}
  BY DEF Return
<1>3. sops \in Seq(Sop)
  BY SopsAssumption
<1>4. \A n \in Sems : A(n) \in Int /\ B(n) \in Int
  <2>1. Len(sops) \in 0 .. Len(sops)
    BY <1>3
  <2> QED
    BY <1>3, <2>1, AddedType
<1>5. \A n \in Sems : semval[id][n] \in Int /\ base[id][n] \in Int /\ undo[p][id][n] \in Int
  BY <1>0 DEF Values
<1> HIDE DEF A, B
<1>6. v \in [Sems -> Int] /\ w \in [Sems -> Int] /\ b \in [Sems -> Int]
  BY <1>4, <1>5
<1>7. \A n \in Sems : /\ v[n] = semval[id][n] + A(n) /\ w[n] = undo[p][id][n] - B(n)
                      /\ b[n] = base[id][n] + A(n) - B(n)
  OBVIOUS
<1> HIDE DEF v, w, b
<1>8. /\ semval' \in Values /\ base' \in Values /\ semval'[id] = v /\ base'[id] = b
      /\ \A j \in Ids : j # id => semval'[j] = semval[j] /\ base'[j] = base[j]
  BY <1>0, <1>1, <1>6 DEF Values
<1>9. /\ undo' \in [Procs -> Values] /\ undo'[p][id] = w
      /\ \A j \in Ids : j # id => undo'[p][j] = undo[p][j]
      /\ \A q \in Procs : q # p => undo'[q] = undo[q]
  BY <1>0, <1>1, <1>6 DEF Values
<1>10. /\ proc' \in [Procs -> ProcState] /\ proc'[p].pc = "user"
       /\ \A q \in Procs : q # p => proc'[q] = proc[q]
  <2>1. User \in ProcState /\ User.pc = "user"
    BY DEF ProcState, User
  <2> QED
    BY <1>0, <1>2, <2>1
<1>11. Types'
  BY <1>0, <1>1, <1>2, <1>8, <1>9, <1>10 DEF Types
<1>12. ~astray' => \A n \in Sems : semval'[id][n] + SumAdj(undo', id, n) = base'[id][n]
  <2> SUFFICES ASSUME ~astray, NEW n \in Sems
               PROVE  semval'[id][n] + SumAdj(undo', id, n) = base'[id][n]
    OBVIOUS
  <2>1. semval[id][n] + SumAdj(undo, id, n) = base[id][n]
    BY <1>0 DEF UndoBalance
  <2>2. SumAdj(undo, id, n) \in Int
    BY <1>0, SumAdjType
  <2>3. \A q \in Procs \ {p} : undo'[q][id][n] = undo[q][id][n]
    BY <1>9
  <2>4. SumAdj(undo', id, n) = SumAdj(undo, id, n) + (undo'[p][id][n] - undo[p][id][n])
    BY <1>0, <1>9, <2>3, SumAdjChange
  <2>5. undo'[p][id][n] - undo[p][id][n] = -B(n)
    BY <1>4, <1>5, <1>7, <1>9
  <2> QED
    BY <1>4, <1>5, <1>7, <1>8, <2>1, <2>2, <2>4, <2>5
<1>13. ASSUME NEW q \in asleep', proc[q].id = id PROVE StillBlocked(q)
  <2>1. q \in asleep /\ q \in Procs /\ q # p /\ q \notin Woken(id, sops) /\ Waits(q, id)
    BY <1>0, <1>1, <1>13 DEF Sleepers, Waits
  <2>2. proc[q].queue = "n" => \A m \in Sems : semval'[id][m] <= semval[id][m]
    <3> SUFFICES ASSUME proc[q].queue = "n", NEW m \in Sems PROVE semval'[id][m] <= semval[id][m]
      OBVIOUS
    <3>1. q \in eventn(id)
      BY <2>1 DEF eventn
    <3>2. \A k \in DOMAIN sops : ~(sops[k].op > 0)
      BY <2>1, <3>1 DEF Woken
    <3>3. \A k \in DOMAIN sops : sops[k].op <= 0
      <4>1. \A k \in DOMAIN sops : sops[k] \in Sop
        BY <1>3
      <4> QED
        BY <3>2, <4>1 DEF Sop
    <3>4. Len(sops) \in 0 .. Len(sops)
      BY <1>3
    <3>5. A(m) <= 0
      BY <1>3, <3>3, <3>4, AddedType DEF A
    <3> QED
      BY <1>4, <1>5, <1>7, <1>8, <3>5
  <2>3. proc[q].queue = "z" =>
            \A m \in Sems : semval'[id][m] = semval[id][m] \/ semval'[id][m] # 0
    <3> SUFFICES ASSUME proc[q].queue = "z", NEW m \in Sems
                 PROVE  semval'[id][m] = semval[id][m] \/ semval'[id][m] # 0
      OBVIOUS
    <3>1. q \in eventz(id)
      BY <2>1 DEF eventz
    <3>2. \A k \in DOMAIN sops :
             semval[id][sops[k].num] + Added(sops, sops[k].num, k, FALSE) # 0
      BY <2>1, <3>1 DEF Woken
    <3>3. CASE A(m) = 0
      BY <1>5, <1>7, <1>8, <3>3
    <3>4. CASE \E k \in DOMAIN sops : sops[k].num = m /\ Added(sops, m, k, FALSE) = A(m)
      BY <1>7, <1>8, <3>2, <3>4
    <3> QED
      BY <1>3, <3>3, <3>4, AddedLast DEF A
  <2>4. undo'[q][id] = undo[q][id]
    BY <1>9, <2>1
  <2> QED
    BY <1>0, <1>11, <1>13, <2>1, <2>2, <2>3, <2>4, StaysBlocked
<1>14. \A j \in Ids : j # id => /\ semval'[j] = semval[j] /\ base'[j] = base[j]
                                /\ \A q \in Procs : undo'[q][j] = undo[q][j]
  BY <1>8, <1>9
<1>15. /\ \A q \in Procs : proc'[q] = proc[q] \/ proc'[q].pc \in {"user", "exit"}
       /\ \A q \in Procs : proc[q].pc = "freeary" => proc'[q] = proc[q]
       /\ asleep' \subseteq asleep /\ \A q \in asleep' : proc'[q] = proc[q]
  BY <1>0, <1>1, <1>10
<1> QED
  BY <1>11, <1>12, <1>13, <1>14, <1>15, SetStep

\* From the label slept, at the first call and after each sleep.
LEMMA KeepsSlept ==
    ASSUME IInv, NEW p \in Procs, NEW id \in Ids, NEW sops \in Sops,
           proc[p].pc \in {"user", "slept"}, p \notin asleep,
           Slept(p, id, sops), UNCHANGED <<semary, sem_seq, freed>>, astray => astray'
    PROVE  IInv'
<1>0. /\ Structure /\ Types /\ Fresh /\ UndoBalance /\ Sleepers
      /\ proc \in [Procs -> ProcState] /\ asleep \subseteq Procs
  BY DEF IInv, Structure, Types
<1>1. ASSUME Return(p), UNCHANGED <<semval, undo, base, asleep>> PROVE IInv'
  <2>1. User \in ProcState /\ User.pc = "user"
    BY DEF ProcState, User
  <2>2. /\ proc' \in [Procs -> ProcState] /\ proc'[p].pc = "user"
        /\ \A q \in Procs : q # p => proc'[q] = proc[q]
    BY <1>0, <1>1, <2>1 DEF Return
  <2>3. Types'
    BY <1>0, <1>1, <2>2 DEF Return, Types
  <2>4. /\ \A q \in Procs : proc'[q] = proc[q] \/ proc'[q].pc \in {"user", "exit"}
        /\ \A q \in Procs : proc[q].pc = "freeary" => proc'[q] = proc[q]
        /\ asleep' \subseteq asleep /\ \A q \in asleep' : proc'[q] = proc[q]
    BY <1>0, <1>1, <2>2
  <2> QED
    BY <1>1, <2>3, <2>4, Quiet
<1>2. ASSUME Live(id), Perform(p, id, sops), Return(p) PROVE IInv'
  BY <1>2, KeepsPerform
<1> DEFINE k == Min(Stops(id, sops))
           z == IF BlockedZ(id, sops[k]) THEN "z" ELSE "n"
           r == [pc |-> "slept", id |-> id, sops |-> sops, k |-> k, queue |-> z]
<1>3. ASSUME Live(id), Stops(id, sops) # {}, ~TooLarge(id, sops[k]),
             proc' = [proc EXCEPT ![p] = r], asleep' = asleep \cup {p},
             UNCHANGED <<sig, semval, undo, base>>
      PROVE  IInv'
  <2>1. k \in Stops(id, sops) /\ k \in DOMAIN sops /\ k \in Nat
    <3>1. sops \in Seq(Sop)
      BY SopsAssumption
    <3>2. Stops(id, sops) \subseteq DOMAIN sops /\ DOMAIN sops \subseteq Nat
      BY <3>1 DEF Stops
    <3>3. Min(Stops(id, sops)) \in Stops(id, sops)
      BY <1>3, <3>2, MinIsLeast
    <3> QED
      BY <3>2, <3>3
  <2>2. BlockedZ(id, sops[k]) \/ BlockedN(id, sops[k])
    BY <1>3, <2>1 DEF Stops
  <2> HIDE DEF k
  <2>3. z \in {"n", "z"} /\ (z = "z" => BlockedZ(id, sops[k])) /\ (z = "n" => BlockedN(id, sops[k]))
    BY <2>2
  <2> HIDE DEF z
  <2>4. r \in ProcState
    BY <2>1, <2>3 DEF ProcState
  <2>5. r.pc = "slept" /\ r.id = id /\ r.sops = sops /\ r.k = k /\ r.queue = z
    OBVIOUS
  <2> HIDE DEF r
  <2>6. /\ proc' \in [Procs -> ProcState] /\ proc'[p] = r
        /\ \A q \in Procs : q # p => proc'[q] = proc[q]
    BY <1>0, <1>3, <2>4
  <2>7. Types'
    BY <1>0, <1>3, <2>6 DEF Types
  <2>8. Structure'
    BY <1>0, <1>3, <2>5, <2>6, <2>7, StructureStep DEF Moves
  <2>9. Fresh' /\ UndoBalance'
    BY <1>0, <1>3 DEF Fresh, UndoBalance, Old, Live
  <2>10. Reason(p)'
    <3>1. Live(proc[p].id)'
      BY <1>3, <2>5, <2>6 DEF Live, slot
    <3>2. CASE z = "z"
      <4>1. (semval[id][sops[k].num] # 0 /\ sops[k].op = 0)
        BY <2>3, <3>2 DEF BlockedZ
      <4> QED
        BY <1>3, <2>5, <2>6, <3>1, <3>2, <4>1 DEF Reason, BlockedZ
    <3>3. CASE z = "n"
      <4>1. semval[id][sops[k].num] + sops[k].op < 0
        BY <2>3, <3>3 DEF BlockedN
      <4> QED
        BY <1>3, <2>5, <2>6, <3>1, <3>3, <4>1 DEF Reason, BlockedN
    <3> QED
      BY <2>3, <3>2, <3>3
  <2>11. \A q \in asleep : Live(proc[q].id) => StillBlocked(q)
    BY <1>0, <1>3, NothingNew
  <2>12. Sleepers'
    <3>1. \A q \in asleep' :
             \/ q \in asleep /\ proc'[q] = proc[q] /\ (Live(proc[q].id) => StillBlocked(q))
             \/ proc'[q].pc \in {"slept", "exiting"} /\ Reason(q)'
      BY <1>0, <1>3, <2>5, <2>6, <2>10, <2>11
    <3>2. /\ \A q \in Procs : proc[q].pc = "freeary" => proc'[q] = proc[q]
          /\ \A q \in Procs : \/ proc'[q] = proc[q] \/ proc'[q].pc # "slept"
                              \/ proc'[q].k \in DOMAIN proc'[q].sops
      BY <2>1, <2>5, <2>6
    <3> QED
      BY <1>0, <2>7, <3>1, <3>2, SleepersStep
  <2> QED
    BY <2>8, <2>9, <2>12 DEF IInv
<1> QED
  BY <1>1, <1>2, <1>3 DEF Slept, Removed

LEMMA KeepsSemop ==
    ASSUME IInv, NEW p \in Procs, NEW id \in Ids, NEW sops \in Sops, semop(p, id, sops)
    PROVE  IInv'
<1>1. p \notin asleep
  BY Awake DEF semop
<1> QED
  BY <1>1, KeepsSlept DEF semop

LEMMA KeepsSemopResume == ASSUME IInv, NEW p \in Procs, SemopResume(p) PROVE IInv'
<1>1. proc[p] \in ProcState
  BY DEF IInv, Structure, Types
<1>2. proc[p].id \in Ids /\ proc[p].sops \in Sops
  BY <1>1, ProcFields DEF SemopResume
<1> QED
  BY <1>2, KeepsSlept DEF SemopResume

-----------------------------------------------------------------------------
(* The lists of undo entries.                                              *)

\* The entries of q are all right if they are left alone and nothing is added
\* to its undo values.
LEMMA ListStep ==
    ASSUME NEW q \in Procs, ListOk(q), semun'[q] = semun[q],
           \/ proc'[q] = proc[q]
           \/ proc[q].pc # "exiting" /\ proc'[q].pc \notin {"slept", "exiting"},
           \A id \in Ids, n \in Sems : undo'[q][id][n] \in {0, undo[q][id][n]}
    PROVE  ListOk(q)'
<1>1. \A id, n : Listed(q, id, n)' <=> Listed(q, id, n)
  BY DEF Listed
<1>2. \A id, n : ExitsAt(q, id, n)' <=> ExitsAt(q, id, n)
  BY DEF ExitsAt
<1>3. \A u \in semun'[q] : u.on = u.semid
  BY DEF ListOk
<1>4. ASSUME proc'[q].pc = "slept", NEW k \in DOMAIN proc'[q].sops, proc'[q].sops[k].undo
      PROVE  Listed(q, proc'[q].id, proc'[q].sops[k].num)
  BY <1>4 DEF ListOk
<1>5. \A id \in Ids, n \in Sems :
        /\ undo'[q][id][n] # 0 => Listed(q, id, n)' \/ ExitsAt(q, id, n)'
        /\ ExitsAt(q, id, n)' => ~Listed(q, id, n)'
  BY <1>1, <1>2 DEF ListOk
<1>6. \A k \in DOMAIN proc'[q].sops : proc'[q].pc = "slept" /\ proc'[q].sops[k].undo =>
          [semid |-> proc'[q].id, num |-> proc'[q].sops[k].num, on |-> proc'[q].id] \in semun'[q]
  BY <1>4 DEF Listed
<1> QED
  BY <1>3, <1>5, <1>6 DEF ListOk, Listed

\* A step of p that makes no entry and adds to no undo value.
LEMMA ListsKept ==
    ASSUME Lists, UNCHANGED <<semun, astray>>,
           \A q \in Procs : \/ proc'[q] = proc[q]
                            \/ proc[q].pc # "exiting" /\ proc'[q].pc \notin {"slept", "exiting"},
           \A q \in Procs : \A id \in Ids, n \in Sems : undo'[q][id][n] \in {0, undo[q][id][n]}
    PROVE  Lists'
<1>1. ~astray => \A q \in Procs : ListOk(q)'
  BY ListStep DEF Lists
<1> QED
  BY <1>1 DEF Lists

\* The others are not concerned.
LEMMA ListsOthers ==
    ASSUME Lists, semun' \in [Procs -> SUBSET Entry], astray' \in BOOLEAN, astray => astray',
           NEW p \in Procs, ~astray' => ListOk(p)',
           \A q \in Procs : q # p => /\ semun'[q] = semun[q] /\ proc'[q] = proc[q]
                                     /\ undo'[q] = undo[q]
    PROVE  Lists'
<1>1. ASSUME ~astray', NEW q \in Procs, q # p PROVE ListOk(q)'
  <2>1. ListOk(q)
    BY <1>1 DEF Lists
  <2> QED
    BY <1>1, <2>1, ListStep
<1> QED
  BY <1>1 DEF Lists

\* Without operations with SEM_UNDO on n, nothing is added to its undo value.
LEMMA AddedNone ==
    ASSUME NEW sops, NEW n, Added(sops, n, Len(sops), TRUE) # 0
    PROVE  \E k \in 1 .. Len(sops) : sops[k].num = n /\ sops[k].undo
<1> DEFINE T == {j \in 1 .. Len(sops) : sops[j].num = n /\ (TRUE => sops[j].undo)}
           f == [j \in DOMAIN sops |-> sops[j].op]
<1>1. Added(sops, n, Len(sops), TRUE) = Sum(f, T)
  BY DEF Added, Sum
<1>2. T # {}
  <2> SUFFICES ASSUME T = {} PROVE FALSE
    OBVIOUS
  <2> HIDE DEF T, f
  <2> QED
    BY <1>1, SumEmpty
<1> QED
  BY <1>2

\* p has an entry for each operation with SEM_UNDO.
Covered(p, id, sops) == \A k \in DOMAIN sops : sops[k].undo => Listed(p, id, sops[k].num)

\* From the label slept: p has the entries for what it adds.
LEMMA ListsSlept ==
    ASSUME IInv, Lists, NEW p \in Procs, NEW id \in Ids, NEW sops \in Sops, proc[p].pc # "exiting",
           Slept(p, id, sops), semun' \in [Procs -> SUBSET Entry], astray' \in BOOLEAN,
           astray => astray', \A q \in Procs : q # p => semun'[q] = semun[q],
           semun[p] \subseteq semun'[p],
           ~astray' => \A u \in semun'[p] : u.on = u.semid,
           ~astray' /\ Live(id) => Covered(p, id, sops)'
    PROVE  Lists'
<1>0. proc \in [Procs -> ProcState] /\ undo \in [Procs -> Values] /\ sops \in Seq(Sop)
  BY SopsAssumption DEF IInv, Structure, Types
<1>1. \A i \in Ids, n \in Sems : undo[p][i][n] # 0 /\ ~astray => Listed(p, i, n)'
  BY DEF Lists, ListOk, ExitsAt, Listed
<1>2. ASSUME Return(p), undo' = undo PROVE Lists'
  <2>1. proc'[p].pc = "user" /\ \A q \in Procs : q # p => proc'[q] = proc[q]
    BY <1>0, <1>2 DEF Return, User
  <2>2. ~astray' => ListOk(p)'
    BY <1>1, <1>2, <2>1 DEF ListOk, ExitsAt
  <2> QED
    BY <1>2, <2>1, <2>2, ListsOthers
<1>3. ASSUME Live(id), Perform(p, id, sops), Return(p) PROVE Lists'
  <2>1. proc'[p].pc = "user" /\ \A q \in Procs : q # p => proc'[q] = proc[q]
    BY <1>0, <1>3 DEF Return, User
  <2> DEFINE w == [n \in Sems |-> undo[p][id][n] - Added(sops, n, Len(sops), TRUE)]
  <2>2. undo' = [undo EXCEPT ![p][id] = w]
    BY <1>3 DEF Perform
  <2>3. ASSUME NEW n \in Sems, w[n] # 0, ~astray' PROVE Listed(p, id, n)'
    <3>1. CASE undo[p][id][n] # 0
      BY <1>1, <2>3, <3>1
    <3>2. CASE undo[p][id][n] = 0
      <4>0. w[n] = 0 - Added(sops, n, Len(sops), TRUE)
        BY <3>2
      <4>1. Added(sops, n, Len(sops), TRUE) # 0
        <5> HIDE DEF w
        <5>1. 0 - 0 = 0
          OBVIOUS
        <5> QED
          BY <2>3, <4>0, <5>1, Zenon
      <4>2. PICK k \in 1 .. Len(sops) : sops[k].num = n /\ sops[k].undo
        BY <4>1, AddedNone
      <4>3. k \in DOMAIN sops
        BY <1>0
      <4>4. Covered(p, id, sops)'
        BY <1>3, <2>3
      <4>5. [semid |-> id, num |-> sops[k].num, on |-> id] \in semun'[p]
        BY <4>2, <4>3, <4>4 DEF Covered, Listed
      <4> QED
        BY <4>2, <4>5 DEF Listed
    <3> QED
      BY <3>1, <3>2
  <2> HIDE DEF w
  <2>4. /\ \A q \in Procs : q # p => undo'[q] = undo[q]
        /\ undo'[p][id] = w
        /\ \A i \in Ids : i # id => undo'[p][i] = undo[p][i]
    BY <1>0, <2>2 DEF Values
  <2>5. \A i \in Ids, n \in Sems : undo'[p][i][n] # 0 /\ ~astray' => Listed(p, i, n)'
    BY <1>1, <2>3, <2>4
  <2>6. ~astray' => ListOk(p)'
    BY <2>1, <2>5 DEF ListOk, ExitsAt
  <2> QED
    BY <2>1, <2>4, <2>6, ListsOthers
<1>4. ASSUME Live(id), undo' = undo, NEW k, NEW z,
             proc' = [proc EXCEPT ![p] = [pc |-> "slept", id |-> id, sops |-> sops, k |-> k,
                                          queue |-> z]]
      PROVE  Lists'
  <2>1. /\ proc'[p].pc = "slept" /\ proc'[p].id = id /\ proc'[p].sops = sops
        /\ \A q \in Procs : q # p => proc'[q] = proc[q]
    BY <1>0, <1>4
  <2>2. ASSUME ~astray', NEW j \in DOMAIN sops, sops[j].undo
        PROVE  [semid |-> id, num |-> sops[j].num, on |-> id] \in semun'[p]
    BY <1>4, <2>2 DEF Covered, Listed
  <2>3. ASSUME ~astray' PROVE ListOk(p)'
    <3>1. \A j \in DOMAIN proc'[p].sops : proc'[p].sops[j].undo =>
             Listed(p, proc[p].id, proc[p].sops[j].num)'
      BY <2>1, <2>2, <2>3 DEF Listed
    <3>2. \A i \in Ids, n \in Sems :
            /\ undo'[p][i][n] # 0 => Listed(p, i, n)'
            /\ ~ExitsAt(p, i, n)'
      BY <1>1, <1>4, <2>1, <2>3 DEF ExitsAt
    <3> QED
      BY <2>3, <3>1, <3>2 DEF ListOk
  <2> QED
    BY <1>4, <2>1, <2>3, ListsOthers
<1> QED
  BY <1>2, <1>3, <1>4 DEF Slept, Removed

LEMMA ListsSemop ==
    ASSUME IInv, Lists, NEW p \in Procs, NEW id \in Ids, NEW sops \in Sops, semop(p, id, sops)
    PROVE  Lists'
<1> DEFINE new == NewUndo(p, id, sops)
<1>0. semun \in [Procs -> SUBSET Entry] /\ astray \in BOOLEAN
  BY DEF Lists
<1>1. /\ proc[p].pc = "user" /\ semary[slot(id)] \in Ids
      /\ semun' = [semun EXCEPT ![p] = @ \cup new]
      /\ astray' = (astray \/ (~Live(id) /\ new # {}))
      /\ Slept(p, id, sops)
  BY DEF semop
<1>2. \A k \in DOMAIN sops : sops[k].num \in Sems
  <2>1. \A k \in DOMAIN sops : sops[k] \in Sop
    BY SopsAssumption
  <2> QED
    BY <2>1 DEF Sop
<1>3. new \subseteq Entry
  BY <1>1, <1>2 DEF NewUndo, Entry
<1>4. ASSUME Live(id) PROVE \A u \in new : u.on = u.semid
  BY <1>4 DEF NewUndo, Live
<1>5. ASSUME NEW k \in DOMAIN sops, sops[k].undo,
             ~\E e \in semun[p] : e.semid = id /\ e.num = sops[k].num, Live(id)
      PROVE  [semid |-> id, num |-> sops[k].num, on |-> id] \in new
  BY <1>5 DEF NewUndo, Live
<1> HIDE DEF new
<1>6. /\ semun' \in [Procs -> SUBSET Entry] /\ semun'[p] = semun[p] \cup new
      /\ \A q \in Procs : q # p => semun'[q] = semun[q]
  BY <1>0, <1>1, <1>3
<1>7. ASSUME ~astray' PROVE \A u \in semun'[p] : u.on = u.semid
  BY <1>1, <1>4, <1>6, <1>7 DEF Lists, ListOk
<1>8. ASSUME ~astray', Live(id) PROVE Covered(p, id, sops)'
  <2> SUFFICES ASSUME NEW k \in DOMAIN sops, sops[k].undo
               PROVE  [semid |-> id, num |-> sops[k].num, on |-> id] \in semun'[p]
    BY DEF Covered, Listed
  <2>1. CASE \E e \in semun[p] : e.semid = id /\ e.num = sops[k].num
    <3>1. PICK e \in semun[p] : e.semid = id /\ e.num = sops[k].num
      BY <2>1
    <3>2. e \in Entry /\ e.on = id
      BY <1>0, <1>1, <1>8, <3>1 DEF Lists, ListOk
    <3>3. e = [semid |-> id, num |-> sops[k].num, on |-> id]
      BY <3>1, <3>2 DEF Entry
    <3> QED
      BY <1>6, <3>3
  <2> QED
    BY <1>5, <1>6, <1>8, <2>1
<1>9. astray' \in BOOLEAN /\ (astray => astray')
  BY <1>0, <1>1
<1>10. semun[p] \subseteq semun'[p] /\ proc[p].pc # "exiting"
  BY <1>1, <1>6
<1> QED
  BY <1>1, <1>6, <1>7, <1>8, <1>9, <1>10, ListsSlept

LEMMA ListsSemopResume == ASSUME IInv, Lists, NEW p \in Procs, SemopResume(p) PROVE Lists'
<1>0. semun \in [Procs -> SUBSET Entry] /\ astray \in BOOLEAN /\ proc[p] \in ProcState
  BY DEF Lists, IInv, Structure, Types
<1>1. /\ proc[p].pc = "slept" /\ Slept(p, proc[p].id, proc[p].sops)
      /\ semun' = semun /\ astray' = astray
  BY DEF SemopResume
<1>2. proc[p].id \in Ids /\ proc[p].sops \in Sops
  BY <1>0, <1>1, ProcFields
<1>3. PICK id \in Ids, sops \in Sops : id = proc[p].id /\ sops = proc[p].sops
  BY <1>2
<1>4. ~astray => Covered(p, id, sops)'
  BY <1>1, <1>3 DEF Lists, ListOk, Covered, Listed
<1>5. ~astray => \A u \in semun[p] : u.on = u.semid
  BY DEF Lists, ListOk
<1> QED
  BY <1>0, <1>1, <1>3, <1>4, <1>5, ListsSlept

\* The rest of an undo: its entry is off the list.
LEMMA ListsUndo ==
    ASSUME IInv, Lists, NEW p \in Procs, NEW id \in Ids, NEW n \in Sems,
           proc[p].pc = "exit" \/ ExitsAt(p, id, n), Undo(p, id, n),
           semun' \in [Procs -> SUBSET Entry], \A q \in Procs : q # p => semun'[q] = semun[q],
           semun'[p] = semun[p] \ {[semid |-> id, num |-> n, on |-> id]}, astray' = astray
    PROVE  Lists'
<1>0. proc \in [Procs -> ProcState] /\ undo \in [Procs -> Values] /\ astray \in BOOLEAN
  BY DEF IInv, Structure, Types, Lists
<1>1. /\ ~Listed(p, id, n)'
      /\ \A i \in Ids, m \in Sems : i # id \/ m # n => (Listed(p, i, m)' <=> Listed(p, i, m))
  BY DEF Listed
<1>2. \A i \in Ids, m \in Sems : ExitsAt(p, i, m) => i = id /\ m = n
  BY DEF ExitsAt
<1>3. ~astray => \A u \in semun'[p] : u.on = u.semid
  BY DEF Lists, ListOk
<1>4. \A i \in Ids, m \in Sems :
         ~astray /\ undo[p][i][m] # 0 /\ (i # id \/ m # n) => Listed(p, i, m)'
  BY <1>1, <1>2 DEF Lists, ListOk
<1>5. ASSUME undo' = [undo EXCEPT ![p][id][n] = 0], proc' = [proc EXCEPT ![p] = [pc |-> "exit"]]
      PROVE  Lists'
  <2>1. /\ proc'[p].pc = "exit"
        /\ \A q \in Procs : q # p => proc'[q] = proc[q] /\ undo'[q] = undo[q]
        /\ undo'[p][id][n] = 0
        /\ \A i \in Ids, m \in Sems : i # id \/ m # n => undo'[p][i][m] = undo[p][i][m]
    BY <1>0, <1>5 DEF Values
  <2>2. \A i \in Ids, m \in Sems : ~astray /\ undo'[p][i][m] # 0 => Listed(p, i, m)'
    BY <1>4, <2>1
  <2>3. ~astray' => ListOk(p)'
    BY <1>3, <2>1, <2>2 DEF ListOk, ExitsAt
  <2> QED
    BY <1>0, <2>1, <2>3, ListsOthers
<1>6. ASSUME undo' = undo,
             proc' = [proc EXCEPT ![p] = [pc |-> "exiting", id |-> id, num |-> n, queue |-> "n"]]
      PROVE  Lists'
  <2>1. /\ proc'[p].pc = "exiting" /\ proc'[p].id = id /\ proc'[p].num = n
        /\ \A q \in Procs : q # p => proc'[q] = proc[q]
    BY <1>0, <1>6
  <2>2. \A i \in Ids, m \in Sems :
          /\ ExitsAt(p, i, m)' <=> i = id /\ m = n
          /\ ~astray /\ undo'[p][i][m] # 0 => Listed(p, i, m)' \/ ExitsAt(p, i, m)'
    BY <1>4, <1>6, <2>1 DEF ExitsAt
  <2>3. ~astray' => ListOk(p)'
    BY <1>1, <1>3, <2>1, <2>2 DEF ListOk
  <2> QED
    BY <1>0, <1>6, <2>1, <2>3, ListsOthers
<1> QED
  BY <1>5, <1>6 DEF Undo

LEMMA ListsExitUndo == ASSUME IInv, Lists, NEW p \in Procs, ExitUndo(p) PROVE Lists'
<1>0. semun \in [Procs -> SUBSET Entry]
  BY DEF Lists
<1>1. PICK u \in semun[p] : /\ u.on = u.semid /\ semun' = [semun EXCEPT ![p] = @ \ {u}]
                            /\ Undo(p, u.semid, u.num)
  BY DEF ExitUndo, ToUndo
<1>2. u \in Entry
  BY <1>0
<1>3. PICK id \in Ids, n \in Sems : id = u.semid /\ n = u.num
  BY <1>2 DEF Entry
<1>4. u = [semid |-> id, num |-> n, on |-> id]
  BY <1>1, <1>2, <1>3 DEF Entry
<1>5. /\ semun' \in [Procs -> SUBSET Entry] /\ \A q \in Procs : q # p => semun'[q] = semun[q]
      /\ semun'[p] = semun[p] \ {[semid |-> id, num |-> n, on |-> id]}
  BY <1>0, <1>1, <1>4
<1>6. proc[p].pc = "exit" /\ astray' = astray /\ Undo(p, id, n)
  BY <1>1, <1>3 DEF ExitUndo
<1> QED
  BY <1>5, <1>6, ListsUndo

LEMMA ListsExitResume == ASSUME IInv, Lists, NEW p \in Procs, ExitResume(p) PROVE Lists'
<1>0. semun \in [Procs -> SUBSET Entry] /\ astray \in BOOLEAN /\ proc[p] \in ProcState
  BY DEF Lists, IInv, Structure, Types
<1>1. /\ proc[p].pc = "exiting" /\ Undo(p, proc[p].id, proc[p].num)
      /\ semun' = semun /\ astray' = astray
  BY DEF ExitResume
<1>2. proc[p].id \in Ids /\ proc[p].num \in Sems
  BY <1>0, <1>1, ProcFields
<1>3. PICK id \in Ids, n \in Sems : id = proc[p].id /\ n = proc[p].num
  BY <1>2
<1>4. ExitsAt(p, id, n) /\ Undo(p, id, n)
  BY <1>1, <1>3 DEF ExitsAt
<1>5. CASE astray
  BY <1>0, <1>1, <1>5 DEF Lists
<1>6. CASE ~astray
  <2>1. ~Listed(p, id, n)
    BY <1>4, <1>6 DEF Lists, ListOk
  <2>2. semun'[p] = semun[p] \ {[semid |-> id, num |-> n, on |-> id]}
    BY <1>1, <2>1 DEF Listed
  <2> QED
    BY <1>0, <1>1, <1>4, <2>2, ListsUndo
<1> QED
  BY <1>5, <1>6

LEMMA ListsExitAstray == ASSUME IInv, Lists, NEW p \in Procs, ExitAstray(p) PROVE Lists'
<1>0. semun \in [Procs -> SUBSET Entry] /\ astray \in BOOLEAN
  BY DEF Lists
<1>1. PICK u \in semun[p] : u.on # u.semid
  BY DEF ExitAstray, ToUndo
<1>2. astray /\ astray' = astray
  BY <1>0, <1>1 DEF Lists, ListOk, ExitAstray
<1>3. semun' \in [Procs -> SUBSET Entry]
  BY <1>0 DEF ExitAstray
<1> QED
  BY <1>2, <1>3 DEF Lists

LEMMA ListsExitDone == ASSUME IInv, Lists, NEW p \in Procs, ExitDone(p) PROVE Lists'
<1>0. semun \in [Procs -> SUBSET Entry] /\ astray \in BOOLEAN /\ proc \in [Procs -> ProcState]
  BY DEF Lists, IInv, Structure, Types
<1>1. /\ proc[p].pc = "exit" /\ ToUndo(p) = {} /\ semun' = [semun EXCEPT ![p] = {}]
      /\ proc' = [proc EXCEPT ![p] = User] /\ UNCHANGED <<undo, astray>>
  BY DEF ExitDone, Return
<1>2. /\ semun' \in [Procs -> SUBSET Entry] /\ semun'[p] = {} /\ proc'[p].pc = "user"
      /\ \A q \in Procs : q # p => semun'[q] = semun[q] /\ proc'[q] = proc[q]
  BY <1>0, <1>1 DEF User
<1>3. ASSUME ~astray, NEW id \in Ids, NEW n \in Sems PROVE undo[p][id][n] = 0
  <2> SUFFICES ASSUME undo[p][id][n] # 0 PROVE FALSE
    OBVIOUS
  <2>1. Listed(p, id, n)
    BY <1>1, <1>3 DEF Lists, ListOk, ExitsAt
  <2>2. [semid |-> id, num |-> n, on |-> id] \in ToUndo(p)
    BY <2>1 DEF Listed, ToUndo
  <2> QED
    BY <1>1, <2>2
<1>4. ~astray' => ListOk(p)'
  BY <1>1, <1>2, <1>3 DEF ListOk, ExitsAt
<1> QED
  BY <1>0, <1>1, <1>2, <1>4, ListsOthers

LEMMA NextLists == ASSUME IInv, Lists, [Next]_vars PROVE Lists'
<1>0. Types /\ proc \in [Procs -> ProcState]
  BY DEF IInv, Structure, Types
<1>1. CASE UNCHANGED vars
  BY <1>1, ListsKept DEF vars
<1>2. ASSUME NEW p \in Procs, UNCHANGED <<semun, astray, undo>>, proc[p].pc # "exiting",
             \A q \in Procs : q # p => proc'[q] = proc[q],
             proc'[p] = proc[p] \/ proc'[p].pc \notin {"slept", "exiting"}
      PROVE  Lists'
  <2>1. \A q \in Procs : \/ proc'[q] = proc[q]
                         \/ proc[q].pc # "exiting" /\ proc'[q].pc \notin {"slept", "exiting"}
    BY <1>2
  <2> QED
    BY <1>2, <2>1, ListsKept
<1>3. ASSUME NEW p \in Procs, UNCHANGED <<semun, astray>>, NEW id \in Ids, NEW S,
             \A q \in Procs : q # p => proc'[q] = proc[q],
             proc'[p].pc \notin {"slept", "exiting"},
             proc[p].pc # "exiting", undo' = Cleared(id, S)
      PROVE  Lists'
  <2>1. \A q \in Procs : \/ proc'[q] = proc[q]
                         \/ proc[q].pc # "exiting" /\ proc'[q].pc \notin {"slept", "exiting"}
    BY <1>3
  <2>2. ASSUME NEW q \in Procs, NEW i \in Ids, NEW n \in Sems
        PROVE  undo'[q][i][n] \in {0, undo[q][i][n]}
    <3>1. /\ i # id => Cleared(id, S)[q][i] = undo[q][i]
          /\ Cleared(id, S)[q][id][n] = IF n \in S /\ Listed(q, id, n) THEN 0 ELSE undo[q][id][n]
      BY <1>0, ClearedValues
    <3> QED
      BY <1>3, <3>1
  <2> QED
    BY <1>3, <2>1, <2>2, ListsKept
<1>4. CASE Next
  <2>1. PICK p \in Procs :
          \/ newary(p) \/ sem_exit(p) \/ send_sig(p) \/ Proceed(p)
          \/ \E id \in Ids :
              \/ \E sops \in Sops : semop(p, id, sops)
              \/ \E S \in {{n} : n \in Sems} \cup {Sems} : semctl(p, id, S)
              \/ freeary(p, id)
    BY <1>4, Zenon DEF Next
  <2>2. CASE newary(p)
    <3>1. /\ UNCHANGED <<semun, astray, undo>> /\ proc[p].pc = "user"
          /\ proc'[p].pc = "kmalloc" /\ \A q \in Procs : q # p => proc'[q] = proc[q]
      BY <1>0, <2>2 DEF newary
    <3> QED
      BY <1>2, <3>1
  <2>3. CASE sem_exit(p)
    <3>1. /\ UNCHANGED <<semun, astray, undo>> /\ proc[p].pc = "user"
          /\ proc'[p].pc = "exit" /\ \A q \in Procs : q # p => proc'[q] = proc[q]
      BY <1>0, <2>3 DEF sem_exit
    <3> QED
      BY <1>2, <3>1
  <2>4. CASE send_sig(p)
    BY <2>4, ListsKept DEF send_sig
  <2>5. CASE NewaryDone(p)
    <3>1. /\ UNCHANGED <<semun, astray, undo>> /\ proc[p].pc = "kmalloc"
          /\ proc'[p].pc = "user" /\ \A q \in Procs : q # p => proc'[q] = proc[q]
      BY <1>0, <2>5 DEF NewaryDone, Return, User
    <3> QED
      BY <1>2, <3>1
  <2>6. CASE FreearyLoop(p)
    <3>1. /\ UNCHANGED <<semun, astray, undo>> /\ proc[p].pc = "freeary"
          /\ proc'[p] = proc[p] \/ proc'[p].pc = "user"
          /\ \A q \in Procs : q # p => proc'[q] = proc[q]
      BY <1>0, <2>6 DEF FreearyLoop, Return, User
    <3> QED
      BY <1>2, <3>1
  <2>7. CASE Set(p)
    <3>1. proc[p].id \in Ids
      BY <1>0, <2>7, ProcFields DEF Set
    <3>2. /\ UNCHANGED <<semun, astray>> /\ proc[p].pc = "semctl"
          /\ proc'[p].pc = "user" /\ \A q \in Procs : q # p => proc'[q] = proc[q]
      BY <1>0, <2>7 DEF Set, Return, User
    <3>3. CASE undo' = undo
      BY <1>2, <3>2, <3>3
    <3>4. CASE undo' = Cleared(proc[p].id, proc[p].sems)
      BY <1>3, <3>1, <3>2, <3>4
    <3> QED
      BY <2>7, <3>3, <3>4 DEF Set
  <2>8. CASE SemopResume(p) \/ ExitUndo(p) \/ ExitAstray(p) \/ ExitResume(p) \/ ExitDone(p)
    BY <2>8, ListsSemopResume, ListsExitUndo, ListsExitAstray, ListsExitResume, ListsExitDone
  <2>9. ASSUME NEW id \in Ids, NEW sops \in Sops, semop(p, id, sops) PROVE Lists'
    BY <2>9, ListsSemop
  <2>10. ASSUME NEW id \in Ids, NEW S, semctl(p, id, S) PROVE Lists'
    <3>1. /\ UNCHANGED <<semun, astray, undo>> /\ proc[p].pc = "user"
          /\ proc'[p].pc = "semctl" /\ \A q \in Procs : q # p => proc'[q] = proc[q]
      BY <1>0, <2>10 DEF semctl
    <3> QED
      BY <1>2, <3>1
  <2>11. ASSUME NEW id \in Ids, freeary(p, id) PROVE Lists'
    <3>1. /\ UNCHANGED <<semun, astray>> /\ proc[p].pc = "user" /\ undo' = Cleared(id, Sems)
          /\ proc'[p].pc = "freeary" /\ \A q \in Procs : q # p => proc'[q] = proc[q]
      BY <1>0, <2>11 DEF freeary
    <3> QED
      BY <1>3, <3>1
  <2>12. CASE Proceed(p)
    BY <2>5, <2>6, <2>7, <2>8, <2>12 DEF Proceed
  <2> QED
    BY <2>1, <2>2, <2>3, <2>4, <2>9, <2>10, <2>11, <2>12, Zenon
<1> QED
  BY <1>1, <1>4

-----------------------------------------------------------------------------
(* The results.                                                            *)

LEMMA InitIInv == ASSUME Init PROVE IInv
<1>0. Zero \in [Sems -> Int] /\ \A n \in Sems : Zero[n] = 0
  BY DEF Zero
<1>1. Types
  <2>1. [id \in Ids |-> Zero] \in Values
    BY <1>0 DEF Values
  <2>2. User \in ProcState
    BY DEF User, ProcState
  <2>3. IPC_UNUSED \in Int
    BY DEF IPC_UNUSED
  <2> QED
    BY <2>1, <2>2, <2>3 DEF Init, Types
<1>2. \A id \in Ids : ~Live(id)
  <2> TAKE id \in Ids
  <2>1. slot(id) \in Slots /\ id # IPC_UNUSED
    BY IdFacts
  <2> QED
    BY <2>1 DEF Init, Live
<1>3. \A p \in Procs : proc[p].pc = "user"
  BY DEF Init, User
<1>4. LiveBound /\ Making /\ AllKnown /\ NoUseAfterFree
  BY <1>2, <1>3 DEF Init, LiveBound, Making, AllKnown, NoUseAfterFree
<1>5. Fresh /\ UndoBalance /\ Sleepers
  BY <1>2, <1>3 DEF Init, Fresh, UndoBalance, Sleepers
<1> QED
  BY <1>1, <1>4, <1>5 DEF IInv, Structure

LEMMA NextIInv == ASSUME IInv, Lists, [Next]_vars PROVE IInv'
<1>1. CASE UNCHANGED vars
  <2>1. Types'
    BY <1>1 DEF vars, IInv, Structure, Types
  <2> QED
    BY <1>1, <2>1, Quiet DEF vars
<1>2. CASE Next
  <2>1. PICK p \in Procs :
          \/ newary(p) \/ sem_exit(p) \/ send_sig(p) \/ Proceed(p)
          \/ \E id \in Ids :
              \/ \E sops \in Sops : semop(p, id, sops)
              \/ \E S \in {{n} : n \in Sems} \cup {Sems} : semctl(p, id, S)
              \/ freeary(p, id)
    BY <1>2, Zenon DEF Next
  <2>2. CASE newary(p) \/ sem_exit(p) \/ send_sig(p)
    BY <2>2, KeepsNewary, KeepsSemExit, KeepsSendSig
  <2>3. CASE Proceed(p)
    BY <2>3, KeepsNewaryDone, KeepsSemopResume, KeepsSet, KeepsFreearyLoop, KeepsExitUndo,
       KeepsExitAstray, KeepsExitResume, KeepsExitDone DEF Proceed
  <2>4. ASSUME NEW id \in Ids, NEW sops \in Sops, semop(p, id, sops) PROVE IInv'
    BY <2>4, KeepsSemop
  <2>5. ASSUME NEW id \in Ids, NEW S \in {{n} : n \in Sems} \cup {Sems}, semctl(p, id, S)
        PROVE  IInv'
    <3>1. S \in SUBSET Sems
      OBVIOUS
    <3> QED
      BY <2>5, <3>1, KeepsSemctl
  <2>6. ASSUME NEW id \in Ids, freeary(p, id) PROVE IInv'
    BY <2>6, KeepsFreeary
  <2> QED
    BY <2>1, <2>2, <2>3, <2>4, <2>5, <2>6, Zenon
<1> QED
  BY <1>1, <1>2

LEMMA InitLists == ASSUME Init PROVE Lists
<1>1. \A p \in Procs : /\ proc[p].pc = "user" /\ semun[p] = {}
                       /\ \A id \in Ids, n \in Sems : undo[p][id][n] = 0
  BY DEF Init, User, Zero
<1>2. \A p \in Procs : ListOk(p)
  BY <1>1 DEF ListOk, ExitsAt
<1>3. semun \in [Procs -> SUBSET Entry] /\ astray \in BOOLEAN
  BY DEF Init
<1> QED
  BY <1>2, <1>3 DEF Lists

\* The inductive invariant holds: identifiers are not given twice, whoever is
\* in a call for a set knows it by an identifier of its own, every undo entry
\* is in the list of its set until one goes astray, and the three results below.
THEOREM SemaphoreInvariant == Spec => [](IInv /\ Lists)
<1>1. Init => IInv /\ Lists
  BY InitIInv, InitLists
<1>2. IInv /\ Lists /\ [Next]_vars => (IInv /\ Lists)'
  BY NextIInv, NextLists
<1> QED
  BY <1>1, <1>2, PTL DEF Spec

\* Until semop puts an undo entry into the list of a wrong set, the value of a
\* semaphore and all undo values for it add up to what SETVAL and the operations
\* without SEM_UNDO have made of it, plus what the exits that slept during a
\* SETVAL still have to undo (sys_semop, sem_exit, semctl).
THEOREM UndoStaysBalanced == Spec => []UndoBalance
<1>1. IInv => UndoBalance
  BY DEF IInv
<1> QED
  BY <1>1, SemaphoreInvariant, PTL

\* Whoever sleeps in semop or sem_exit has the reason it went to sleep for, or
\* freeary is still there to wake it: no wake_up is missing.
THEOREM NoWakeupIsLost == Spec => []NoLostWakeup
<1>1. IInv => NoLostWakeup
  BY DEF IInv, Sleepers, Reason, NoLostWakeup
<1> QED
  BY <1>1, SemaphoreInvariant, PTL

\* freeary lets a set go only when no process in semop or sem_exit is on a
\* queue of it, and none will come to be: its identifier is not used again.
THEOREM NothingFreedIsUsed == Spec => []NoUseAfterFree
<1>1. IInv => NoUseAfterFree
  BY DEF IInv, Structure
<1> QED
  BY <1>1, SemaphoreInvariant, PTL

=============================================================================
