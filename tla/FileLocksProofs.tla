--------------------------- MODULE FileLocksProofs ---------------------------
(***************************************************************************)
(* Proofs about FileLocks, for any number of tasks and descriptors and any *)
(* file size.                                                              *)
(***************************************************************************)
EXTENDS FileLocks, SequenceTheorems, WellFoundedInduction, TLAPS

-----------------------------------------------------------------------------
(* Types.                                                                  *)

Types == {"F_RDLCK", "F_WRLCK"}
Entry == [owner : Owners, type : Types, start : Int, end : Int, wait : SUBSET Tasks]
Request == [owner : Owners, type : Types \cup {"F_UNLCK"}, start : Int, end : Int, wait : {{}}]
Loops == [out : Seq(Entry), c : Request, at : Nat, added : BOOLEAN,
          left : Nat, right : Nat, stop : Int, wake : SUBSET Tasks]

\* The lock that c becomes when it swallows fl.
Grown(c, fl) == [c EXCEPT !.start = IF fl.start > c.start THEN c.start ELSE fl.start,
                          !.end = IF fl.end < c.end THEN c.end ELSE fl.end]
\* The entry l with the range of c.
Sized(l, c) == [l EXCEPT !.start = c.start, !.end = c.end]

-----------------------------------------------------------------------------
(* The branches of the loop, each with its condition.                      *)

\* After a break, or an entry that c does not reach: it stays.
StepKeeps(a, fl, r) ==
    /\ \/ a.stop >= 0
       \/ a.stop < 0 /\ a.c.type = fl.type /\ ~Adjacent(a.c, fl) /\ fl.end < a.c.start - 1
       \/ a.stop < 0 /\ a.c.type # fl.type /\ fl.end < a.c.start
    /\ r = [a EXCEPT !.out = Append(a.out, fl)]

StepBreaks(a, fl, r) ==
    /\ a.stop < 0
    /\ \/ a.c.type = fl.type /\ ~Adjacent(a.c, fl) /\ ~(fl.end < a.c.start - 1)
       \/ a.c.type # fl.type /\ ~(fl.end < a.c.start) /\ fl.start > a.c.end
    /\ r = [a EXCEPT !.out = Append(a.out, fl), !.stop = Len(a.out)]

\* c grows, and with it the entry that stands for it.
StepGrows(a, fl, r) ==
    /\ a.stop < 0 /\ a.c.type = fl.type /\ Adjacent(a.c, fl) /\ a.added
    /\ r = [a EXCEPT !.c = Grown(a.c, fl), !.wake = a.wake \cup fl.wait,
                     !.out = [a.out EXCEPT ![a.at] = Sized(a.out[a.at], Grown(a.c, fl))]]

\* fl becomes the entry of c.
StepMerges(a, fl, r) ==
    /\ a.stop < 0 /\ a.c.type = fl.type /\ Adjacent(a.c, fl) /\ ~a.added
    /\ r = [a EXCEPT !.c = Grown(a.c, fl), !.out = Append(a.out, Sized(fl, Grown(a.c, fl))),
                     !.at = Len(a.out) + 1, !.added = TRUE]

\* fl sticks out on the right, perhaps on the left too.
StepRight(a, fl, r) ==
    /\ a.stop < 0 /\ a.c.type # fl.type /\ ~(fl.end < a.c.start)
    /\ fl.start <= a.c.end /\ fl.end > a.c.end
    /\ r = [a EXCEPT !.out = Append(a.out, fl), !.stop = Len(a.out),
                     !.added = a.added \/ a.c.type = "F_UNLCK",
                     !.left = IF fl.start < a.c.start THEN Len(a.out) + 1 ELSE a.left,
                     !.right = Len(a.out) + 1]

\* fl sticks out on the left only.
StepLeft(a, fl, r) ==
    /\ a.stop < 0 /\ a.c.type # fl.type /\ ~(fl.end < a.c.start)
    /\ fl.end <= a.c.end /\ fl.start < a.c.start
    /\ r = [a EXCEPT !.out = Append(a.out, fl),
                     !.added = a.added \/ a.c.type = "F_UNLCK", !.left = Len(a.out) + 1]

\* c covers fl, and has an entry or needs none: fl is freed.
StepFrees(a, fl, r) ==
    /\ a.stop < 0 /\ a.c.type # fl.type /\ fl.start >= a.c.start /\ fl.end <= a.c.end
    /\ ~(fl.end < a.c.start)
    /\ a.added \/ a.c.type = "F_UNLCK"
    /\ r = [a EXCEPT !.added = TRUE, !.wake = a.wake \cup fl.wait]

\* c covers fl and takes its entry.
StepReplaces(a, fl, r) ==
    /\ a.stop < 0 /\ a.c.type # fl.type /\ fl.start >= a.c.start /\ fl.end <= a.c.end
    /\ ~(fl.end < a.c.start)
    /\ ~a.added /\ a.c.type # "F_UNLCK"
    /\ r = [a EXCEPT !.out = Append(a.out, a.c), !.wake = a.wake \cup fl.wait,
                     !.at = Len(a.out) + 1, !.added = TRUE]

LEMMA StepCases ==
    ASSUME NEW a \in Loops, NEW fl \in Entry, NEW r, r = Step(a, fl)
    PROVE  \/ StepKeeps(a, fl, r) \/ StepBreaks(a, fl, r) \/ StepGrows(a, fl, r)
           \/ StepMerges(a, fl, r) \/ StepRight(a, fl, r) \/ StepLeft(a, fl, r)
           \/ StepFrees(a, fl, r) \/ StepReplaces(a, fl, r)
<1>0. /\ a.c \in Request /\ a.out \in Seq(Entry) /\ a.stop \in Int /\ a.added \in BOOLEAN
      /\ a.c.start \in Int /\ a.c.end \in Int /\ fl.start \in Int /\ fl.end \in Int
  BY DEF Loops, Request, Entry
<1>1. CASE a.stop >= 0
  BY <1>1 DEF Step, Keep, StepKeeps
<1>2. CASE ~(a.stop >= 0) /\ a.c.type = fl.type
  <2>0. a.stop < 0 /\ r = SameType(a, fl)
    BY <1>0, <1>2 DEF Step
  <2>1. CASE Adjacent(a.c, fl)
    <3>1. r = Merge(a, fl)
      BY <2>0, <2>1 DEF SameType
    <3>2. CASE a.added
      <4>1. StepGrows(a, fl, r)
        BY <1>0, <1>2, <2>0, <2>1, <3>1, <3>2 DEF Merge, free_lock, StepGrows, Grown, Sized, Loops, Request
      <4> QED
        BY <4>1
    <3>3. CASE ~a.added
      <4>1. StepMerges(a, fl, r)
        BY <1>0, <1>2, <2>0, <2>1, <3>1, <3>3, ZenonT(60) DEF Merge, Keep, StepMerges, Grown, Sized, Loops, Request
      <4> QED
        BY <4>1
    <3> QED
      BY <3>2, <3>3
  <2>2. CASE ~Adjacent(a.c, fl)
    BY <1>2, <2>0, <2>2 DEF SameType, Keep, Break, StepKeeps, StepBreaks
  <2> QED
    BY <2>1, <2>2
<1>3. CASE ~(a.stop >= 0) /\ a.c.type # fl.type
  <2>0. a.stop < 0 /\ r = OtherType(a, fl)
    BY <1>0, <1>3 DEF Step
  <2>1. CASE fl.end < a.c.start
    BY <1>3, <2>0, <2>1 DEF OtherType, Keep, StepKeeps
  <2>2. CASE ~(fl.end < a.c.start) /\ fl.start > a.c.end
    <3>1. r = Break(a, fl)
      BY <2>0, <2>2 DEF OtherType
    <3> QED
      BY <1>3, <2>0, <2>2, <3>1 DEF Break, Keep, StepBreaks
  <2>3. CASE ~(fl.end < a.c.start) /\ ~(fl.start > a.c.end)
    <3> DEFINE a1 == [a EXCEPT !.added = @ \/ a.c.type = "F_UNLCK",
                            !.left = IF fl.start < a.c.start THEN Len(a.out) + 1 ELSE @]
    <3>0. fl.start <= a.c.end /\ ~(fl.end < a.c.start)
      BY <1>0, <2>3
    <3>1. CASE fl.end > a.c.end
      <4>1. r = Break([a1 EXCEPT !.right = Len(a.out) + 1], fl)
        BY <2>0, <2>3, <3>0, <3>1 DEF OtherType
      <4>2. StepRight(a, fl, r)
        BY <1>3, <2>0, <3>0, <3>1, <4>1 DEF Break, Keep, StepRight, Loops
      <4> QED
        BY <4>2
    <3>2. CASE ~(fl.end > a.c.end)
      <4>0. r = IF fl.start >= a.c.start THEN Replace(a1, fl) ELSE Keep(a1, fl)
        BY <2>0, <2>3, <3>0, <3>2 DEF OtherType
      <4>1. fl.end <= a.c.end
        BY <1>0, <3>2
      <4>2. CASE ~(fl.start >= a.c.start)
        <5>1. fl.start < a.c.start /\ r = Keep(a1, fl)
          BY <1>0, <4>0, <4>2
        <5>2. StepLeft(a, fl, r)
          BY <1>3, <2>0, <3>0, <4>1, <5>1 DEF Keep, StepLeft, Loops
        <5> QED
          BY <5>2
      <4>3. CASE fl.start >= a.c.start
        <5>1. ~(fl.start < a.c.start) /\ r = Replace(a1, fl)
          BY <1>0, <4>0, <4>3
        <5>2. a1 = [a EXCEPT !.added = a.added \/ a.c.type = "F_UNLCK"]
          BY <5>1 DEF Loops
        <5>3. CASE a.added \/ a.c.type = "F_UNLCK"
          <6>1. StepFrees(a, fl, r)
            BY <1>3, <2>0, <3>0, <4>1, <4>3, <5>1, <5>2, <5>3 DEF Replace, free_lock, StepFrees, Loops
          <6> QED
            BY <6>1
        <5>4. CASE ~(a.added \/ a.c.type = "F_UNLCK")
          <6>1. StepReplaces(a, fl, r)
            BY <1>0, <1>3, <2>0, <3>0, <4>1, <4>3, <5>1, <5>2, <5>4, ZenonT(60) DEF Replace, Keep, StepReplaces, Loops
          <6> QED
            BY <6>1
        <5> QED
          BY <5>3, <5>4
      <4> QED
        BY <4>2, <4>3
    <3> QED
      BY <3>1, <3>2
  <2> QED
    BY <2>1, <2>2, <2>3
<1> QED
  BY <1>1, <1>2, <1>3

-----------------------------------------------------------------------------
(* The loop as a whole: induction over its rounds, with the property as a  *)
(* set of pairs of a round and a state.                                    *)

LEMMA LeastNumber ==
    ASSUME NEW S, S \subseteq Nat, S # {}
    PROVE  \E m \in S : \A y \in S : m <= y
<1>1. PICK m \in S : \A y \in S : <<y, m>> \notin OpToRel(<, Nat)
  BY NatLessThanWellFounded, WFMin
<1>2. ASSUME NEW y \in S PROVE m <= y
  <2>1. m \in Nat /\ y \in Nat
    OBVIOUS
  <2>2. y < m => <<y, m>> \in OpToRel(<, Nat)
    BY <2>1 DEF OpToRel
  <2>3. ~(y < m)
    BY <1>1, <2>2, Zenon
  <2> QED
    BY <2>1, <2>3
<1> QED
  BY <1>2

LEMMA NumberInduction ==
    ASSUME NEW Q, 0 \in Q, \A n \in Nat : n \in Q => n + 1 \in Q
    PROVE  Nat \subseteq Q
<1> SUFFICES ASSUME Nat \ Q # {} PROVE FALSE
  OBVIOUS
<1>1. PICK m \in Nat \ Q : \A y \in Nat \ Q : m <= y
  BY LeastNumber
<1>2. m # 0 /\ m - 1 \in Nat /\ ~(m <= m - 1)
  BY <1>1
<1>3. m - 1 \in Q
  BY <1>1, <1>2
<1>4. (m - 1) + 1 \in Q
  BY <1>2, <1>3
<1> QED
  BY <1>1, <1>4

Start(caller) == [out |-> <<>>, c |-> caller, at |-> 0, added |-> FALSE,
                  left |-> 0, right |-> 0, stop |-> -1, wake |-> {}]

\* h[k] is the state after k rounds.
Rounds(h, g, caller, n) ==
    h = [k \in 0 .. n |-> IF k = 0 THEN Start(caller) ELSE Step(h[k - 1], g[k])]

LEMMA RoundsExist ==
    ASSUME NEW g, NEW caller
    PROVE  \A n \in Nat : \E h : Rounds(h, g, caller, n)
<1> DEFINE Q == {n \in Nat : \E h : Rounds(h, g, caller, n)}
<1>1. 0 \in Q
  <2> DEFINE h == [k \in 0 .. 0 |-> Start(caller)]
  <2>1. \A k \in 0 .. 0 : k = 0
    OBVIOUS
  <2>2. h = [k \in 0 .. 0 |-> IF k = 0 THEN Start(caller) ELSE Step(h[k - 1], g[k])]
    BY <2>1
  <2>3. Rounds(h, g, caller, 0)
    BY <2>2 DEF Rounds
  <2> QED
    BY <2>3
<1>2. ASSUME NEW n \in Nat, n \in Q PROVE n + 1 \in Q
  <2>1. PICK h : Rounds(h, g, caller, n)
    BY <1>2
  <2> DEFINE Succ(k) == IF k = 0 THEN Start(caller) ELSE Step(h[k - 1], g[k])
             f == [k \in 0 .. n + 1 |-> Succ(k)]
  <2>2. \A k \in 0 .. n : h[k] = Succ(k)
    BY <2>1 DEF Rounds
  <2>3. \A k \in 0 .. n + 1 : k = 0 \/ k - 1 \in 0 .. n
    OBVIOUS
  <2>4. \A k \in 0 .. n : f[k] = h[k]
    BY <2>2
  <2>5. f = [k \in 0 .. n + 1 |-> IF k = 0 THEN Start(caller) ELSE Step(f[k - 1], g[k])]
    BY <2>3, <2>4
  <2>6. Rounds(f, g, caller, n + 1)
    BY <2>5 DEF Rounds
  <2> HIDE DEF f
  <2> QED
    BY <2>6
<1> HIDE DEF Q
<1>3. Nat \subseteq Q
  BY <1>1, <1>2, NumberInduction
<1> QED
  BY <1>3 DEF Q

\* P is kept by every round.
Closed(P, g) ==
    \A k \in Nat : k < Len(g) => \A a : <<k, a>> \in P => <<k + 1, Step(a, g[k + 1])>> \in P

LEMMA LoopInduction ==
    ASSUME NEW g, NEW caller, Len(g) \in Nat,
           NEW P, <<0, Start(caller)>> \in P, Closed(P, g)
    PROVE  <<Len(g), Loop(g, caller)>> \in P
<1> DEFINE n == Len(g)
           h == CHOOSE f : Rounds(f, g, caller, n)
<1>1. Loop(g, caller) = h[n]
  BY DEF Loop, Rounds, Start
<1>2. Rounds(h, g, caller, n)
  BY RoundsExist
<1> HIDE DEF h
<1>3. \A k \in 0 .. n : h[k] = IF k = 0 THEN Start(caller) ELSE Step(h[k - 1], g[k])
  BY <1>2 DEF Rounds
<1> DEFINE Q == {k \in Nat : k <= n => <<k, h[k]>> \in P}
<1>4. 0 \in Q
  BY <1>3
<1>5. ASSUME NEW k \in Nat, k \in Q PROVE k + 1 \in Q
  <2> SUFFICES ASSUME k + 1 <= n PROVE <<k + 1, h[k + 1]>> \in P
    OBVIOUS
  <2>1. k < n /\ k <= n /\ k + 1 \in 0 .. n /\ k + 1 # 0 /\ (k + 1) - 1 = k
    OBVIOUS
  <2>2. h[k + 1] = Step(h[k], g[k + 1])
    BY <1>3, <2>1
  <2>3. <<k, h[k]>> \in P
    BY <1>5, <2>1
  <2> QED
    BY <2>1, <2>2, <2>3 DEF Closed
<1>6. Nat \subseteq Q
  <2> HIDE DEF Q
  <2> QED
    BY <1>4, <1>5, NumberInduction
<1> QED
  BY <1>1, <1>6

-----------------------------------------------------------------------------
(* Who waits where.                                                        *)

\* The tasks of A, each in one queue of the list, and no other task.
Sound(l, A) ==
    /\ \A i \in 1 .. Len(l) : l[i].wait \subseteq A
    /\ \A t \in A : \E i \in 1 .. Len(l) : t \in l[i].wait
    /\ \A i, j \in 1 .. Len(l) : \A t : t \in l[i].wait /\ t \in l[j].wait => i = j

LEMMA SoundSame ==
    ASSUME NEW l, NEW m, NEW A, Sound(l, A), Len(m) = Len(l),
           \A i \in 1 .. Len(l) : m[i].wait = l[i].wait
    PROVE  Sound(m, A)
  BY DEF Sound

LEMMA SoundEmpty == Sound(<<>>, {})
  BY DEF Sound

LEMMA SoundConcat ==
    ASSUME NEW l \in Seq(Entry), NEW m \in Seq(Entry), NEW A, NEW B,
           Sound(l, A), Sound(m, B), A \cap B = {}
    PROVE  Sound(l \o m, A \cup B)
<1> DEFINE s == l \o m
           x == Len(l)
           y == Len(m)
<1>1. /\ x \in Nat /\ y \in Nat /\ Len(s) = x + y
      /\ \A i \in 1 .. x : s[i] = l[i]
      /\ \A i \in 1 .. y : s[x + i] = m[i]
      /\ \A i \in 1 .. x + y : i \in 1 .. x \/ (i - x \in 1 .. y /\ s[i] = m[i - x])
  BY ConcatProperties
<1> HIDE DEF s
<1>2. \A i \in 1 .. Len(s) : s[i].wait \subseteq A \cup B
  BY <1>1, SMTT(30) DEF Sound
<1>3. ASSUME NEW t \in A \cup B PROVE \E i \in 1 .. Len(s) : t \in s[i].wait
  <2>1. CASE t \in A
    BY <1>1, <2>1 DEF Sound
  <2>2. CASE t \in B
    <3>1. PICK i \in 1 .. y : t \in m[i].wait
      BY <2>2 DEF Sound
    <3>2. x + i \in 1 .. Len(s) /\ t \in s[x + i].wait
      BY <1>1, <3>1
    <3> QED
      BY <3>2
  <2> QED
    BY <2>1, <2>2
<1>4. ASSUME NEW i \in 1 .. Len(s), NEW j \in 1 .. Len(s), NEW t, t \in s[i].wait, t \in s[j].wait
      PROVE  i = j
  <2>1. CASE i \in 1 .. x /\ j \in 1 .. x
    BY <1>1, <1>4, <2>1 DEF Sound
  <2>2. CASE i \notin 1 .. x /\ j \notin 1 .. x
    <3>1. i - x \in 1 .. y /\ j - x \in 1 .. y /\ t \in m[i - x].wait /\ t \in m[j - x].wait
      BY <1>1, <1>4, <2>2
    <3>2. i - x = j - x
      BY <3>1 DEF Sound
    <3> QED
      BY <1>1, <3>2
  <2>3. CASE i \in 1 .. x /\ j \notin 1 .. x
    <3>1. t \in l[i].wait /\ j - x \in 1 .. y /\ t \in m[j - x].wait
      BY <1>1, <1>4, <2>3
    <3>2. t \in A /\ t \in B
      BY <2>3, <3>1 DEF Sound
    <3> QED
      BY <3>2
  <2>4. CASE i \notin 1 .. x /\ j \in 1 .. x
    <3>1. t \in l[j].wait /\ i - x \in 1 .. y /\ t \in m[i - x].wait
      BY <1>1, <1>4, <2>4
    <3>2. t \in A /\ t \in B
      BY <2>4, <3>1 DEF Sound
    <3> QED
      BY <3>2
  <2> QED
    BY <2>1, <2>2, <2>3, <2>4
<1>5. Sound(s, A \cup B)
  BY <1>2, <1>3, <1>4 DEF Sound
<1> QED
  BY <1>5 DEF s

\* The parts of a sound list are sound, each for its own tasks.
Parted(l, m, C) == \E A, B : Sound(l, A) /\ Sound(m, B) /\ A \cap B = {} /\ A \cup B = C

LEMMA SoundParts ==
    ASSUME NEW l \in Seq(Entry), NEW m \in Seq(Entry), NEW C, Sound(l \o m, C)
    PROVE  Parted(l, m, C)
<1> DEFINE s == l \o m
           x == Len(l)
           y == Len(m)
           A == {t \in C : \E i \in 1 .. x : t \in l[i].wait}
           B == {t \in C : \E i \in 1 .. y : t \in m[i].wait}
<1>1. /\ x \in Nat /\ y \in Nat /\ Len(s) = x + y
      /\ \A i \in 1 .. x : s[i] = l[i] /\ i \in 1 .. x + y
      /\ \A i \in 1 .. y : s[x + i] = m[i] /\ x + i \in 1 .. x + y
      /\ \A i \in 1 .. x + y : i \in 1 .. x \/ (i - x \in 1 .. y /\ s[i] = m[i - x])
  BY ConcatProperties
<1>2. Sound(s, C)
  OBVIOUS
<1> HIDE DEF s
<1>3. Sound(l, A)
  <2>1. ASSUME NEW i \in 1 .. x, NEW j \in 1 .. x, NEW t, t \in l[i].wait, t \in l[j].wait
        PROVE  i = j
    BY <1>1, <1>2, <2>1 DEF Sound
  <2>2. \A i \in 1 .. x : l[i].wait \subseteq C
    BY <1>1, <1>2 DEF Sound
  <2> QED
    BY <2>1, <2>2 DEF Sound
<1>4. Sound(m, B)
  <2>1. ASSUME NEW i \in 1 .. y, NEW j \in 1 .. y, NEW t, t \in m[i].wait, t \in m[j].wait
        PROVE  i = j
    <3>0. /\ x + i \in 1 .. Len(s) /\ x + j \in 1 .. Len(s)
          /\ t \in s[x + i].wait /\ t \in s[x + j].wait
      BY <1>1, <2>1
    <3>1. x + i = x + j
      BY <1>2, <3>0 DEF Sound
    <3> QED
      BY <1>1, <3>1
  <2>2. \A i \in 1 .. y : m[i].wait \subseteq C
    BY <1>1, <1>2 DEF Sound
  <2> QED
    BY <2>1, <2>2 DEF Sound
<1>5. A \cap B = {}
  <2> SUFFICES ASSUME NEW t \in A, t \in B PROVE FALSE
    OBVIOUS
  <2>1. PICK i \in 1 .. x : t \in l[i].wait
    OBVIOUS
  <2>2. PICK j \in 1 .. y : t \in m[j].wait
    OBVIOUS
  <2>3. i = x + j
    BY <1>1, <1>2, <2>1, <2>2, SMTT(30) DEF Sound
  <2> QED
    BY <1>1, <2>3
<1>6. A \cup B = C
  BY <1>1, <1>2 DEF Sound
<1> HIDE DEF A, B
<1> QED
  BY <1>3, <1>4, <1>5, <1>6 DEF Parted

LEMMA SoundOne ==
    ASSUME NEW e \in Entry
    PROVE  <<e>> \in Seq(Entry) /\ Sound(<<e>>, e.wait)
<1>1. <<e>> \in Seq(Entry) /\ Len(<<e>>) = 1 /\ <<e>>[1] = e /\ 1 .. 1 = {1}
  OBVIOUS
<1> QED
  BY <1>1 DEF Sound

LEMMA SoundAppend ==
    ASSUME NEW l \in Seq(Entry), NEW e \in Entry, NEW A, Sound(l, A), A \cap e.wait = {}
    PROVE  Append(l, e) \in Seq(Entry) /\ Sound(Append(l, e), A \cup e.wait)
<1>1. Append(l, e) = l \o <<e>> /\ Append(l, e) \in Seq(Entry)
  BY AppendIsConcat, AppendProperties
<1> QED
  BY <1>1, SoundOne, SoundConcat

-----------------------------------------------------------------------------
(* The loop wakes the waiters of the entries it frees, and keeps the rest. *)

Waits(g, k) == UNION {g[i].wait : i \in 1 .. k}

LEMMA WaitsGrow ==
    ASSUME NEW g \in Seq(Entry), NEW A, Sound(g, A), NEW k \in Nat, k < Len(g)
    PROVE  /\ Waits(g, k + 1) = Waits(g, k) \cup g[k + 1].wait
           /\ Waits(g, k) \cap g[k + 1].wait = {}
<1>0. \A i \in 1 .. k + 1 : i \in 1 .. k \/ i = k + 1
  OBVIOUS
<1>00. Len(g) \in Nat /\ k + 1 \in 1 .. Len(g) /\ k + 1 \in 1 .. k + 1 /\ \A i \in 1 .. k : i \in 1 .. Len(g) /\ i # k + 1 /\ i \in 1 .. k + 1
  OBVIOUS
<1>1. Waits(g, k + 1) = Waits(g, k) \cup g[k + 1].wait
  BY <1>0, <1>00, Zenon DEF Waits
<1>2. Waits(g, k) \cap g[k + 1].wait = {}
  <2> SUFFICES ASSUME NEW t \in Waits(g, k), t \in g[k + 1].wait PROVE FALSE
    BY Zenon
  <2>1. PICK i \in 1 .. k : t \in g[i].wait
    BY Zenon DEF Waits
  <2>2. i = k + 1
    BY <1>00, <2>1 DEF Sound
  <2> QED
    BY <1>00, <2>2
<1> QED
  BY <1>1, <1>2

\* The tasks in the queues of l are those of W that have not been woken.
Shared(l, woken, W) == \E Q : Sound(l, Q) /\ Q \cap woken = {} /\ Q \cup woken = W

LoopSound(a, o, W) ==
    /\ a \in Loops /\ a.c.owner = o
    /\ a.stop \in -1 .. Len(a.out) /\ a.left \in 0 .. Len(a.out) /\ a.right \in 0 .. Len(a.out)
    /\ a.added /\ a.c.type # "F_UNLCK" => a.at \in 1 .. Len(a.out)
    /\ \A i \in 1 .. Len(a.out) : a.out[i].owner = o
    /\ Shared(a.out, a.wake, W)

LEMMA LoopStartsSound ==
    ASSUME NEW caller \in Request
    PROVE  LoopSound(Start(caller), caller.owner, {})
<1>1. Start(caller) \in Loops
  BY DEF Start, Loops
<1>2. Shared(<<>>, {}, {})
  BY SoundEmpty DEF Shared
<1> QED
  BY <1>1, <1>2 DEF LoopSound, Start

\* The next entry is kept, as it is, resized, or with its waiters woken.
LEMMA SharedAppend ==
    ASSUME NEW l \in Seq(Entry), NEW e \in Entry, NEW woken, NEW W, NEW V,
           Shared(l, woken, W), W \cap V = {}
    PROVE  /\ e.wait = V => Shared(Append(l, e), woken, W \cup V)
           /\ e.wait = {} => Shared(Append(l, e), woken \cup V, W \cup V)
           /\ Shared(l, woken \cup V, W \cup V)
<1>1. PICK Q : Sound(l, Q) /\ Q \cap woken = {} /\ Q \cup woken = W
  BY DEF Shared
<1>2. ASSUME e.wait = V PROVE Shared(Append(l, e), woken, W \cup V)
  <2>1. Q \cap e.wait = {}
    BY <1>1, <1>2
  <2>2. Sound(Append(l, e), Q \cup V)
    BY <1>1, <1>2, <2>1, SoundAppend
  <2>3. (Q \cup V) \cap woken = {} /\ (Q \cup V) \cup woken = W \cup V
    BY <1>1
  <2> QED
    BY <2>2, <2>3 DEF Shared
<1>3. Q \cap (woken \cup V) = {} /\ Q \cup (woken \cup V) = W \cup V
  BY <1>1
<1>4. ASSUME e.wait = {} PROVE Shared(Append(l, e), woken \cup V, W \cup V)
  <2>1. Q \cap e.wait = {} /\ Q \cup e.wait = Q
    BY <1>4
  <2>2. Sound(Append(l, e), Q)
    BY <1>1, <2>1, SoundAppend
  <2> QED
    BY <1>3, <2>2 DEF Shared
<1>5. Shared(l, woken \cup V, W \cup V)
  BY <1>1, <1>3 DEF Shared
<1> QED
  BY <1>2, <1>4, <1>5

LEMMA LoopStaysSound ==
    ASSUME NEW a, NEW o, NEW W, LoopSound(a, o, W), NEW fl \in Entry, fl.owner = o,
           W \cap fl.wait = {}, NEW r, r = Step(a, fl)
    PROVE  LoopSound(r, o, W \cup fl.wait)
<1>0. /\ a \in Loops /\ a.out \in Seq(Entry) /\ Len(a.out) \in Nat /\ a.c \in Request /\ a.c.owner = o
      /\ a.stop \in -1 .. Len(a.out) /\ a.left \in 0 .. Len(a.out) /\ a.right \in 0 .. Len(a.out)
      /\ a.added /\ a.c.type # "F_UNLCK" => a.at \in 1 .. Len(a.out)
      /\ \A i \in 1 .. Len(a.out) : a.out[i].owner = o
      /\ Shared(a.out, a.wake, W) /\ a.wake \in SUBSET Tasks /\ a.at \in Nat /\ a.added \in BOOLEAN
      /\ fl.wait \in SUBSET Tasks /\ fl.type \in Types
  BY DEF LoopSound, Loops, Entry
<1>1. ASSUME NEW e \in Entry, e.owner = o
      PROVE  /\ Append(a.out, e) \in Seq(Entry) /\ Len(Append(a.out, e)) = Len(a.out) + 1
             /\ \A i \in 1 .. Len(a.out) + 1 : Append(a.out, e)[i].owner = o
             /\ e.wait = fl.wait => Shared(Append(a.out, e), a.wake, W \cup fl.wait)
             /\ e.wait = {} => Shared(Append(a.out, e), a.wake \cup fl.wait, W \cup fl.wait)
  <2>1. /\ Append(a.out, e) \in Seq(Entry) /\ Len(Append(a.out, e)) = Len(a.out) + 1
        /\ \A i \in 1 .. Len(a.out) : Append(a.out, e)[i] = a.out[i]
        /\ Append(a.out, e)[Len(a.out) + 1] = e
    BY <1>0, AppendProperties
  <2>2. \A i \in 1 .. Len(a.out) + 1 : i \in 1 .. Len(a.out) \/ i = Len(a.out) + 1
    BY <1>0
  <2>3. \A i \in 1 .. Len(a.out) + 1 : Append(a.out, e)[i].owner = o
    BY <1>0, <1>1, <2>1, <2>2
  <2> QED
    BY <1>0, <2>1, <2>3, SharedAppend
<1>2. Shared(a.out, a.wake \cup fl.wait, W \cup fl.wait)
  BY <1>0, SharedAppend
\* What an appended fl does to the other fields.
<1>3. ASSUME NEW c \in Request, c.owner = o, NEW at \in Nat, NEW added \in BOOLEAN,
             NEW left \in 0 .. Len(a.out) + 1, NEW right \in 0 .. Len(a.out) + 1,
             NEW stop \in -1 .. Len(a.out) + 1, NEW wake \in SUBSET Tasks, NEW e \in Entry, e.owner = o,
             added /\ c.type # "F_UNLCK" => at \in 1 .. Len(a.out) + 1,
             Shared(Append(a.out, e), wake, W \cup fl.wait),
             r = [out |-> Append(a.out, e), c |-> c, at |-> at, added |-> added, left |-> left,
                  right |-> right, stop |-> stop, wake |-> wake]
      PROVE  LoopSound(r, o, W \cup fl.wait)
  <2>1. /\ Append(a.out, e) \in Seq(Entry) /\ Len(Append(a.out, e)) = Len(a.out) + 1
        /\ \A i \in 1 .. Len(a.out) + 1 : Append(a.out, e)[i].owner = o
    BY <1>1, <1>3
  <2>2. r \in Loops
    BY <1>0, <1>3, <2>1 DEF Loops
  <2>3. LoopSound(r, o, W \cup fl.wait) = LoopSound(r, o, W \cup fl.wait)
    OBVIOUS
  <2> QED
    BY <1>3, <2>1, <2>2 DEF LoopSound
<1>30. /\ a.left \in 0 .. Len(a.out) + 1 /\ a.right \in 0 .. Len(a.out) + 1
       /\ a.stop \in -1 .. Len(a.out) + 1 /\ Len(a.out) \in -1 .. Len(a.out) + 1
       /\ Len(a.out) + 1 \in 1 .. Len(a.out) + 1 /\ Len(a.out) + 1 \in Nat
       /\ a.added /\ a.c.type # "F_UNLCK" => a.at \in 1 .. Len(a.out) + 1
       /\ a.wake \cup fl.wait \in SUBSET Tasks
  BY <1>0, SMTT(30)
<1>4. CASE StepKeeps(a, fl, r)
  <2>1. r = [out |-> Append(a.out, fl), c |-> a.c, at |-> a.at, added |-> a.added, left |-> a.left,
             right |-> a.right, stop |-> a.stop, wake |-> a.wake]
    BY <1>0, <1>4 DEF StepKeeps, Loops
  <2>2. Shared(Append(a.out, fl), a.wake, W \cup fl.wait)
    BY <1>1
  <2> QED
    BY <1>0, <1>3, <1>30, <2>1, <2>2, ZenonT(60)
<1>5. CASE StepBreaks(a, fl, r)
  <2>1. r = [out |-> Append(a.out, fl), c |-> a.c, at |-> a.at, added |-> a.added, left |-> a.left,
             right |-> a.right, stop |-> Len(a.out), wake |-> a.wake]
    BY <1>0, <1>5 DEF StepBreaks, Loops
  <2>2. Shared(Append(a.out, fl), a.wake, W \cup fl.wait)
    BY <1>1
  <2> QED
    BY <1>0, <1>3, <1>30, <2>1, <2>2, ZenonT(60)
<1>6. CASE StepGrows(a, fl, r)
  <2> DEFINE c == Grown(a.c, fl)
             e == Sized(a.out[a.at], c)
             l == [a.out EXCEPT ![a.at] = e]
  <2>1. c \in Request /\ c.owner = o /\ c.type = a.c.type
    BY <1>0 DEF Grown, Request, Entry
  <2>2. a.at \in 1 .. Len(a.out) /\ a.added
    BY <1>0, <1>6 DEF StepGrows, Types
  <2>3. a.out[a.at] \in Entry /\ a.out[a.at].owner = o
    BY <1>0, <2>2, ElementOfSeq
  <2> HIDE DEF c
  <2>4. e \in Entry /\ e.owner = o /\ e.wait = a.out[a.at].wait
    BY <2>1, <2>3 DEF Sized, Entry, Request
  <2> HIDE DEF e
  <2>5. /\ l \in Seq(Entry) /\ Len(l) = Len(a.out)
        /\ \A i \in 1 .. Len(a.out) : l[i] = IF i = a.at THEN e ELSE a.out[i]
    BY <1>0, <2>2, <2>4, ExceptSeq
  <2>6. r = [out |-> l, c |-> c, at |-> a.at, added |-> a.added, left |-> a.left,
             right |-> a.right, stop |-> a.stop, wake |-> a.wake \cup fl.wait]
    BY <1>0, <1>6 DEF StepGrows, Loops, c, e
  <2> HIDE DEF l
  <2>7. \A i \in 1 .. Len(a.out) : l[i].wait = a.out[i].wait /\ l[i].owner = o
    BY <1>0, <2>4, <2>5
  <2>8. Shared(l, a.wake \cup fl.wait, W \cup fl.wait)
    <3>1. PICK Q : Sound(a.out, Q) /\ Q \cap (a.wake \cup fl.wait) = {} /\ Q \cup (a.wake \cup fl.wait) = W \cup fl.wait
      BY <1>2 DEF Shared
    <3>2. Sound(l, Q)
      BY <2>5, <2>7, <3>1, SoundSame
    <3> QED
      BY <3>1, <3>2 DEF Shared
  <2>9. r \in Loops
    BY <1>0, <2>1, <2>5, <2>6 DEF Loops
  <2> QED
    BY <1>0, <2>1, <2>2, <2>5, <2>6, <2>7, <2>8, <2>9 DEF LoopSound
<1>7. CASE StepMerges(a, fl, r)
  <2> DEFINE c == Grown(a.c, fl)
             e == Sized(fl, c)
  <2>1. c \in Request /\ c.owner = o
    BY <1>0 DEF Grown, Request, Entry
  <2> HIDE DEF c
  <2>2. e \in Entry /\ e.owner = o /\ e.wait = fl.wait
    BY <2>1 DEF Sized, Entry, Request
  <2> HIDE DEF e
  <2>3. r = [out |-> Append(a.out, e), c |-> c, at |-> Len(a.out) + 1, added |-> TRUE, left |-> a.left,
             right |-> a.right, stop |-> a.stop, wake |-> a.wake]
    BY <1>0, <1>7 DEF StepMerges, Loops, c, e
  <2>4. Shared(Append(a.out, e), a.wake, W \cup fl.wait)
    BY <1>1, <2>2
  <2> QED
    BY <1>0, <1>3, <1>30, <2>1, <2>2, <2>3, <2>4, Zenon
<1>8. CASE StepRight(a, fl, r) \/ StepLeft(a, fl, r)
  <2>1. PICK left \in 0 .. Len(a.out) + 1, right \in 0 .. Len(a.out) + 1, stop \in -1 .. Len(a.out) :
            r = [out |-> Append(a.out, fl), c |-> a.c, at |-> a.at,
                 added |-> (a.added \/ a.c.type = "F_UNLCK"), left |-> left,
                 right |-> right, stop |-> stop, wake |-> a.wake]
    <3>1. CASE StepRight(a, fl, r)
      <4>1. PICK left : left = IF fl.start < a.c.start THEN Len(a.out) + 1 ELSE a.left
        OBVIOUS
      <4>2. left \in 0 .. Len(a.out) + 1 /\ Len(a.out) + 1 \in 0 .. Len(a.out) + 1 /\ Len(a.out) \in -1 .. Len(a.out)
        BY <1>0, <4>1
      <4>3. r = [out |-> Append(a.out, fl), c |-> a.c, at |-> a.at,
                 added |-> (a.added \/ a.c.type = "F_UNLCK"), left |-> left,
                 right |-> Len(a.out) + 1, stop |-> Len(a.out), wake |-> a.wake]
        BY <1>0, <3>1, <4>1 DEF StepRight, Loops
      <4> QED
        BY <4>2, <4>3
    <3>2. CASE StepLeft(a, fl, r)
      <4>1. Len(a.out) + 1 \in 0 .. Len(a.out) + 1 /\ a.right \in 0 .. Len(a.out) + 1
        BY <1>0
      <4>2. r = [out |-> Append(a.out, fl), c |-> a.c, at |-> a.at,
                 added |-> (a.added \/ a.c.type = "F_UNLCK"), left |-> Len(a.out) + 1,
                 right |-> a.right, stop |-> a.stop, wake |-> a.wake]
        BY <1>0, <3>2 DEF StepLeft, Loops
      <4> QED
        BY <1>0, <4>1, <4>2
    <3> QED
      BY <1>8, <3>1, <3>2
  <2>2. Shared(Append(a.out, fl), a.wake, W \cup fl.wait)
    BY <1>1
  <2>3. PICK added \in BOOLEAN : added = (a.added \/ a.c.type = "F_UNLCK")
    BY <1>0
  <2>4. added /\ a.c.type # "F_UNLCK" => a.at \in 1 .. Len(a.out) + 1
    BY <1>0, <2>3
  <2>5. stop \in -1 .. Len(a.out) + 1
    BY <1>0
  <2> QED
    BY <1>0, <1>3, <2>1, <2>2, <2>3, <2>4, <2>5, ZenonT(60)
<1>9. CASE StepFrees(a, fl, r)
  <2>1. r = [out |-> a.out, c |-> a.c, at |-> a.at, added |-> TRUE, left |-> a.left,
             right |-> a.right, stop |-> a.stop, wake |-> a.wake \cup fl.wait]
    BY <1>0, <1>9 DEF StepFrees, Loops
  <2>2. r \in Loops
    BY <1>0, <2>1 DEF Loops
  <2>3. a.c.type # "F_UNLCK" => a.at \in 1 .. Len(a.out)
    BY <1>0, <1>9 DEF StepFrees
  <2> QED
    BY <1>0, <1>2, <2>1, <2>2, <2>3 DEF LoopSound
<1>10. CASE StepReplaces(a, fl, r)
  <2>1. a.c \in Entry /\ a.c.wait = {}
    BY <1>0, <1>10 DEF StepReplaces, Request, Entry
  <2>2. r = [out |-> Append(a.out, a.c), c |-> a.c, at |-> Len(a.out) + 1, added |-> TRUE, left |-> a.left,
             right |-> a.right, stop |-> a.stop, wake |-> a.wake \cup fl.wait]
    BY <1>0, <1>10 DEF StepReplaces, Loops
  <2>3. Shared(Append(a.out, a.c), a.wake \cup fl.wait, W \cup fl.wait)
    BY <1>0, <1>1, <2>1
  <2>4. a.wake \cup fl.wait \in SUBSET Tasks /\ a.stop \in -1 .. Len(a.out) + 1
    BY <1>0
  <2> QED
    BY <1>0, <1>3, <1>30, <2>1, <2>2, <2>3, <2>4, Zenon
<1> QED
  BY <1>0, <1>4, <1>5, <1>6, <1>7, <1>8, <1>9, <1>10, StepCases

-----------------------------------------------------------------------------
(* The group of an owner.                                                  *)

\* The least element of a set of numbers.
LEMMA MinIsLeast ==
    ASSUME NEW S, S \subseteq Nat, S # {}
    PROVE  Min(S) \in S /\ \A y \in S : Min(S) <= y
<1>1. \E m \in S : \A y \in S : m <= y
  BY LeastNumber
<1> QED
  BY <1>1 DEF Min

\* Where the group of o begins and ends; without an entry it is empty, at the end.
Grouped(list, o, i, j) ==
    /\ i \in 1 .. Len(list) + 1 /\ j \in i - 1 .. Len(list)
    /\ \A k \in 1 .. i - 1 : list[k].owner # o
    /\ \A k \in i .. j : list[k].owner = o
    /\ j < Len(list) => list[j + 1].owner # o
    /\ j = i - 1 => j = Len(list)

LEMMA GroupFound ==
    ASSUME NEW list \in Seq(Entry), NEW o
    PROVE  Grouped(list, o, GroupStart(list, o), GroupEnd(list, o))
<1> DEFINE I == {k \in 1 .. Len(list) : list[k].owner = o}
           i == GroupStart(list, o)
           R == {k \in i .. Len(list) : list[k].owner # o}
           j == GroupEnd(list, o)
<1>0. Len(list) \in Nat /\ I \subseteq Nat /\ \A k \in I : k \in 1 .. Len(list)
  OBVIOUS
<1>1. i = IF I = {} THEN Len(list) + 1 ELSE Min(I)
  <2>1. SelectInSeq(list, LAMBDA fl : fl.owner = o) = IF I # {} THEN Min(I) ELSE 0
    BY DEF SelectInSeq
  <2>2. I # {} => Min(I) \in I
    BY <1>0, MinIsLeast
  <2>3. I # {} => Min(I) # 0
    BY <1>0, <2>2
  <2> QED
    BY <2>1, <2>3 DEF GroupStart
<1>2. i \in 1 .. Len(list) + 1 /\ (\A k \in 1 .. i - 1 : list[k].owner # o)
      /\ (i <= Len(list) => list[i].owner = o)
  <2>1. CASE I = {}
    BY <1>0, <1>1, <2>1
  <2>2. CASE I # {}
    <3>1. i \in I /\ \A y \in I : i <= y
      BY <1>0, <1>1, <2>2, MinIsLeast
    <3> HIDE DEF i
    <3> QED
      BY <1>0, <3>1
  <2> QED
    BY <2>1, <2>2
<1>3. j = IF R = {} THEN Len(list) ELSE Min(R) - 1
  BY DEF GroupEnd
<1> HIDE DEF i, j
<1>4. R \subseteq Nat /\ \A k \in R : k \in i .. Len(list) /\ list[k].owner # o
  BY <1>0, <1>2
<1>5. CASE R = {}
  <2>1. \A k \in i .. Len(list) : list[k].owner = o
    BY <1>5
  <2> QED
    BY <1>0, <1>2, <1>3, <1>5, <2>1 DEF Grouped, i, j
<1>6. CASE R # {}
  <2>1. PICK m \in R : m = Min(R) /\ \A y \in R : m <= y
    BY <1>4, <1>6, MinIsLeast
  <2>2. j = m - 1 /\ m \in i .. Len(list) /\ list[m].owner # o
    BY <1>3, <1>4, <1>6, <2>1
  <2>3. m # i
    BY <1>0, <1>2, <2>2
  <2>4. \A k \in i .. j : list[k].owner = o
    <3> SUFFICES ASSUME NEW k \in i .. j PROVE list[k].owner = o
      OBVIOUS
    <3>1. k \in i .. Len(list) /\ ~(m <= k)
      BY <1>0, <1>2, <2>2
    <3> QED
      BY <2>1, <3>1
  <2>5. j \in i - 1 .. Len(list) /\ j + 1 = m /\ j # i - 1
    BY <1>0, <1>2, <2>2, <2>3
  <2> QED
    BY <1>0, <1>2, <2>2, <2>4, <2>5 DEF Grouped, i, j
<1> QED
  BY <1>5, <1>6

\* The list is what stands before the group, the group and what stands after it.
LEMMA GroupParts ==
    ASSUME NEW list \in Seq(Entry), NEW i \in 1 .. Len(list) + 1, NEW j \in i - 1 .. Len(list)
    PROVE  /\ SubSeq(list, 1, i - 1) \in Seq(Entry) /\ Len(SubSeq(list, 1, i - 1)) = i - 1
           /\ \A k \in 1 .. i - 1 : SubSeq(list, 1, i - 1)[k] = list[k]
           /\ SubSeq(list, i, j) \in Seq(Entry) /\ Len(SubSeq(list, i, j)) = j - i + 1
           /\ \A k \in 1 .. j - i + 1 : SubSeq(list, i, j)[k] = list[i + k - 1]
           /\ SubSeq(list, j + 1, Len(list)) \in Seq(Entry)
           /\ Len(SubSeq(list, j + 1, Len(list))) = Len(list) - j
           /\ \A k \in 1 .. Len(list) - j : SubSeq(list, j + 1, Len(list))[k] = list[j + k]
           /\ list = SubSeq(list, 1, i - 1) \o (SubSeq(list, i, j) \o SubSeq(list, j + 1, Len(list)))
<1>0. Len(list) \in Nat /\ i \in Int /\ j \in Int /\ \A k \in 1 .. Len(list) : list[k] \in Entry
  BY ElementOfSeq
<1>1. /\ SubSeq(list, 1, i - 1) \in Seq(Entry) /\ Len(SubSeq(list, 1, i - 1)) = i - 1
      /\ \A k \in 1 .. i - 1 : SubSeq(list, 1, i - 1)[k] = list[k]
  <2>1. 1 \in Int /\ i - 1 \in Int /\ \A k \in 1 .. i - 1 : list[k] \in Entry
    BY <1>0
  <2>2. /\ SubSeq(list, 1, i - 1) \in Seq(Entry)
        /\ Len(SubSeq(list, 1, i - 1)) = IF 1 <= i - 1 THEN (i - 1) - 1 + 1 ELSE 0
        /\ \A k \in 1 .. (i - 1) - 1 + 1 : SubSeq(list, 1, i - 1)[k] = list[1 + k - 1]
    BY <2>1, SubSeqProperties
  <2> QED
    BY <1>0, <2>2
<1>2. /\ SubSeq(list, i, j) \in Seq(Entry) /\ Len(SubSeq(list, i, j)) = j - i + 1
      /\ \A k \in 1 .. j - i + 1 : SubSeq(list, i, j)[k] = list[i + k - 1]
  <2>1. \A k \in i .. j : list[k] \in Entry
    BY <1>0
  <2>2. /\ SubSeq(list, i, j) \in Seq(Entry)
        /\ Len(SubSeq(list, i, j)) = IF i <= j THEN j - i + 1 ELSE 0
        /\ \A k \in 1 .. j - i + 1 : SubSeq(list, i, j)[k] = list[i + k - 1]
    BY <1>0, <2>1, SubSeqProperties
  <2> QED
    BY <1>0, <2>2
<1>3. /\ SubSeq(list, j + 1, Len(list)) \in Seq(Entry)
      /\ Len(SubSeq(list, j + 1, Len(list))) = Len(list) - j
      /\ \A k \in 1 .. Len(list) - j : SubSeq(list, j + 1, Len(list))[k] = list[j + k]
  <2>1. j + 1 \in Int /\ Len(list) \in Int /\ \A k \in j + 1 .. Len(list) : list[k] \in Entry
    BY <1>0
  <2>2. /\ SubSeq(list, j + 1, Len(list)) \in Seq(Entry)
        /\ Len(SubSeq(list, j + 1, Len(list))) = IF j + 1 <= Len(list) THEN Len(list) - (j + 1) + 1 ELSE 0
        /\ \A k \in 1 .. Len(list) - (j + 1) + 1 : SubSeq(list, j + 1, Len(list))[k] = list[(j + 1) + k - 1]
    BY <2>1, SubSeqProperties
  <2> QED
    BY <1>0, <2>2
<1>4. SubSeq(list, i, j) \o SubSeq(list, j + 1, Len(list)) = SubSeq(list, i, Len(list))
  <2>1. Len(list) \in j .. Len(list)
    BY <1>0
  <2> QED
    BY <2>1, ConcatAdjacentSubSeq
<1>5. SubSeq(list, 1, i - 1) \o SubSeq(list, (i - 1) + 1, Len(list)) = SubSeq(list, 1, Len(list))
  <2>1. 1 \in 1 .. Len(list) + 1 /\ i - 1 \in 1 - 1 .. Len(list) /\ Len(list) \in i - 1 .. Len(list)
    BY <1>0
  <2> QED
    BY <2>1, ConcatAdjacentSubSeq
<1>6. SubSeq(list, 1, Len(list)) = list /\ (i - 1) + 1 = i
  BY <1>0, SubSeqFull
<1> QED
  BY <1>1, <1>2, <1>3, <1>4, <1>5, <1>6

\* A list in two parts.
LEMMA SplitAt ==
    ASSUME NEW list \in Seq(Entry), NEW n \in 0 .. Len(list)
    PROVE  /\ SubSeq(list, 1, n) \in Seq(Entry) /\ Len(SubSeq(list, 1, n)) = n
           /\ \A k \in 1 .. n : SubSeq(list, 1, n)[k] = list[k]
           /\ SubSeq(list, n + 1, Len(list)) \in Seq(Entry)
           /\ Len(SubSeq(list, n + 1, Len(list))) = Len(list) - n
           /\ \A k \in 1 .. Len(list) - n : SubSeq(list, n + 1, Len(list))[k] = list[n + k]
           /\ list = SubSeq(list, 1, n) \o SubSeq(list, n + 1, Len(list))
<1>0. Len(list) \in Nat /\ n \in Int
  OBVIOUS
<1>1. PICK i \in 1 .. Len(list) + 1 : i = n + 1 /\ i - 1 = n /\ n \in i - 1 .. Len(list)
  BY <1>0
<1>2. /\ SubSeq(list, 1, i - 1) \in Seq(Entry) /\ Len(SubSeq(list, 1, i - 1)) = i - 1
      /\ \A k \in 1 .. i - 1 : SubSeq(list, 1, i - 1)[k] = list[k]
      /\ SubSeq(list, n + 1, Len(list)) \in Seq(Entry)
      /\ Len(SubSeq(list, n + 1, Len(list))) = Len(list) - n
      /\ \A k \in 1 .. Len(list) - n : SubSeq(list, n + 1, Len(list))[k] = list[n + k]
  BY <1>1, GroupParts
<1>3. SubSeq(list, 1, n) \o SubSeq(list, n + 1, Len(list)) = SubSeq(list, 1, Len(list))
  <2>1. 1 \in 1 .. Len(list) + 1 /\ n \in 1 - 1 .. Len(list) /\ Len(list) \in n .. Len(list)
    BY <1>0
  <2> QED
    BY <2>1, ConcatAdjacentSubSeq
<1> QED
  BY <1>1, <1>2, <1>3, SubSeqFull

-----------------------------------------------------------------------------
(* The end of lock_it.                                                     *)

Pos(a) == IF a.stop >= 0 THEN a.stop ELSE Len(a.out)
New(a) == IF a.added THEN <<>> ELSE <<a.c>>
Part(a) == IF Split(a) THEN <<[a.out[a.right] EXCEPT !.end = a.c.start - 1, !.wait = {}]>> ELSE <<>>
CutEntry(a, i) ==
    IF i = a.right THEN [a.out[i] EXCEPT !.start = a.c.end + 1]
    ELSE IF i = a.left THEN [a.out[i] EXCEPT !.end = a.c.start - 1]
    ELSE a.out[i]
Cut(a) == [i \in DOMAIN a.out |-> CutEntry(a, i)]

\* The list stays as the loop left it.
Refused(a, free) == Len(New(a) \o Part(a)) > free \/ (~a.added /\ a.c.type = "F_UNLCK")

LEMMA FinishIs ==
    ASSUME NEW a, NEW free
    PROVE  Finish(a, free) =
               IF Refused(a, free) THEN a.out
               ELSE SubSeq(Cut(a), 1, Pos(a)) \o Part(a) \o New(a)
                        \o SubSeq(Cut(a), Pos(a) + 1, Len(Cut(a)))
  BY DEF Finish, Pos, New, Part, Cut, CutEntry, Refused

\* An entry with one end moved, or without its waiters.
LEMMA EditEntry ==
    ASSUME NEW e \in Entry, NEW v \in Int
    PROVE  /\ [e EXCEPT !.start = v] \in Entry /\ [e EXCEPT !.end = v] \in Entry
           /\ [e EXCEPT !.end = v, !.wait = {}] \in Entry
  BY DEF Entry

LEMMA CutIs ==
    ASSUME NEW a \in Loops
    PROVE  /\ Cut(a) \in Seq(Entry) /\ Len(Cut(a)) = Len(a.out)
           /\ \A i \in 1 .. Len(a.out) : Cut(a)[i] = CutEntry(a, i) /\ CutEntry(a, i) \in Entry
<1>0. a.out \in Seq(Entry) /\ Len(a.out) \in Nat /\ DOMAIN a.out = 1 .. Len(a.out)
      /\ a.c.start \in Int /\ a.c.end \in Int
  BY DEF Loops, Request
<1>1. ASSUME NEW i \in 1 .. Len(a.out) PROVE CutEntry(a, i) \in Entry
  <2>1. PICK e \in Entry : e = a.out[i]
    BY <1>0, ElementOfSeq
  <2>2. /\ [e EXCEPT !.start = a.c.end + 1] \in Entry
        /\ [e EXCEPT !.end = a.c.start - 1] \in Entry
    <3>1. a.c.end + 1 \in Int /\ a.c.start - 1 \in Int
      BY <1>0
    <3> QED
      BY <3>1, EditEntry
  <2> QED
    BY <2>1, <2>2 DEF CutEntry
<1>2. Cut(a) = [i \in 1 .. Len(a.out) |-> CutEntry(a, i)]
  BY <1>0 DEF Cut
<1> QED
  BY <1>0, <1>1, <1>2

Mine(l, o) == \A i \in 1 .. Len(l) : l[i].owner = o

LEMMA MineConcat ==
    ASSUME NEW l \in Seq(Entry), NEW m \in Seq(Entry), NEW o, Mine(l, o), Mine(m, o)
    PROVE  l \o m \in Seq(Entry) /\ Mine(l \o m, o)
<1>1. /\ l \o m \in Seq(Entry) /\ Len(l) \in Nat /\ Len(m) \in Nat /\ Len(l \o m) = Len(l) + Len(m)
      /\ \A i \in 1 .. Len(l) + Len(m) : (l \o m)[i] = IF i <= Len(l) THEN l[i] ELSE m[i - Len(l)]
  BY ConcatProperties
<1> QED
  BY <1>1 DEF Mine

LEMMA FinishSound ==
    ASSUME NEW a, NEW o, NEW W, LoopSound(a, o, W), NEW free, NEW r, r = Finish(a, free)
    PROVE  r \in Seq(Entry) /\ Mine(r, o) /\ Shared(r, a.wake, W)
<1>0. /\ a \in Loops /\ a.out \in Seq(Entry) /\ Len(a.out) \in Nat /\ a.c \in Request /\ a.c.owner = o
      /\ a.stop \in -1 .. Len(a.out) /\ a.left \in 0 .. Len(a.out) /\ a.right \in 0 .. Len(a.out)
      /\ Mine(a.out, o) /\ Shared(a.out, a.wake, W)
  BY DEF LoopSound, Loops, Mine
<1>1. CASE Refused(a, free)
  BY <1>0, <1>1, FinishIs
<1>2. CASE ~Refused(a, free)
  <2>1. PICK Q : Sound(a.out, Q) /\ Q \cap a.wake = {} /\ Q \cup a.wake = W
    BY <1>0 DEF Shared
  <2>2. Pos(a) \in 0 .. Len(a.out)
    BY <1>0 DEF Pos
  <2>3. PICK cut \in Seq(Entry) : cut = Cut(a)
    BY <1>0, CutIs
  <2>4. /\ Len(cut) = Len(a.out)
        /\ \A i \in 1 .. Len(a.out) : cut[i].wait = a.out[i].wait /\ cut[i].owner = a.out[i].owner
    <3>1. ASSUME NEW i \in 1 .. Len(a.out)
          PROVE  cut[i].wait = a.out[i].wait /\ cut[i].owner = a.out[i].owner
      <4>1. a.out[i] \in Entry /\ cut[i] = CutEntry(a, i)
        BY <1>0, <2>3, CutIs, ElementOfSeq
      <4> QED
        BY <4>1 DEF CutEntry, Entry
    <3> QED
      BY <1>0, <2>3, <3>1, CutIs
  <2>5. Sound(cut, Q) /\ Mine(cut, o)
    BY <1>0, <2>1, <2>4, SoundSame DEF Mine
  <2>6. PICK x, y : x = SubSeq(cut, 1, Pos(a)) /\ y = SubSeq(cut, Pos(a) + 1, Len(cut))
    OBVIOUS
  <2>7. x \in Seq(Entry) /\ y \in Seq(Entry) /\ cut = x \o y /\ Mine(x, o) /\ Mine(y, o)
    <3>1. /\ x \in Seq(Entry) /\ Len(x) = Pos(a) /\ \A k \in 1 .. Pos(a) : x[k] = cut[k]
          /\ y \in Seq(Entry) /\ Len(y) = Len(cut) - Pos(a)
          /\ \A k \in 1 .. Len(cut) - Pos(a) : y[k] = cut[Pos(a) + k]
          /\ cut = x \o y
      <4>1. PICK m \in 0 .. Len(cut) : m = Pos(a)
        BY <2>2, <2>4
      <4> QED
        BY <2>6, <4>1, SplitAt
    <3>4. Mine(x, o) /\ Mine(y, o)
      <4>1. PICK m \in 0 .. Len(cut) : m = Pos(a)
        BY <2>2, <2>4
      <4>2. /\ \A k \in 1 .. m : k \in 1 .. Len(cut)
            /\ \A k \in 1 .. Len(cut) - m : m + k \in 1 .. Len(cut)
        BY <1>0, <2>4
      <4>3. \A k \in 1 .. Len(x) : x[k].owner = o
        BY <2>5, <3>1, <4>1, <4>2 DEF Mine
      <4>4. ASSUME NEW k \in 1 .. Len(y) PROVE y[k].owner = o
        <5>1. y[k] = cut[m + k] /\ m + k \in 1 .. Len(cut)
          BY <3>1, <4>1, <4>2
        <5> QED
          BY <2>5, <5>1 DEF Mine
      <4> QED
        BY <4>3, <4>4 DEF Mine
    <3> QED
      BY <3>1, <3>4
  <2>8. PICK A, B : Sound(x, A) /\ Sound(y, B) /\ A \cap B = {} /\ A \cup B = Q
    <3>1. Sound(x \o y, Q)
      BY <2>5, <2>7
    <3>2. x \in Seq(Entry) /\ y \in Seq(Entry)
      BY <2>7
    <3>3. Parted(x, y, Q)
      BY <3>1, <3>2, SoundParts
    <3> QED
      BY <3>3 DEF Parted
  <2>9. Part(a) \in Seq(Entry) /\ Mine(Part(a), o) /\ Sound(Part(a), {})
    <3>1. CASE Split(a)
      <4>1. a.right \in 1 .. Len(a.out) /\ a.c.start \in Int
        BY <1>0, <3>1 DEF Split, Request
      <4>2. PICK f \in Entry : f = a.out[a.right] /\ f.owner = o
        BY <1>0, <4>1, ElementOfSeq DEF Mine
      <4> DEFINE e == [f EXCEPT !.end = a.c.start - 1, !.wait = {}]
      <4>3. e \in Entry /\ e.owner = o /\ e.wait = {}
        <5>1. a.c.start - 1 \in Int
          BY <4>1
        <5>2. e \in Entry
          BY <5>1, EditEntry
        <5> QED
          BY <4>2, <5>2 DEF Entry
      <4>4. Part(a) = <<e>>
        BY <3>1, <4>2 DEF Part
      <4> HIDE DEF e
      <4>5. Len(<<e>>) = 1 /\ <<e>>[1] = e /\ 1 .. 1 = {1}
        OBVIOUS
      <4> QED
        BY <4>3, <4>4, <4>5, SoundOne DEF Mine
    <3>2. CASE ~Split(a)
      <4>1. Part(a) = <<>>
        BY <3>2 DEF Part
      <4> QED
        BY <4>1, SoundEmpty DEF Mine
    <3> QED
      BY <3>1, <3>2
  <2>10. New(a) \in Seq(Entry) /\ Mine(New(a), o) /\ Sound(New(a), {})
    <3>1. CASE ~a.added
      <4>1. a.c.type # "F_UNLCK"
        BY <1>2, <3>1 DEF Refused
      <4>2. PICK e \in Entry : e = a.c /\ e.owner = o /\ e.wait = {}
        BY <1>0, <4>1 DEF Request, Entry
      <4>3. New(a) = <<e>>
        BY <3>1, <4>2 DEF New
      <4>4. Len(<<e>>) = 1 /\ <<e>>[1] = e /\ 1 .. 1 = {1}
        OBVIOUS
      <4> QED
        BY <4>2, <4>3, <4>4, SoundOne DEF Mine
    <3>2. CASE a.added
      <4>1. New(a) = <<>>
        BY <3>2 DEF New
      <4> QED
        BY <4>1, SoundEmpty DEF Mine
    <3> QED
      BY <3>1, <3>2
  <2>11. PICK p, n : p = Part(a) /\ n = New(a)
    OBVIOUS
  <2>12. r = x \o p \o n \o y
    BY <1>2, <2>3, <2>6, <2>11, FinishIs
  <2>13. x \o p \in Seq(Entry) /\ Mine(x \o p, o) /\ Sound(x \o p, A)
    <3>1. A \cup {} = A /\ A \cap {} = {}
      OBVIOUS
    <3> QED
      BY <2>7, <2>8, <2>9, <2>11, <3>1, MineConcat, SoundConcat, SMTT(30)
  <2>14. PICK xp \in Seq(Entry) : xp = x \o p /\ Mine(xp, o) /\ Sound(xp, A)
    BY <2>13
  <2>15. xp \o n \in Seq(Entry) /\ Mine(xp \o n, o) /\ Sound(xp \o n, A)
    <3>1. A \cup {} = A /\ A \cap {} = {}
      OBVIOUS
    <3>2. n \in Seq(Entry) /\ Mine(n, o) /\ Sound(n, {})
      BY <2>10, <2>11
    <3>3. Sound(xp \o n, A \cup {})
      BY <2>14, <3>1, <3>2, SoundConcat
    <3> QED
      BY <2>14, <3>1, <3>2, <3>3, MineConcat
  <2>16. PICK z \in Seq(Entry) : z = xp \o n /\ Mine(z, o) /\ Sound(z, A)
    BY <2>15
  <2>17. r = z \o y
    BY <2>12, <2>14, <2>16
  <2>18. r \in Seq(Entry) /\ Mine(r, o) /\ Sound(r, Q)
    <3>1. Sound(z \o y, A \cup B)
      BY <2>7, <2>8, <2>16, SoundConcat
    <3> QED
      BY <2>7, <2>8, <2>16, <2>17, <3>1, MineConcat, ZenonT(60)
  <2> QED
    BY <2>1, <2>18 DEF Shared
<1> QED
  BY <1>1, <1>2

LEMMA LoopIsSound ==
    ASSUME NEW g \in Seq(Entry), NEW caller \in Request, Mine(g, caller.owner), NEW A, Sound(g, A)
    PROVE  LoopSound(Loop(g, caller), caller.owner, A)
<1> DEFINE o == caller.owner
           P == {x \in Nat \X Loops : LoopSound(x[2], o, Waits(g, x[1]))}
<1>0. Len(g) \in Nat
  OBVIOUS
<1>1. <<0, Start(caller)>> \in P
  <2>1. LoopSound(Start(caller), o, {}) /\ Waits(g, 0) = {}
    BY LoopStartsSound DEF Waits
  <2>2. Start(caller) \in Loops
    BY <2>1 DEF LoopSound
  <2> QED
    BY <2>1, <2>2
<1>2. Closed(P, g)
  <2> SUFFICES ASSUME NEW k \in Nat, k < Len(g), NEW a, <<k, a>> \in P
               PROVE  <<k + 1, Step(a, g[k + 1])>> \in P
    BY DEF Closed
  <2>1. LoopSound(a, o, Waits(g, k))
    OBVIOUS
  <2>2. k + 1 \in 1 .. Len(g)
    BY <1>0
  <2>3. g[k + 1] \in Entry /\ g[k + 1].owner = o
    BY <2>2, ElementOfSeq DEF Mine
  <2>4. /\ Waits(g, k + 1) = Waits(g, k) \cup g[k + 1].wait
        /\ Waits(g, k) \cap g[k + 1].wait = {}
    BY WaitsGrow
  <2>5. LoopSound(Step(a, g[k + 1]), o, Waits(g, k + 1))
    BY <2>1, <2>3, <2>4, LoopStaysSound
  <2>6. Step(a, g[k + 1]) \in Loops
    BY <2>5 DEF LoopSound
  <2> QED
    BY <2>5, <2>6
<1>3. <<Len(g), Loop(g, caller)>> \in P
  <2> HIDE DEF P
  <2> QED
    BY <1>0, <1>1, <1>2, LoopInduction
<1>4. Waits(g, Len(g)) = A
  <2>1. \A t : t \in Waits(g, Len(g)) <=> \E i \in 1 .. Len(g) : t \in g[i].wait
    BY Zenon DEF Waits
  <2>2. \A t : t \in A <=> \E i \in 1 .. Len(g) : t \in g[i].wait
    BY DEF Sound
  <2> QED
    BY <2>1, <2>2, Zenon
<1> QED
  BY <1>3, <1>4

\* Nobody waits for an entry of its own.
Apart(l, q) == \A i \in 1 .. Len(l) : \A t \in l[i].wait : q[t].owner # l[i].owner

LEMMA ApartConcat ==
    ASSUME NEW l \in Seq(Entry), NEW m \in Seq(Entry), NEW q
    PROVE  Apart(l \o m, q) <=> Apart(l, q) /\ Apart(m, q)
<1> DEFINE s == l \o m
           x == Len(l)
           y == Len(m)
<1>1. /\ x \in Nat /\ y \in Nat /\ Len(s) = x + y
      /\ \A i \in 1 .. x : s[i] = l[i] /\ i \in 1 .. x + y
      /\ \A i \in 1 .. y : s[x + i] = m[i] /\ x + i \in 1 .. x + y
      /\ \A i \in 1 .. x + y : i \in 1 .. x \/ (i - x \in 1 .. y /\ s[i] = m[i - x])
  BY ConcatProperties
<1> HIDE DEF s
<1>2. Apart(s, q) => Apart(l, q)
  BY <1>1 DEF Apart
<1>3. Apart(s, q) => Apart(m, q)
  <2> SUFFICES ASSUME Apart(s, q), NEW i \in 1 .. y, NEW t \in m[i].wait PROVE q[t].owner # m[i].owner
    BY DEF Apart
  <2>1. x + i \in 1 .. Len(s) /\ s[x + i] = m[i]
    BY <1>1
  <2> QED
    BY <2>1 DEF Apart
<1>4. Apart(l, q) /\ Apart(m, q) => Apart(s, q)
  <2> SUFFICES ASSUME Apart(l, q), Apart(m, q), NEW i \in 1 .. Len(s), NEW t \in s[i].wait
               PROVE  q[t].owner # s[i].owner
    BY DEF Apart
  <2>1. CASE i \in 1 .. x
    BY <1>1, <2>1 DEF Apart
  <2>2. CASE i - x \in 1 .. y /\ s[i] = m[i - x]
    BY <2>2 DEF Apart
  <2> QED
    BY <1>1, <2>1, <2>2
<1>5. Apart(s, q) <=> Apart(l, q) /\ Apart(m, q)
  BY <1>2, <1>3, <1>4
<1> QED
  BY <1>5 DEF s

\* The three parts of a list that lock_it and fcntl_remove_locks work on.
Parts(list, o, b, g, e) ==
    /\ b \in Seq(Entry) /\ g \in Seq(Entry) /\ e \in Seq(Entry)
    /\ list = b \o (g \o e)
    /\ Mine(g, o)

LEMMA PartsFound ==
    ASSUME NEW list \in Seq(Entry), NEW o, NEW i, NEW j, i = GroupStart(list, o), j = GroupEnd(list, o)
    PROVE  Parts(list, o, SubSeq(list, 1, i - 1), SubSeq(list, i, j), SubSeq(list, j + 1, Len(list)))
<1>1. Grouped(list, o, i, j) /\ Len(list) \in Nat
  BY GroupFound
<1>2. i \in 1 .. Len(list) + 1 /\ j \in i - 1 .. Len(list) /\ \A k \in i .. j : list[k].owner = o
  BY <1>1 DEF Grouped
<1>3. PICK g : g = SubSeq(list, i, j)
  OBVIOUS
<1>4. /\ g \in Seq(Entry) /\ Len(g) = j - i + 1
      /\ \A k \in 1 .. j - i + 1 : g[k] = list[i + k - 1]
  BY <1>2, <1>3, GroupParts
<1>5. Mine(g, o)
  <2> SUFFICES ASSUME NEW k \in 1 .. Len(g) PROVE g[k].owner = o
    BY DEF Mine
  <2>0. i \in Int /\ j \in Int /\ k \in 1 .. j - i + 1
    BY <1>1, <1>2, <1>4
  <2>1. i + k - 1 \in i .. j /\ g[k] = list[i + k - 1]
    BY <1>4, <2>0, SMTT(30)
  <2> QED
    BY <1>2, <2>1
<1>6. /\ SubSeq(list, 1, i - 1) \in Seq(Entry) /\ SubSeq(list, j + 1, Len(list)) \in Seq(Entry)
      /\ list = SubSeq(list, 1, i - 1) \o (SubSeq(list, i, j) \o SubSeq(list, j + 1, Len(list)))
  BY <1>2, GroupParts
<1> QED
  BY <1>3, <1>4, <1>5, <1>6 DEF Parts

\* The group, with the waiters G, is replaced by f, whose waiters are among them.
Replaceable(b, e, o, A, q, G) ==
    \A f, woken :
        f \in Seq(Entry) /\ Mine(f, o) /\ Shared(f, woken, G)
        => /\ b \o f \o e \in Seq(Entry)
           /\ Sound(b \o f \o e, A \ woken) /\ Apart(b \o f \o e, q)

LEMMA ReplaceGroup ==
    ASSUME NEW list \in Seq(Entry), NEW o, NEW b, NEW g, NEW e, Parts(list, o, b, g, e),
           NEW A, Sound(list, A), NEW q, Apart(list, q)
    PROVE  \E G \in SUBSET A : Sound(g, G) /\ Replaceable(b, e, o, A, q, G)
<1>0. b \in Seq(Entry) /\ g \in Seq(Entry) /\ e \in Seq(Entry) /\ list = b \o (g \o e) /\ Mine(g, o)
  BY DEF Parts
<1>1. PICK ge \in Seq(Entry) : ge = g \o e
  BY <1>0, ConcatProperties
<1>2. PICK B, R : Sound(b, B) /\ Sound(ge, R) /\ B \cap R = {} /\ B \cup R = A
  <2>1. Sound(b \o ge, A)
    BY <1>0, <1>1
  <2>2. Parted(b, ge, A)
    BY <1>0, <2>1, SoundParts
  <2> QED
    BY <2>2 DEF Parted
<1>3. PICK G, E : Sound(g, G) /\ Sound(e, E) /\ G \cap E = {} /\ G \cup E = R
  <2>1. Sound(g \o e, R)
    BY <1>1, <1>2
  <2>2. Parted(g, e, R)
    BY <1>0, <2>1, SoundParts
  <2> QED
    BY <2>2 DEF Parted
<1>4. Apart(b, q) /\ Apart(g, q) /\ Apart(e, q)
  <2>1. Apart(b \o ge, q)
    BY <1>0, <1>1
  <2>2. Apart(b, q) /\ Apart(ge, q)
    BY <1>0, <2>1, ApartConcat
  <2>3. Apart(g \o e, q)
    BY <1>1, <2>2
  <2> QED
    BY <1>0, <2>2, <2>3, ApartConcat
<1>5. ASSUME NEW t \in G PROVE q[t].owner # o
  <2>1. PICK k \in 1 .. Len(g) : t \in g[k].wait
    BY <1>3 DEF Sound
  <2>2. g[k].owner = o
    BY <1>0 DEF Mine
  <2>3. q[t].owner # g[k].owner
    BY <1>4, <2>1, Zenon DEF Apart
  <2> QED
    BY <2>2, <2>3
<1>6. ASSUME NEW f \in Seq(Entry), NEW woken, Mine(f, o), Shared(f, woken, G)
      PROVE  /\ b \o f \o e \in Seq(Entry)
             /\ Sound(b \o f \o e, A \ woken) /\ Apart(b \o f \o e, q)
  <2>1. PICK F : Sound(f, F) /\ F \cap woken = {} /\ F \cup woken = G
    BY <1>6 DEF Shared
  <2>2. Apart(f, q)
    <3> SUFFICES ASSUME NEW k \in 1 .. Len(f), NEW t \in f[k].wait PROVE q[t].owner # f[k].owner
      BY Zenon DEF Apart
    <3>1. t \in G
      BY <2>1 DEF Sound
    <3>2. f[k].owner = o
      BY <1>6 DEF Mine
    <3> QED
      BY <1>5, <3>1, <3>2
  <2>3. PICK bf \in Seq(Entry) : bf = b \o f
    BY <1>0, ConcatProperties
  <2>4. B \cap F = {}
    BY <1>2, <1>3, <2>1
  <2>5. Sound(b \o f, B \cup F) /\ Apart(b \o f, q)
    BY <1>0, <1>2, <1>4, <2>1, <2>2, <2>4, SoundConcat, ApartConcat
  <2>6. Sound(bf, B \cup F) /\ Apart(bf, q)
    BY <2>3, <2>5
  <2>7. (B \cup F) \cap E = {} /\ (B \cup F) \cup E = A \ woken
    BY <1>2, <1>3, <2>1
  <2>8. PICK BF : BF = B \cup F
    OBVIOUS
  <2>9. Sound(bf \o e, BF \cup E) /\ Apart(bf \o e, q) /\ bf \o e \in Seq(Entry)
    BY <1>0, <1>3, <1>4, <2>6, <2>7, <2>8, SoundConcat, ApartConcat, ConcatProperties
  <2> QED
    BY <2>3, <2>7, <2>8, <2>9
<1>7. G \in SUBSET A
  BY <1>2, <1>3
<1>8. Replaceable(b, e, o, A, q, G)
  BY <1>6 DEF Replaceable
<1> QED
  BY <1>3, <1>7, <1>8

\* lock_it frees entries, and wakes their waiters; the others stay where they are.
LEMMA LockItSound ==
    ASSUME NEW list \in Seq(Entry), NEW caller \in Request, NEW A, Sound(list, A),
           NEW q, Apart(list, q), NEW r, r = lock_it(list, caller)
    PROVE  r.list \in Seq(Entry) /\ Sound(r.list, A \ r.wake) /\ Apart(r.list, q)
<1> DEFINE o == caller.owner
<1>1. PICK i, j : i = GroupStart(list, o) /\ j = GroupEnd(list, o)
  OBVIOUS
<1>2. PICK b, g, e : b = SubSeq(list, 1, i - 1) /\ g = SubSeq(list, i, j) /\ e = SubSeq(list, j + 1, Len(list))
  OBVIOUS
<1>3. Parts(list, o, b, g, e)
  BY <1>1, <1>2, PartsFound
<1>4. PICK G \in SUBSET A : Sound(g, G) /\ Replaceable(b, e, o, A, q, G)
  BY <1>3, ReplaceGroup
<1>5. PICK a : a = Loop(g, caller)
  OBVIOUS
<1>6. LoopSound(a, o, G)
  BY <1>3, <1>4, <1>5, LoopIsSound DEF Parts
<1>7. PICK free : free = FreeEntries(Len(b \o a.out \o e))
  OBVIOUS
<1>8. PICK f : f = Finish(a, free)
  OBVIOUS
<1>9. r = [list |-> b \o f \o e, wake |-> a.wake]
  BY <1>1, <1>2, <1>5, <1>7, <1>8 DEF lock_it
<1>10. f \in Seq(Entry) /\ Mine(f, o) /\ Shared(f, a.wake, G)
  BY <1>6, <1>8, FinishSound
<1>11. PICK woken : woken = a.wake
  OBVIOUS
<1>12. /\ b \o f \o e \in Seq(Entry)
       /\ Sound(b \o f \o e, A \ woken) /\ Apart(b \o f \o e, q)
  <2>1. Shared(f, woken, G)
    BY <1>10, <1>11
  <2> QED
    BY <1>4, <1>10, <2>1, Zenon DEF Replaceable
<1> QED
  BY <1>9, <1>11, <1>12

-----------------------------------------------------------------------------
(* Every sleeper is anchored.                                              *)

Queues ==
    /\ i_flock \in Seq(Entry)
    /\ req \in [Tasks -> Request \cup {NoReq}]
    /\ asleep \in SUBSET Tasks
    /\ Sound(i_flock, asleep)
    /\ Apart(i_flock, req)
    /\ \A t \in asleep : req[t].type # "F_UNLCK"

LEMMA CallerIsRequest ==
    ASSUME NEW t \in Tasks, NEW fd \in Fds, NEW type \in Types \cup {"F_UNLCK"}, NEW reg \in Regions
    PROVE  copy_flock(<<t, fd>>, type, reg) \in Request
<1>1. /\ reg[1] \in 0 .. OFFSET_MAX /\ reg[2] \in 0 .. OFFSET_MAX /\ OFFSET_MAX \in Nat
      /\ <<t, fd>> \in Owners
  BY OffsetAssumption, RegionsAssumption DEF Owners
<1>2. off_t(reg[1] + reg[2] - 1) \in Int
  BY <1>1 DEF off_t
<1> QED
  BY <1>1, <1>2 DEF copy_flock, Request

\* The first entry in the way.
LEMMA FirstConflictIs ==
    ASSUME NEW list \in Seq(Entry), NEW caller, NEW i, i = FirstConflict(list, caller)
    PROVE  /\ i # 0 => i \in 1 .. Len(list) /\ conflict(caller, list[i])
           /\ i = 0 => \A k \in 1 .. Len(list) : ~conflict(caller, list[k])
<1> DEFINE I == {k \in 1 .. Len(list) : conflict(caller, list[k])}
<1>1. i = IF I # {} THEN Min(I) ELSE 0
  BY DEF FirstConflict, SelectInSeq
<1>2. I \subseteq Nat /\ 0 \notin I
  OBVIOUS
<1>3. I # {} => Min(I) \in I
  BY <1>2, MinIsLeast
<1>4. I # {} => i # 0
  BY <1>1, <1>2, <1>3
<1> QED
  BY <1>1, <1>3, <1>4

\* A call returns, and another list or other sleepers are the result of it.
LEMMA ReturnQueues ==
    ASSUME Queues, NEW t \in Tasks, t \notin asleep, req' = [req EXCEPT ![t] = NoReq],
           asleep' \subseteq asleep, i_flock' \in Seq(Entry),
           Sound(i_flock', asleep'), Apart(i_flock', req)
    PROVE  Queues'
<1>1. req' \in [Tasks -> Request \cup {NoReq}]
  BY DEF Queues
<1>2. \A u \in asleep : req'[u] = req[u]
  BY DEF Queues
<1>3. Apart(i_flock', req')
  <2> SUFFICES ASSUME NEW k \in 1 .. Len(i_flock'), NEW u \in i_flock'[k].wait
               PROVE  req'[u].owner # i_flock'[k].owner
    BY DEF Apart
  <2>1. u \in asleep
    BY DEF Sound
  <2> QED
    BY <1>2, <2>1 DEF Apart
<1> QED
  BY <1>1, <1>2, <1>3 DEF Queues

LEMMA ScanQueues ==
    ASSUME Queues, NEW t \in Tasks, t \notin asleep, NEW caller \in Request, Scan(t, caller)
    PROVE  Queues'
<1>0. /\ i_flock \in Seq(Entry) /\ req \in [Tasks -> Request \cup {NoReq}] /\ asleep \in SUBSET Tasks
      /\ Sound(i_flock, asleep) /\ Apart(i_flock, req) /\ \A u \in asleep : req[u].type # "F_UNLCK"
  BY DEF Queues
<1>1. PICK i : i = FirstConflict(i_flock, caller)
  OBVIOUS
<1>2. CASE i = 0
  <2>1. PICK r : r = lock_it(i_flock, caller)
    OBVIOUS
  <2>2. i_flock' = r.list /\ asleep' = asleep \ r.wake /\ req' = [req EXCEPT ![t] = NoReq]
    BY <1>1, <1>2, <2>1 DEF Scan, Return
  <2>3. r.list \in Seq(Entry) /\ Sound(r.list, asleep \ r.wake) /\ Apart(r.list, req)
    BY <1>0, <2>1, LockItSound
  <2> QED
    BY <2>2, <2>3, ReturnQueues
<1>3. CASE i # 0
  <2>1. /\ i_flock' = [i_flock EXCEPT ![i].wait = @ \cup {t}]
        /\ req' = [req EXCEPT ![t] = caller] /\ asleep' = asleep \cup {t}
    BY <1>1, <1>3 DEF Scan
  <2>2. i \in 1 .. Len(i_flock) /\ conflict(caller, i_flock[i])
    BY <1>0, <1>1, <1>3, FirstConflictIs
  <2>3. PICK old \in Entry : old = i_flock[i]
    BY <1>0, <2>2, ElementOfSeq
  <2>4. PICK e \in Entry : e = [old EXCEPT !.wait = old.wait \cup {t}]
    BY DEF Entry
  <2>5. e.wait = old.wait \cup {t} /\ e.owner = old.owner
    BY <2>4 DEF Entry
  <2>6. i_flock' = [i_flock EXCEPT ![i] = e]
    BY <2>1, <2>3, <2>4
  <2>7. /\ i_flock' \in Seq(Entry) /\ Len(i_flock') = Len(i_flock)
        /\ \A k \in 1 .. Len(i_flock) : i_flock'[k] = IF k = i THEN e ELSE i_flock[k]
    BY <1>0, <2>2, <2>6, ExceptSeq
  <2>8. caller.type # "F_UNLCK" /\ caller.owner # old.owner
    BY <2>2, <2>3 DEF conflict
  <2>9. req' \in [Tasks -> Request \cup {NoReq}] /\ req'[t] = caller /\ \A u \in asleep : req'[u] = req[u]
    BY <1>0, <2>1
  <2>10. Sound(i_flock', asleep')
    <3>0. \A k \in 1 .. Len(i_flock) : i_flock[k].wait \subseteq asleep
      BY <1>0 DEF Sound
    <3>1. \A k \in 1 .. Len(i_flock) : /\ i_flock[k].wait \subseteq asleep /\ t \notin i_flock[k].wait
                                       /\ i_flock'[k].wait = IF k = i THEN i_flock[k].wait \cup {t} ELSE i_flock[k].wait
      BY <2>3, <2>5, <2>7, <3>0
    <3>2. ASSUME NEW u \in asleep' PROVE \E k \in 1 .. Len(i_flock') : u \in i_flock'[k].wait
      <4>1. CASE u = t
        BY <2>2, <2>7, <3>1, <4>1
      <4>2. CASE u \in asleep
        <5>1. PICK k \in 1 .. Len(i_flock) : u \in i_flock[k].wait
          BY <1>0, <4>2 DEF Sound
        <5> QED
          BY <2>7, <3>1, <5>1
      <4> QED
        BY <2>1, <4>1, <4>2
    <3>3. ASSUME NEW k \in 1 .. Len(i_flock), NEW m \in 1 .. Len(i_flock), NEW u,
                 u \in i_flock'[k].wait, u \in i_flock'[m].wait
          PROVE  k = m
      <4>1. CASE u = t
        BY <3>1, <3>3, <4>1
      <4>2. CASE u # t
        <5>1. u \in i_flock[k].wait /\ u \in i_flock[m].wait
          BY <3>1, <3>3, <4>2
        <5> QED
          BY <1>0, <5>1 DEF Sound
      <4> QED
        BY <4>1, <4>2
    <3>4. ASSUME NEW k \in 1 .. Len(i_flock) PROVE i_flock'[k].wait \subseteq asleep'
      <4>1. i_flock[k].wait \subseteq asleep
        BY <3>0
      <4>2. i_flock'[k].wait \subseteq i_flock[k].wait \cup {t}
        BY <3>1
      <4> QED
        BY <2>1, <4>1, <4>2
    <3> QED
      BY <2>7, <3>2, <3>3, <3>4 DEF Sound
  <2>11. Apart(i_flock', req')
    <3> SUFFICES ASSUME NEW k \in 1 .. Len(i_flock), NEW u \in i_flock'[k].wait
                 PROVE  req'[u].owner # i_flock'[k].owner
      BY <2>7 DEF Apart
    <3>1. CASE k = i /\ u = t
      BY <2>5, <2>7, <2>8, <2>9, <3>1
    <3>2. CASE ~(k = i /\ u = t)
      <4>1. u \in i_flock[k].wait /\ i_flock'[k].owner = i_flock[k].owner
        BY <2>3, <2>5, <2>7, <3>2
      <4>2. u \in asleep
        BY <1>0, <4>1 DEF Sound
      <4> QED
        BY <1>0, <2>9, <4>1, <4>2 DEF Apart
    <3> QED
      BY <3>1, <3>2
  <2>12. asleep' \in SUBSET Tasks /\ \A u \in asleep' : req'[u].type # "F_UNLCK"
    BY <1>0, <2>1, <2>8, <2>9
  <2> QED
    BY <2>7, <2>9, <2>10, <2>11, <2>12 DEF Queues
<1> QED
  BY <1>2, <1>3

\* The call of a task that is not asleep ends without a change of the list.
LEMMA SetlkQueues ==
    ASSUME Queues, NEW t \in Tasks, NEW fd \in Fds, NEW type \in Types \cup {"F_UNLCK"},
           NEW reg \in Regions, fcntl_setlk(t, fd, type, reg)
    PROVE  Queues'
<1>1. PICK caller \in Request : caller = copy_flock(<<t, fd>>, type, reg)
  BY CallerIsRequest
<1>2. t \notin asleep
  BY DEF fcntl_setlk, Queues, NoReq
<1>3. CASE Scan(t, caller)
  BY <1>2, <1>3, ScanQueues
<1>4. CASE UNCHANGED vars
  BY <1>4 DEF Queues, vars
<1> QED
  BY <1>1, <1>3, <1>4 DEF fcntl_setlk

LEMMA ResumeQueues ==
    ASSUME Queues, NEW t \in Tasks, SetlkResume(t)
    PROVE  Queues'
<1>1. t \notin asleep /\ req[t] \in Request
  BY DEF SetlkResume, Queues
<1>2. CASE t \in sig
  <2>1. i_flock' = i_flock /\ asleep' = asleep /\ req' = [req EXCEPT ![t] = NoReq]
    BY <1>2 DEF SetlkResume, Return
  <2> QED
    BY <1>1, <2>1, ReturnQueues DEF Queues
<1>3. CASE t \notin sig
  <2>1. PICK caller \in Request : caller = req[t]
    BY <1>1
  <2>2. Scan(t, caller)
    BY <1>3, <2>1 DEF SetlkResume
  <2> QED
    BY <1>1, <2>2, ScanQueues
<1> QED
  BY <1>2, <1>3

\* Everybody who waits for an entry of the group is woken.
LEMMA RemoveQueues ==
    ASSUME Queues, NEW t \in Tasks, NEW fd \in Fds, fcntl_remove_locks(t, fd)
    PROVE  Queues'
<1>0. /\ i_flock \in Seq(Entry) /\ Sound(i_flock, asleep) /\ Apart(i_flock, req) /\ Len(i_flock) \in Nat
  BY DEF Queues
<1>1. PICK o : o = <<t, fd>>
  OBVIOUS
<1>2. PICK i, j : i = GroupStart(i_flock, o) /\ j = GroupEnd(i_flock, o)
  OBVIOUS
<1>3. PICK b, g, e : b = SubSeq(i_flock, 1, i - 1) /\ g = SubSeq(i_flock, i, j) /\ e = SubSeq(i_flock, j + 1, Len(i_flock))
  OBVIOUS
<1>4. Parts(i_flock, o, b, g, e)
  BY <1>0, <1>2, <1>3, PartsFound
<1>5. PICK G \in SUBSET asleep : Sound(g, G) /\ Replaceable(b, e, o, asleep, req, G)
  BY <1>0, <1>4, ReplaceGroup
<1>6. /\ i_flock' = b \o e /\ asleep' = asleep \ Waiters(i, j)
      /\ req' = req
  BY <1>1, <1>2, <1>3 DEF fcntl_remove_locks
<1>7. Waiters(i, j) = G
  <2>1. i \in 1 .. Len(i_flock) + 1 /\ j \in i - 1 .. Len(i_flock)
    BY <1>0, <1>2, GroupFound DEF Grouped
  <2>2. Len(g) = j - i + 1 /\ \A k \in 1 .. j - i + 1 : g[k] = i_flock[i + k - 1]
    BY <1>0, <1>3, <2>1, GroupParts
  <2>3. ASSUME NEW u \in G PROVE u \in Waiters(i, j)
    <3>1. PICK k \in 1 .. Len(g) : u \in g[k].wait
      BY <1>5 DEF Sound
    <3>2. i + k - 1 \in i .. j /\ u \in i_flock[i + k - 1].wait
      BY <1>0, <2>1, <2>2, <3>1
    <3> QED
      BY <3>2 DEF Waiters
  <2>4. ASSUME NEW u \in Waiters(i, j) PROVE u \in G
    <3>1. PICK k \in i .. j : u \in i_flock[k].wait
      BY DEF Waiters
    <3>2. PICK n : n = k - i + 1
      OBVIOUS
    <3>3. n \in 1 .. Len(g) /\ g[n] = i_flock[k]
      BY <1>0, <2>1, <2>2, <3>2
    <3> QED
      BY <1>5, <3>1, <3>3 DEF Sound
  <2> QED
    BY <2>3, <2>4
<1>8. PICK f \in Seq(Entry) : f = <<>>
  BY EmptySeq
<1>9. Mine(f, o) /\ Shared(f, G, G)
  <2>1. Len(f) = 0
    BY <1>8
  <2>2. Sound(f, {})
    BY <2>1 DEF Sound
  <2>3. {} \cap G = {} /\ {} \cup G = G
    OBVIOUS
  <2> QED
    BY <2>1, <2>2, <2>3 DEF Mine, Shared
<1>10. /\ b \o f \o e \in Seq(Entry)
       /\ Sound(b \o f \o e, asleep \ G) /\ Apart(b \o f \o e, req)
  BY <1>5, <1>9, Zenon DEF Replaceable
<1>11. b \o f \o e = b \o e
  <2>1. b \in Seq(Entry) /\ b \o <<>> = b
    BY <1>4 DEF Parts
  <2> QED
    BY <1>8, <2>1
<1>12. asleep' \subseteq asleep
  BY <1>6
<1> QED
  BY <1>6, <1>7, <1>10, <1>11, <1>12 DEF Queues

\* The sleeper leaves its queue when the signal wakes it.
LEMMA SignalQueues ==
    ASSUME Queues, NEW t \in Tasks, send_sig(t)
    PROVE  Queues'
<1>0. /\ i_flock \in Seq(Entry) /\ Sound(i_flock, asleep) /\ Apart(i_flock, req) /\ Len(i_flock) \in Nat
      /\ DOMAIN i_flock = 1 .. Len(i_flock)
  BY DEF Queues
<1>1. /\ i_flock' = [i \in 1 .. Len(i_flock) |-> [i_flock[i] EXCEPT !.wait = @ \ {t}]]
      /\ asleep' = asleep \ {t} /\ req' = req
  BY <1>0 DEF send_sig
<1>2. ASSUME NEW i \in 1 .. Len(i_flock)
      PROVE  /\ i_flock'[i] \in Entry /\ i_flock'[i].wait = i_flock[i].wait \ {t}
             /\ i_flock'[i].owner = i_flock[i].owner
  <2>1. PICK old \in Entry : old = i_flock[i]
    BY <1>0, ElementOfSeq
  <2>2. i_flock'[i] = [old EXCEPT !.wait = old.wait \ {t}]
    BY <1>1, <2>1
  <2> QED
    BY <2>1, <2>2 DEF Entry
<1>3. i_flock' \in Seq(Entry) /\ Len(i_flock') = Len(i_flock)
  <2>1. i_flock' \in [1 .. Len(i_flock) -> Entry]
    BY <1>1, <1>2
  <2> QED
    BY <1>0, <2>1
<1>4. Sound(i_flock', asleep')
  <2>1. \A i \in 1 .. Len(i_flock) : i_flock[i].wait \subseteq asleep
    BY <1>0 DEF Sound
  <2>2. ASSUME NEW i \in 1 .. Len(i_flock) PROVE i_flock'[i].wait \subseteq asleep'
    BY <1>1, <1>2, <2>1
  <2>3. ASSUME NEW u \in asleep' PROVE \E i \in 1 .. Len(i_flock) : u \in i_flock'[i].wait
    <3>1. PICK i \in 1 .. Len(i_flock) : u \in i_flock[i].wait
      BY <1>0, <1>1 DEF Sound
    <3> QED
      BY <1>1, <1>2, <3>1
  <2>4. ASSUME NEW i \in 1 .. Len(i_flock), NEW j \in 1 .. Len(i_flock), NEW u,
               u \in i_flock'[i].wait, u \in i_flock'[j].wait
        PROVE  i = j
    <3>1. u \in i_flock[i].wait /\ u \in i_flock[j].wait
      BY <1>2, <2>4
    <3> QED
      BY <1>0, <3>1 DEF Sound
  <2> QED
    BY <1>3, <2>2, <2>3, <2>4 DEF Sound
<1>5. Apart(i_flock', req')
  <2> SUFFICES ASSUME NEW i \in 1 .. Len(i_flock), NEW u \in i_flock'[i].wait
               PROVE  req'[u].owner # i_flock'[i].owner
    BY <1>3 DEF Apart
  <2>1. u \in i_flock[i].wait
    BY <1>2
  <2>2. req[u].owner # i_flock[i].owner
    BY <1>0, <2>1 DEF Apart
  <2> QED
    BY <1>1, <1>2, <2>2
<1> QED
  BY <1>1, <1>3, <1>4, <1>5 DEF Queues

LEMMA InitQueues ==
    ASSUME Init
    PROVE  Queues
<1>1. i_flock = <<>> /\ asleep = {} /\ req = [t \in Tasks |-> NoReq]
  BY DEF Init
<1>2. i_flock \in Seq(Entry) /\ Len(i_flock) = 0
  BY <1>1
<1> QED
  BY <1>1, <1>2 DEF Queues, Sound, Apart

LEMMA NextQueues ==
    ASSUME Queues, [Next]_vars
    PROVE  Queues'
<1>1. CASE UNCHANGED vars
  BY <1>1 DEF Queues, vars
<1>2. CASE Next
  <2>1. PICK t \in Tasks :
            \/ \E fd \in Fds :
                  \/ \E type \in {"F_RDLCK", "F_WRLCK", "F_UNLCK"}, reg \in Regions :
                         fcntl_setlk(t, fd, type, reg)
                  \/ fcntl_remove_locks(t, fd)
            \/ SetlkResume(t)
            \/ send_sig(t)
    BY <1>2, Zenon DEF Next
  <2>2. ASSUME NEW fd \in Fds, NEW type \in {"F_RDLCK", "F_WRLCK", "F_UNLCK"}, NEW reg \in Regions,
               fcntl_setlk(t, fd, type, reg)
        PROVE  Queues'
    <3>1. type \in Types \cup {"F_UNLCK"}
      BY DEF Types
    <3> QED
      BY <2>2, <3>1, SetlkQueues
  <2> QED
    BY <2>1, <2>2, RemoveQueues, ResumeQueues, SignalQueues, Zenon
<1> QED
  BY <1>1, <1>2

\* A task that sleeps in fcntl_setlk is in the fl_wait queue of exactly one entry
\* of the list, another owner's, whatever lock_it merges, cuts, splits or frees
\* and whoever closes the file: no entry goes away with a sleeper on it.
THEOREM SleepersStayAnchored == Spec => []SleepersAnchored
<1>1. ASSUME Queues PROVE SleepersAnchored
  <2> SUFFICES ASSUME NEW t \in asleep
               PROVE  \E i \in DOMAIN i_flock :
                          /\ t \in i_flock[i].wait /\ i_flock[i].owner # req[t].owner
                          /\ \A j \in DOMAIN i_flock \ {i} : t \notin i_flock[j].wait
    BY DEF SleepersAnchored
  <2>1. /\ DOMAIN i_flock = 1 .. Len(i_flock) /\ Sound(i_flock, asleep) /\ Apart(i_flock, req)
    BY <1>1 DEF Queues
  <2>2. PICK i \in 1 .. Len(i_flock) : t \in i_flock[i].wait
    BY <2>1 DEF Sound
  <2>3. req[t].owner # i_flock[i].owner
    BY <2>1, <2>2 DEF Apart
  <2>4. \A j \in 1 .. Len(i_flock) : t \in i_flock[j].wait => i = j
    BY <2>1, <2>2 DEF Sound
  <2> QED
    BY <2>1, <2>2, <2>3, <2>4
<1> QED
  BY <1>1, InitQueues, NextQueues, PTL DEF Spec

-----------------------------------------------------------------------------
(* A group in order.                                                       *)

\* p stands before q: apart, and with a gap if they are of one type.
Before(p, q) == p.end < q.start /\ (p.type = q.type => p.end + 1 < q.start)

\* A range of bytes that does not reach the largest offset.
Inside(p) ==
    /\ p.start \in Int /\ p.end \in Int
    /\ 0 <= p.start /\ p.start <= p.end /\ p.end < OFFSET_MAX

Good(l) ==
    /\ \A i \in 1 .. Len(l) : Inside(l[i])
    /\ \A i, j \in 1 .. Len(l) : i < j => Before(l[i], l[j])

Ahead(l, m) == \A i \in 1 .. Len(l), j \in 1 .. Len(m) : Before(l[i], m[j])

\* Byte b is in an entry of type U.
Covers(l, b, U) == \E i \in 1 .. Len(l) : l[i].type = U /\ l[i].start <= b /\ b <= l[i].end

\* The entries of two lists in one.
LEMMA Joined ==
    ASSUME NEW l \in Seq(Entry), NEW m \in Seq(Entry)
    PROVE  /\ Len(l) \in Nat /\ Len(m) \in Nat
           /\ l \o m \in Seq(Entry) /\ Len(l \o m) = Len(l) + Len(m)
           /\ \A i \in 1 .. Len(l) : (l \o m)[i] = l[i] /\ i \in 1 .. Len(l) + Len(m)
           /\ \A i \in 1 .. Len(m) : (l \o m)[Len(l) + i] = m[i] /\ Len(l) + i \in 1 .. Len(l) + Len(m)
           /\ \A i \in 1 .. Len(l) + Len(m) :
                  i \in 1 .. Len(l) \/ (i - Len(l) \in 1 .. Len(m) /\ (l \o m)[i] = m[i - Len(l)])
  BY ConcatProperties

LEMMA GoodConcat ==
    ASSUME NEW l \in Seq(Entry), NEW m \in Seq(Entry), Good(l), Good(m), Ahead(l, m)
    PROVE  Good(l \o m)
<1> DEFINE s == l \o m
           x == Len(l)
           y == Len(m)
<1>1. /\ x \in Nat /\ y \in Nat /\ Len(s) = x + y
      /\ \A i \in 1 .. x : s[i] = l[i]
      /\ \A i \in 1 .. x + y : i \in 1 .. x \/ (i - x \in 1 .. y /\ s[i] = m[i - x])
  BY Joined
<1> HIDE DEF s
<1>2. ASSUME NEW i \in 1 .. Len(s) PROVE Inside(s[i])
  <2>1. CASE i \in 1 .. x
    BY <1>1, <2>1 DEF Good
  <2>2. CASE i - x \in 1 .. y /\ s[i] = m[i - x]
    BY <2>2 DEF Good
  <2> QED
    BY <1>1, <2>1, <2>2
<1>3. ASSUME NEW i \in 1 .. Len(s), NEW j \in 1 .. Len(s), i < j PROVE Before(s[i], s[j])
  <2>1. CASE i \in 1 .. x /\ j \in 1 .. x
    BY <1>1, <1>3, <2>1 DEF Good
  <2>2. CASE i \in 1 .. x /\ j - x \in 1 .. y /\ s[j] = m[j - x]
    <3>1. Before(l[i], m[j - x])
      BY <2>2, Zenon DEF Ahead
    <3> QED
      BY <1>1, <2>2, <3>1
  <2>3. CASE i - x \in 1 .. y /\ s[i] = m[i - x] /\ j - x \in 1 .. y /\ s[j] = m[j - x]
    <3>1. i - x < j - x
      BY <1>1, <1>3
    <3>2. Before(m[i - x], m[j - x])
      BY <2>3, <3>1, Zenon DEF Good
    <3> QED
      BY <2>3, <3>2
  <2>4. ~(i - x \in 1 .. y /\ j \in 1 .. x)
    BY <1>1, <1>3
  <2> QED
    BY <1>1, <2>1, <2>2, <2>3, <2>4
<1>4. Good(s)
  BY <1>2, <1>3 DEF Good
<1> QED
  BY <1>4 DEF s

LEMMA CoversConcat ==
    ASSUME NEW l \in Seq(Entry), NEW m \in Seq(Entry), NEW b, NEW U
    PROVE  Covers(l \o m, b, U) <=> Covers(l, b, U) \/ Covers(m, b, U)
<1> DEFINE s == l \o m
           x == Len(l)
           y == Len(m)
<1>1. /\ x \in Nat /\ y \in Nat /\ Len(s) = x + y
      /\ \A i \in 1 .. x : s[i] = l[i] /\ i \in 1 .. x + y
      /\ \A i \in 1 .. y : s[x + i] = m[i] /\ x + i \in 1 .. x + y
      /\ \A i \in 1 .. x + y : i \in 1 .. x \/ (i - x \in 1 .. y /\ s[i] = m[i - x])
  BY Joined
<1> HIDE DEF s
<1>2. ASSUME Covers(l, b, U) PROVE Covers(s, b, U)
  BY <1>1, <1>2 DEF Covers
<1>3. ASSUME Covers(m, b, U) PROVE Covers(s, b, U)
  <2>1. PICK i \in 1 .. y : m[i].type = U /\ m[i].start <= b /\ b <= m[i].end
    BY <1>3 DEF Covers
  <2>2. x + i \in 1 .. Len(s) /\ s[x + i] = m[i]
    BY <1>1
  <2> QED
    BY <2>1, <2>2 DEF Covers
<1>4. ASSUME Covers(s, b, U) PROVE Covers(l, b, U) \/ Covers(m, b, U)
  <2>1. PICK i \in 1 .. x + y : s[i].type = U /\ s[i].start <= b /\ b <= s[i].end
    BY <1>1, <1>4 DEF Covers
  <2>2. CASE i \in 1 .. x
    BY <1>1, <2>1, <2>2 DEF Covers
  <2>3. CASE i - x \in 1 .. y /\ s[i] = m[i - x]
    BY <2>1, <2>3 DEF Covers
  <2> QED
    BY <1>1, <2>2, <2>3
<1>5. Covers(s, b, U) <=> Covers(l, b, U) \/ Covers(m, b, U)
  BY <1>2, <1>3, <1>4
<1> QED
  BY <1>5 DEF s

\* In a group in order a byte has one type at most.
LEMMA OneType ==
    ASSUME NEW l \in Seq(Entry), Good(l), NEW b \in Int, NEW U, NEW V, Covers(l, b, U), Covers(l, b, V)
    PROVE  U = V
<1>1. PICK i \in 1 .. Len(l) : l[i].type = U /\ l[i].start <= b /\ b <= l[i].end
  BY DEF Covers
<1>2. PICK j \in 1 .. Len(l) : l[j].type = V /\ l[j].start <= b /\ b <= l[j].end
  BY DEF Covers
<1>3. l[i].start \in Int /\ l[i].end \in Int /\ l[j].start \in Int /\ l[j].end \in Int
  BY DEF Good, Inside
<1>4. ~(i < j)
  <2> SUFFICES ASSUME i < j PROVE FALSE
    OBVIOUS
  <2>1. l[i].end < l[j].start
    BY DEF Good, Before
  <2> QED
    BY <1>1, <1>2, <1>3, <2>1
<1>5. ~(j < i)
  <2> SUFFICES ASSUME j < i PROVE FALSE
    OBVIOUS
  <2>1. l[j].end < l[i].start
    BY DEF Good, Before
  <2> QED
    BY <1>1, <1>2, <1>3, <2>1
<1>6. i = j
  BY <1>4, <1>5
<1> QED
  BY <1>1, <1>2, <1>6

-----------------------------------------------------------------------------
(* What is left of a group before and behind the range of c.               *)

\* A is the part of g before c: its first p entries, the last one perhaps cut.
FrontOf(A, g, c, p) ==
    /\ A \in Seq(Entry) /\ p \in 0 .. Len(g) /\ Len(A) = p
    /\ \A i \in 1 .. p :
           /\ A[i].type = g[i].type /\ A[i].start = g[i].start /\ g[i].start < c.start
           /\ \/ A[i].end = g[i].end /\ Before(g[i], c)
              \/ A[i].end = c.start - 1 /\ c.start <= g[i].end /\ g[i].type # c.type
    /\ \A i \in p + 1 .. Len(g) : c.start <= g[i].start

\* Y is the part of g behind c: the entries from h on, the first one perhaps cut.
BackOf(Y, g, c, h) ==
    /\ Y \in Seq(Entry) /\ h \in 1 .. Len(g) + 1 /\ Len(Y) = Len(g) + 1 - h
    /\ \A j \in 1 .. Len(g) + 1 - h :
           /\ Y[j].type = g[h + j - 1].type /\ Y[j].end = g[h + j - 1].end /\ c.end < g[h + j - 1].end
           /\ \/ Y[j].start = g[h + j - 1].start /\ Before(c, g[h + j - 1])
              \/ Y[j].start = c.end + 1 /\ g[h + j - 1].start <= c.end /\ g[h + j - 1].type # c.type
    /\ \A i \in 1 .. h - 1 : g[i].end <= c.end

\* The entry of c itself, unless c is a range to unlock.
Middle(M, c) ==
    \/ c.type = "F_UNLCK" /\ M = <<>>
    \/ c.type # "F_UNLCK" /\ \E e \in Entry : /\ M = <<e>> /\ e.type = c.type
                                              /\ e.start = c.start /\ e.end = c.end

LEMMA FrontGood ==
    ASSUME NEW g \in Seq(Entry), Good(g), NEW c, Inside(c), NEW A, NEW p, FrontOf(A, g, c, p)
    PROVE  /\ Good(A)
           /\ \A i \in 1 .. Len(A) : A[i].end < c.start /\ Before(A[i], c)
<1>0. /\ p \in 0 .. Len(g) /\ Len(g) \in Nat /\ Len(A) = p
      /\ c.start \in Int /\ c.end \in Int /\ 0 <= c.start /\ c.start <= c.end /\ c.end < OFFSET_MAX
      /\ OFFSET_MAX \in Int
  BY OffsetAssumption DEF FrontOf, Inside
<1>1. ASSUME NEW i \in 1 .. p
      PROVE  /\ A[i].type = g[i].type /\ A[i].start = g[i].start /\ g[i].start < c.start
             /\ g[i].start \in Int /\ g[i].end \in Int /\ A[i].end \in Int
             /\ 0 <= g[i].start /\ g[i].start <= g[i].end
             /\ A[i].end <= g[i].end /\ A[i].end < c.start /\ A[i].start <= A[i].end
             /\ Before(A[i], c)
  <2>1. i \in 1 .. Len(g)
    BY <1>0
  <2>2. /\ g[i].start \in Int /\ g[i].end \in Int /\ 0 <= g[i].start /\ g[i].start <= g[i].end
    BY <2>1 DEF Good, Inside
  <2>3. /\ A[i].type = g[i].type /\ A[i].start = g[i].start /\ g[i].start < c.start
        /\ \/ A[i].end = g[i].end /\ Before(g[i], c)
           \/ A[i].end = c.start - 1 /\ c.start <= g[i].end /\ g[i].type # c.type
    BY DEF FrontOf
  <2> QED
    BY <1>0, <2>2, <2>3 DEF Before
<1>2. ASSUME NEW i \in 1 .. p PROVE Inside(A[i])
  <2>1. /\ A[i].start \in Int /\ A[i].end \in Int /\ 0 <= A[i].start
        /\ A[i].start <= A[i].end /\ A[i].end < c.start
    BY <1>1
  <2> QED
    BY <1>0, <2>1 DEF Inside
<1>3. ASSUME NEW i \in 1 .. p, NEW j \in 1 .. p, i < j PROVE Before(A[i], A[j])
  <2>1. i \in 1 .. Len(g) /\ j \in 1 .. Len(g)
    BY <1>0
  <2>2. g[i].end < g[j].start /\ (g[i].type = g[j].type => g[i].end + 1 < g[j].start)
    BY <1>3, <2>1 DEF Good, Before
  <2>3. /\ A[i].type = g[i].type /\ A[i].end \in Int /\ g[i].end \in Int /\ A[i].end <= g[i].end
        /\ A[j].type = g[j].type /\ A[j].start = g[j].start /\ g[j].start \in Int
    BY <1>1
  <2> QED
    BY <2>2, <2>3 DEF Before
<1> QED
  BY <1>0, <1>1, <1>2, <1>3 DEF Good

LEMMA BackGood ==
    ASSUME NEW g \in Seq(Entry), Good(g), NEW c, Inside(c), NEW Y, NEW h, BackOf(Y, g, c, h)
    PROVE  /\ Good(Y)
           /\ \A i \in 1 .. Len(Y) : c.end < Y[i].start /\ Before(c, Y[i])
<1>0. /\ h \in 1 .. Len(g) + 1 /\ Len(g) \in Nat /\ Len(Y) = Len(g) + 1 - h
      /\ c.start \in Int /\ c.end \in Int /\ 0 <= c.start /\ c.start <= c.end /\ c.end < OFFSET_MAX
      /\ OFFSET_MAX \in Int
  BY OffsetAssumption DEF BackOf, Inside
<1>1. ASSUME NEW j \in 1 .. Len(Y)
      PROVE  \E k \in 1 .. Len(g) :
                 /\ k = h + j - 1
                 /\ Y[j].type = g[k].type /\ Y[j].end = g[k].end /\ c.end < g[k].end
                 /\ g[k].start \in Int /\ g[k].end \in Int /\ Y[j].start \in Int
                 /\ g[k].start <= Y[j].start /\ c.end < Y[j].start /\ Y[j].start <= Y[j].end
                 /\ g[k].end < OFFSET_MAX /\ Before(c, Y[j])
  <2>1. PICK k \in 1 .. Len(g) : k = h + j - 1
    BY <1>0
  <2>2. /\ g[k].start \in Int /\ g[k].end \in Int /\ g[k].start <= g[k].end /\ g[k].end < OFFSET_MAX
    BY <2>1 DEF Good, Inside
  <2>3. /\ Y[j].type = g[k].type /\ Y[j].end = g[k].end /\ c.end < g[k].end
        /\ \/ Y[j].start = g[k].start /\ Before(c, g[k])
           \/ Y[j].start = c.end + 1 /\ g[k].start <= c.end /\ g[k].type # c.type
    <3>1. j \in 1 .. Len(g) + 1 - h
      BY <1>0
    <3> QED
      BY <2>1, <3>1 DEF BackOf
  <2>4. /\ g[k].start \in Int /\ g[k].end \in Int /\ Y[j].start \in Int
        /\ g[k].start <= Y[j].start /\ c.end < Y[j].start /\ Y[j].start <= Y[j].end
        /\ Before(c, Y[j])
    BY <1>0, <2>2, <2>3, SMTT(30) DEF Before
  <2> QED
    BY <2>1, <2>2, <2>3, <2>4, Zenon
<1>2. ASSUME NEW j \in 1 .. Len(Y) PROVE Inside(Y[j]) /\ c.end < Y[j].start /\ Before(c, Y[j])
  <2>1. PICK k \in 1 .. Len(g) :
                 /\ Y[j].end = g[k].end /\ g[k].end \in Int /\ Y[j].start \in Int
                 /\ c.end < Y[j].start /\ Y[j].start <= Y[j].end
                 /\ g[k].end < OFFSET_MAX /\ Before(c, Y[j])
    BY <1>1, Zenon
  <2> QED
    BY <1>0, <2>1 DEF Inside
<1>3. ASSUME NEW i \in 1 .. Len(Y), NEW j \in 1 .. Len(Y), i < j PROVE Before(Y[i], Y[j])
  <2>1. PICK k \in 1 .. Len(g) : k = h + i - 1 /\ Y[i].type = g[k].type /\ Y[i].end = g[k].end /\ g[k].end \in Int
    BY <1>1
  <2>2. PICK n \in 1 .. Len(g) : /\ n = h + j - 1 /\ Y[j].type = g[n].type /\ g[n].start \in Int
                                 /\ Y[j].start \in Int /\ g[n].start <= Y[j].start
    BY <1>1
  <2>3. k < n
    BY <1>0, <1>3, <2>1, <2>2
  <2>4. g[k].end < g[n].start /\ (g[k].type = g[n].type => g[k].end + 1 < g[n].start)
    BY <2>3 DEF Good, Before
  <2> QED
    BY <2>1, <2>2, <2>4, SMTT(30) DEF Before
<1> QED
  BY <1>2, <1>3 DEF Good

\* The bytes that l covers are those of g, but for the range of c, which is all of c's type.
Settles(l, g, c) ==
    \A b \in Int, U \in Types :
        Covers(l, b, U) <=> IF c.start <= b /\ b <= c.end THEN U = c.type ELSE Covers(g, b, U)

LEMMA FrontCovers ==
    ASSUME NEW g \in Seq(Entry), Good(g), NEW c, Inside(c), NEW A, NEW p, FrontOf(A, g, c, p),
           NEW b \in Int, NEW U
    PROVE  Covers(A, b, U) <=> b < c.start /\ Covers(g, b, U)
<1>0. /\ p \in 0 .. Len(g) /\ Len(g) \in Nat /\ Len(A) = p /\ c.start \in Int
  BY DEF FrontOf, Inside
<1>1. ASSUME NEW i \in 1 .. p
      PROVE  /\ i \in 1 .. Len(g)
             /\ A[i].type = g[i].type /\ A[i].start = g[i].start /\ g[i].start < c.start
             /\ A[i].end = g[i].end \/ (A[i].end = c.start - 1 /\ c.start <= g[i].end)
             /\ g[i].start \in Int /\ g[i].end \in Int
  <2>1. i \in 1 .. Len(g)
    BY <1>0
  <2> QED
    BY <2>1 DEF FrontOf, Good, Inside
<1>2. ASSUME NEW i \in 1 .. p PROVE A[i].end < c.start
  BY <1>0, FrontGood
<1>3. ASSUME Covers(A, b, U) PROVE b < c.start /\ Covers(g, b, U)
  <2>1. PICK i \in 1 .. p : A[i].type = U /\ A[i].start <= b /\ b <= A[i].end
    BY <1>0, <1>3 DEF Covers
  <2>2. i \in 1 .. Len(g) /\ g[i].type = U /\ g[i].start <= b /\ b <= g[i].end /\ b < c.start
    BY <1>0, <1>1, <1>2, <2>1
  <2> QED
    BY <2>2 DEF Covers
<1>4. ASSUME b < c.start, Covers(g, b, U) PROVE Covers(A, b, U)
  <2>1. PICK i \in 1 .. Len(g) : g[i].type = U /\ g[i].start <= b /\ b <= g[i].end
    BY <1>4 DEF Covers
  <2>2. g[i].start \in Int
    BY DEF Good, Inside
  <2>3. i \in 1 .. p
    <3>1. i \in p + 1 .. Len(g) => c.start <= g[i].start
      BY DEF FrontOf
    <3> QED
      BY <1>0, <1>4, <2>1, <2>2, <3>1
  <2>4. A[i].type = U /\ A[i].start <= b /\ b <= A[i].end
    BY <1>0, <1>1, <1>4, <2>1, <2>3
  <2> QED
    BY <1>0, <2>3, <2>4 DEF Covers
<1> QED
  BY <1>3, <1>4

LEMMA BackCovers ==
    ASSUME NEW g \in Seq(Entry), Good(g), NEW c, Inside(c), NEW Y, NEW h, BackOf(Y, g, c, h),
           NEW b \in Int, NEW U
    PROVE  Covers(Y, b, U) <=> c.end < b /\ Covers(g, b, U)
<1>0. /\ h \in 1 .. Len(g) + 1 /\ Len(g) \in Nat /\ Len(Y) = Len(g) + 1 - h /\ c.end \in Int
  BY DEF BackOf, Inside
<1>1. ASSUME NEW j \in 1 .. Len(Y), NEW k, k = h + j - 1
      PROVE  /\ k \in 1 .. Len(g)
             /\ Y[j].type = g[k].type /\ Y[j].end = g[k].end
             /\ Y[j].start = g[k].start \/ (Y[j].start = c.end + 1 /\ g[k].start <= c.end)
             /\ g[k].start \in Int /\ g[k].end \in Int
  <2>1. k \in 1 .. Len(g) /\ j \in 1 .. Len(g) + 1 - h
    BY <1>0, <1>1
  <2>2. g[k].start \in Int /\ g[k].end \in Int
    BY <2>1 DEF Good, Inside
  <2> QED
    BY <1>1, <2>1, <2>2 DEF BackOf
<1>2. ASSUME NEW j \in 1 .. Len(Y) PROVE c.end < Y[j].start
  BY BackGood
<1>3. ASSUME Covers(Y, b, U) PROVE c.end < b /\ Covers(g, b, U)
  <2>1. PICK j \in 1 .. Len(Y) : Y[j].type = U /\ Y[j].start <= b /\ b <= Y[j].end
    BY <1>3 DEF Covers
  <2>2. PICK k : k = h + j - 1
    OBVIOUS
  <2>3. /\ k \in 1 .. Len(g)
        /\ Y[j].type = g[k].type /\ Y[j].end = g[k].end
        /\ Y[j].start = g[k].start \/ (Y[j].start = c.end + 1 /\ g[k].start <= c.end)
        /\ g[k].start \in Int /\ g[k].end \in Int
    BY <1>1, <2>2
  <2>4. c.end < Y[j].start /\ Y[j].start \in Int
    BY <1>0, <1>2, <2>3
  <2>5. g[k].type = U /\ g[k].start <= b /\ b <= g[k].end /\ c.end < b
    BY <1>0, <2>1, <2>3, <2>4, SMTT(30)
  <2> QED
    BY <2>3, <2>5 DEF Covers
<1>4. ASSUME c.end < b, Covers(g, b, U) PROVE Covers(Y, b, U)
  <2>1. PICK k \in 1 .. Len(g) : g[k].type = U /\ g[k].start <= b /\ b <= g[k].end
    BY <1>4 DEF Covers
  <2>2. g[k].end \in Int
    BY DEF Good, Inside
  <2>3. ~(k \in 1 .. h - 1)
    <3>1. k \in 1 .. h - 1 => g[k].end <= c.end
      BY DEF BackOf
    <3> QED
      BY <1>0, <1>4, <2>1, <2>2, <3>1
  <2>4. PICK j \in 1 .. Len(Y) : k = h + j - 1
    <3>1. k - h + 1 \in 1 .. Len(Y) /\ k = h + (k - h + 1) - 1
      BY <1>0, <2>3
    <3> QED
      BY <3>1
  <2>5. /\ Y[j].type = g[k].type /\ Y[j].end = g[k].end
        /\ Y[j].start = g[k].start \/ (Y[j].start = c.end + 1 /\ g[k].start <= c.end)
        /\ g[k].start \in Int /\ g[k].end \in Int
    BY <1>1, <2>4
  <2>6. Y[j].type = U /\ Y[j].start <= b /\ b <= Y[j].end
    BY <1>0, <1>4, <2>1, <2>5
  <2> QED
    BY <2>6 DEF Covers
<1> QED
  BY <1>3, <1>4

LEMMA MiddleGood ==
    ASSUME NEW c, Inside(c), NEW M, Middle(M, c)
    PROVE  /\ M \in Seq(Entry) /\ Good(M)
           /\ \A i \in 1 .. Len(M) : M[i].type = c.type /\ M[i].start = c.start /\ M[i].end = c.end
           /\ \A b \in Int, U \in Types :
                  Covers(M, b, U) <=> c.start <= b /\ b <= c.end /\ U = c.type
<1>1. CASE c.type = "F_UNLCK" /\ M = <<>>
  <2>1. M \in Seq(Entry) /\ Len(M) = 0
    BY <1>1, EmptySeq
  <2>2. \A i \in 1 .. Len(M) : FALSE
    BY <2>1
  <2>3. \A U \in Types : U # c.type
    BY <1>1 DEF Types
  <2> QED
    BY <2>1, <2>2, <2>3 DEF Good, Covers
<1>2. CASE c.type # "F_UNLCK" /\ \E e \in Entry : /\ M = <<e>> /\ e.type = c.type
                                                  /\ e.start = c.start /\ e.end = c.end
  <2>1. PICK e \in Entry : M = <<e>> /\ e.type = c.type /\ e.start = c.start /\ e.end = c.end
    BY <1>2
  <2>2. M \in Seq(Entry) /\ Len(M) = 1 /\ M[1] = e /\ \A i \in 1 .. Len(M) : i = 1
    BY <2>1
  <2>3. Inside(e)
    BY <2>1 DEF Inside
  <2>4. Good(M)
    BY <2>2, <2>3 DEF Good
  <2>5. \A b \in Int, U \in Types : Covers(M, b, U) <=> c.start <= b /\ b <= c.end /\ U = c.type
    BY <2>1, <2>2 DEF Covers
  <2> QED
    BY <2>1, <2>2, <2>4, <2>5
<1> QED
  BY <1>1, <1>2 DEF Middle

LEMMA Sandwich ==
    ASSUME NEW g \in Seq(Entry), Good(g), NEW c, Inside(c), NEW A, NEW p, FrontOf(A, g, c, p),
           NEW Y, NEW h, BackOf(Y, g, c, h), NEW M, Middle(M, c)
    PROVE  /\ (A \o M) \o Y \in Seq(Entry) /\ Good((A \o M) \o Y) /\ Settles((A \o M) \o Y, g, c)
<1>0. /\ c.start \in Int /\ c.end \in Int /\ c.start <= c.end
      /\ A \in Seq(Entry) /\ Y \in Seq(Entry)
  BY DEF Inside, FrontOf, BackOf
<1>1. Good(A) /\ \A i \in 1 .. Len(A) : A[i].end < c.start /\ Before(A[i], c)
  BY FrontGood
<1>2. Good(Y) /\ \A i \in 1 .. Len(Y) : c.end < Y[i].start /\ Before(c, Y[i])
  BY BackGood
<1>3. /\ M \in Seq(Entry) /\ Good(M)
      /\ \A i \in 1 .. Len(M) : M[i].type = c.type /\ M[i].start = c.start /\ M[i].end = c.end
      /\ \A b \in Int, U \in Types :
                  Covers(M, b, U) <=> c.start <= b /\ b <= c.end /\ U = c.type
  BY MiddleGood
<1>4. PICK X : X = A \o M
  OBVIOUS
<1>5. X \in Seq(Entry) /\ Good(X)
  <2>1. Ahead(A, M)
    BY <1>1, <1>3 DEF Ahead, Before
  <2> QED
    BY <1>0, <1>1, <1>3, <1>4, <2>1, GoodConcat, Joined
<1>6. PICK f : f = X \o Y
  OBVIOUS
<1>7. f \in Seq(Entry) /\ Good(f)
  <2>1. /\ Len(A) \in Nat /\ Len(M) \in Nat /\ Len(X) = Len(A) + Len(M)
        /\ \A i \in 1 .. Len(A) : X[i] = A[i]
        /\ \A i \in 1 .. Len(A) + Len(M) :
                  i \in 1 .. Len(A) \/ (i - Len(A) \in 1 .. Len(M) /\ X[i] = M[i - Len(A)])
    BY <1>0, <1>3, <1>4, Joined
  <2>2. ASSUME NEW i \in 1 .. Len(X), NEW j \in 1 .. Len(Y) PROVE Before(X[i], Y[j])
    <3>1. c.end < Y[j].start /\ Before(c, Y[j]) /\ Y[j].start \in Int
      BY <1>2 DEF Good, Inside
    <3>2. CASE i \in 1 .. Len(A)
      <4>1. X[i] = A[i] /\ A[i].end < c.start /\ A[i].end \in Int
        BY <1>1, <2>1, <3>2 DEF Good, Inside
      <4> QED
        BY <1>0, <3>1, <4>1 DEF Before
    <3>3. CASE i - Len(A) \in 1 .. Len(M) /\ X[i] = M[i - Len(A)]
      <4>1. X[i].type = c.type /\ X[i].end = c.end
        BY <1>3, <3>3
      <4> QED
        BY <3>1, <4>1 DEF Before
    <3> QED
      BY <2>1, <3>2, <3>3
  <2>3. Ahead(X, Y)
    BY <2>2 DEF Ahead
  <2> QED
    BY <1>0, <1>2, <1>5, <1>6, <2>3, GoodConcat, Joined
<1>8. ASSUME NEW b \in Int, NEW U \in Types
      PROVE  Covers(f, b, U) <=> IF c.start <= b /\ b <= c.end THEN U = c.type ELSE Covers(g, b, U)
  <2>1. Covers(f, b, U) <=> Covers(X, b, U) \/ Covers(Y, b, U)
    BY <1>0, <1>5, <1>6, CoversConcat
  <2>2. Covers(X, b, U) <=> Covers(A, b, U) \/ Covers(M, b, U)
    BY <1>0, <1>3, <1>4, CoversConcat
  <2>3. Covers(A, b, U) <=> b < c.start /\ Covers(g, b, U)
    BY FrontCovers
  <2>4. Covers(Y, b, U) <=> c.end < b /\ Covers(g, b, U)
    BY BackCovers
  <2>5. Covers(M, b, U) <=> c.start <= b /\ b <= c.end /\ U = c.type
    BY <1>3
  <2> QED
    BY <1>0, <2>1, <2>2, <2>3, <2>4, <2>5
<1>9. Settles(f, g, c)
  BY <1>8 DEF Settles
<1> QED
  BY <1>4, <1>6, <1>7, <1>9

-----------------------------------------------------------------------------
(* The shape of the loop's state after k entries of g: the first m are     *)
(* passed, those up to h are swallowed by c, the rest come after a break.  *)

\* 1 when an entry of the list stands for c.
Own(a) == IF a.added /\ a.c.type # "F_UNLCK" THEN 1 ELSE 0

\* The entries in out are the first m, perhaps the one of c, and those from h on.
Kept(out, g, k, m, h, own) ==
    /\ out \in Seq(Entry) /\ m \in 0 .. k /\ h \in m + 1 .. k + 1 /\ own \in 0 .. 1
    /\ Len(out) = m + own + (k + 1 - h)
    /\ \A i \in 1 .. m : out[i] = g[i]
    /\ \A j \in h .. k : out[j + (m + own + 1 - h)] = g[j]

OwnIs(out, c, m, own) ==
    own = 1 => out[m + 1].type = c.type /\ out[m + 1].start = c.start /\ out[m + 1].end = c.end

\* The range of c is the requested one and the bytes of the locks it swallowed.
Fills(c, g, r) ==
    /\ c.type = r.type /\ c.start <= r.start /\ r.end <= c.end
    /\ \A b \in Int : c.start <= b /\ b <= c.end =>
           (r.start <= b /\ b <= r.end) \/ Covers(g, b, c.type)

Swallowed(c, g, m, h) == \A i \in m + 1 .. h - 1 : c.start <= g[i].start /\ g[i].end <= c.end

OnLeft(c, g, m, left) ==
    /\ left \in {0, m}
    /\ \A i \in 1 .. m : i # left => Before(g[i], c)
    /\ left # 0 => /\ g[m].type # c.type /\ g[m].start < c.start
                   /\ c.start <= g[m].end /\ g[m].end <= c.end

OnRight(c, g, k, h, cut) ==
    /\ \A j \in h .. k : (j = h /\ cut) \/ Before(c, g[j])
    /\ cut => /\ h <= k /\ g[h].type # c.type
              /\ g[h].start <= c.end /\ c.end < g[h].end

\* One entry sticks out on both sides, or each side has its own.
Sides(a, g, k, m, h) ==
    \/ /\ a.left = a.right /\ a.right # 0 /\ Own(a) = 0 /\ h = m + 1
       /\ g[h].start < a.c.start /\ OnLeft(a.c, g, m, 0)
    \/ /\ OnLeft(a.c, g, m, a.left) /\ (h <= k => a.c.start <= g[h].start)

Shape(a, g, r, k, m, h) ==
    /\ a \in Loops /\ Inside(a.c) /\ Fills(a.c, g, r) /\ a.c.owner = r.owner
    /\ Kept(a.out, g, k, m, h, Own(a)) /\ OwnIs(a.out, a.c, m, Own(a))
    /\ Own(a) = 1 => a.at = m + 1 /\ m + 1 < h
    /\ ~a.added => h = m + 1
    /\ Swallowed(a.c, g, m, h)
    /\ a.right \in {0, m + Own(a) + 1} /\ OnRight(a.c, g, k, h, a.right # 0)
    /\ Sides(a, g, k, m, h)

Shaped(a, g, r, k) ==
    \E m, h : /\ Shape(a, g, r, k, m, h)
              /\ \/ a.stop = -1 /\ h = k + 1 /\ a.right = 0
                 \/ a.stop = m + Own(a) /\ h <= k

LEMMA KeptBack ==
    ASSUME NEW g \in Seq(Entry), NEW k \in Nat, k < Len(g), NEW out, NEW m, NEW h, NEW own,
           Kept(out, g, k, m, h, own)
    PROVE  Kept(Append(out, g[k + 1]), g, k + 1, m, h, own)
<1>0. /\ out \in Seq(Entry) /\ m \in 0 .. k /\ h \in m + 1 .. k + 1 /\ own \in 0 .. 1
      /\ Len(out) = m + own + (k + 1 - h) /\ Len(out) \in Nat
      /\ \A i \in 1 .. m : out[i] = g[i]
      /\ \A j \in h .. k : out[j + (m + own + 1 - h)] = g[j]
  BY DEF Kept
<1>1. PICK e \in Entry : e = g[k + 1]
  <2>1. k + 1 \in 1 .. Len(g)
    OBVIOUS
  <2> QED
    BY <2>1, ElementOfSeq
<1>2. PICK l : l = Append(out, e)
  OBVIOUS
<1>3. /\ l \in Seq(Entry) /\ Len(l) = Len(out) + 1
      /\ \A i \in 1 .. Len(out) : l[i] = out[i]
      /\ l[Len(out) + 1] = e
  BY <1>0, <1>2, AppendProperties
<1>4. ASSUME NEW i \in 1 .. m PROVE l[i] = g[i]
  <2>1. i \in 1 .. Len(out)
    BY <1>0
  <2> QED
    BY <1>0, <1>3, <2>1
<1>5. ASSUME NEW j \in h .. k + 1 PROVE l[j + (m + own + 1 - h)] = g[j]
  <2>1. CASE j = k + 1
    <3>1. j + (m + own + 1 - h) = Len(out) + 1
      BY <1>0, <2>1
    <3> QED
      BY <1>1, <1>3, <2>1, <3>1
  <2>2. CASE j # k + 1
    <3>1. j \in h .. k
      BY <1>0, <2>2
    <3>2. PICK n : n = j + (m + own + 1 - h)
      OBVIOUS
    <3>3. n \in 1 .. Len(out)
      BY <1>0, <3>1, <3>2
    <3>4. out[n] = g[j]
      BY <1>0, <3>1, <3>2
    <3> QED
      BY <1>3, <3>2, <3>3, <3>4
  <2> QED
    BY <2>1, <2>2
<1>6. Kept(l, g, k + 1, m, h, own)
  <2>1. m \in 0 .. k + 1 /\ h \in m + 1 .. (k + 1) + 1 /\ Len(l) = m + own + ((k + 1) + 1 - h)
    BY <1>0, <1>3
  <2> QED
    BY <1>0, <1>3, <1>4, <1>5, <2>1 DEF Kept
<1> QED
  BY <1>1, <1>2, <1>6

\* The next entry is passed before c has one of its own.
LEMMA KeptFront ==
    ASSUME NEW g \in Seq(Entry), NEW k \in Nat, k < Len(g), NEW out,
           Kept(out, g, k, k, k + 1, 0)
    PROVE  Kept(Append(out, g[k + 1]), g, k + 1, k + 1, (k + 1) + 1, 0)
<1>0. /\ out \in Seq(Entry) /\ Len(out) = k
      /\ \A i \in 1 .. k : out[i] = g[i]
  BY DEF Kept
<1>1. PICK e \in Entry : e = g[k + 1]
  <2>1. k + 1 \in 1 .. Len(g)
    OBVIOUS
  <2> QED
    BY <2>1, ElementOfSeq
<1>2. PICK l : l = Append(out, e)
  OBVIOUS
<1>3. /\ l \in Seq(Entry) /\ Len(l) = k + 1
      /\ \A i \in 1 .. k : l[i] = out[i]
      /\ l[k + 1] = e
  BY <1>0, <1>2, AppendProperties
<1>4. ASSUME NEW i \in 1 .. k + 1 PROVE l[i] = g[i]
  BY <1>0, <1>1, <1>3
<1>5. k + 1 \in 0 .. k + 1 /\ (k + 1) + 1 \in (k + 1) + 1 .. (k + 1) + 1 /\ 0 \in 0 .. 1
      /\ k + 1 = (k + 1) + 0 + ((k + 1) + 1 - ((k + 1) + 1))
  OBVIOUS
<1>6. \A j \in (k + 1) + 1 .. k + 1 : FALSE
  OBVIOUS
<1>7. Kept(l, g, k + 1, k + 1, (k + 1) + 1, 0)
  BY <1>3, <1>4, <1>5, <1>6 DEF Kept
<1> QED
  BY <1>1, <1>2, <1>7

\* c gets an entry.
LEMMA KeptOwn ==
    ASSUME NEW g \in Seq(Entry), NEW k \in Nat, k < Len(g), NEW out,
           Kept(out, g, k, k, k + 1, 0), NEW e \in Entry
    PROVE  /\ Kept(Append(out, e), g, k + 1, k, (k + 1) + 1, 1)
           /\ Append(out, e)[k + 1] = e /\ Len(out) = k
<1>0. /\ out \in Seq(Entry) /\ Len(out) = k
      /\ \A i \in 1 .. k : out[i] = g[i]
  BY DEF Kept
<1>2. PICK l : l = Append(out, e)
  OBVIOUS
<1>3. /\ l \in Seq(Entry) /\ Len(l) = k + 1
      /\ \A i \in 1 .. k : l[i] = out[i]
      /\ l[k + 1] = e
  BY <1>0, <1>2, AppendProperties
<1>4. ASSUME NEW i \in 1 .. k PROVE l[i] = g[i]
  BY <1>0, <1>3
<1>5. k \in 0 .. k + 1 /\ (k + 1) + 1 \in k + 1 .. (k + 1) + 1 /\ 1 \in 0 .. 1
      /\ k + 1 = k + 1 + ((k + 1) + 1 - ((k + 1) + 1))
  OBVIOUS
<1>6. \A j \in (k + 1) + 1 .. k + 1 : FALSE
  OBVIOUS
<1>7. Kept(l, g, k + 1, k, (k + 1) + 1, 1)
  BY <1>3, <1>4, <1>5, <1>6 DEF Kept
<1> QED
  BY <1>0, <1>2, <1>3, <1>7

\* The next entry is swallowed.
LEMMA KeptSkip ==
    ASSUME NEW g, NEW k \in Nat, NEW out, NEW m, NEW own,
           Kept(out, g, k, m, k + 1, own)
    PROVE  Kept(out, g, k + 1, m, (k + 1) + 1, own)
<1>0. /\ out \in Seq(Entry) /\ m \in 0 .. k /\ own \in 0 .. 1
      /\ Len(out) = m + own + (k + 1 - (k + 1))
      /\ \A i \in 1 .. m : out[i] = g[i]
  BY DEF Kept
<1>1. /\ m \in 0 .. k + 1 /\ (k + 1) + 1 \in m + 1 .. (k + 1) + 1
      /\ Len(out) = m + own + ((k + 1) + 1 - ((k + 1) + 1))
  BY <1>0
<1>2. \A j \in (k + 1) + 1 .. k + 1 : FALSE
  OBVIOUS
<1> QED
  BY <1>0, <1>1, <1>2 DEF Kept

\* The next entry is swallowed and the one of c grows.
LEMMA KeptGrow ==
    ASSUME NEW g, NEW k \in Nat, NEW out, NEW m,
           Kept(out, g, k, m, k + 1, 1), NEW e \in Entry
    PROVE  /\ m + 1 \in 1 .. Len(out)
           /\ Kept([out EXCEPT ![m + 1] = e], g, k + 1, m, (k + 1) + 1, 1)
           /\ [out EXCEPT ![m + 1] = e][m + 1] = e
<1>0. /\ out \in Seq(Entry) /\ m \in 0 .. k
      /\ Len(out) = m + 1
      /\ \A i \in 1 .. m : out[i] = g[i]
  BY DEF Kept
<1>1. m + 1 \in 1 .. Len(out)
  BY <1>0
<1>2. PICK l : l = [out EXCEPT ![m + 1] = e]
  OBVIOUS
<1>3. /\ l \in Seq(Entry) /\ Len(l) = m + 1
      /\ \A i \in 1 .. Len(out) : l[i] = IF i = m + 1 THEN e ELSE out[i]
  BY <1>0, <1>1, <1>2, ExceptSeq
<1>4. ASSUME NEW i \in 1 .. m PROVE l[i] = g[i]
  BY <1>0, <1>3
<1>5. m \in 0 .. k + 1 /\ (k + 1) + 1 \in m + 1 .. (k + 1) + 1 /\ 1 \in 0 .. 1
      /\ m + 1 = m + 1 + ((k + 1) + 1 - ((k + 1) + 1))
  BY <1>0
<1>6. \A j \in (k + 1) + 1 .. k + 1 : FALSE
  OBVIOUS
<1>7. Kept(l, g, k + 1, m, (k + 1) + 1, 1)
  BY <1>3, <1>4, <1>5, <1>6 DEF Kept
<1> QED
  BY <1>1, <1>2, <1>3, <1>7

\* The loop has not been left: everything after the first m is swallowed.
Running(a, g, r, k, m) == Shape(a, g, r, k, m, k + 1) /\ a.stop = -1 /\ a.right = 0

LEMMA RunningIs ==
    ASSUME NEW g, NEW r, NEW k \in Nat, NEW m \in Nat, NEW a \in Loops, Inside(a.c), Fills(a.c, g, r),
           a.c.owner = r.owner, Kept(a.out, g, k, m, k + 1, Own(a)), OwnIs(a.out, a.c, m, Own(a)),
           Own(a) = 1 => a.at = m + 1 /\ m < k, ~a.added => m = k,
           Swallowed(a.c, g, m, k + 1), OnLeft(a.c, g, m, a.left), a.right = 0, a.stop = -1
    PROVE  Running(a, g, r, k, m)
<1>1. m < k => m + 1 < k + 1
  OBVIOUS
<1>2. OnRight(a.c, g, k, k + 1, a.right # 0)
  BY DEF OnRight
<1>3. Sides(a, g, k, m, k + 1)
  BY DEF Sides
<1> QED
  BY <1>1, <1>2, <1>3 DEF Running, Shape

\* What is known of c and of the next entry, fl.
Ready(a, g, k, m, fl) ==
    /\ a.c \in Request /\ fl \in Entry /\ fl.type \in Types
    /\ a.c.start \in Int /\ a.c.end \in Int /\ 0 <= a.c.start /\ a.c.start <= a.c.end /\ a.c.end < OFFSET_MAX
    /\ fl.start \in Int /\ fl.end \in Int /\ 0 <= fl.start /\ fl.start <= fl.end /\ fl.end < OFFSET_MAX
    /\ m \in 0 .. k /\ m \in Nat /\ Own(a) \in 0 .. 1 /\ Len(a.out) = m + Own(a)
    /\ \A i \in 1 .. k : /\ g[i].start \in Int /\ g[i].end \in Int /\ g[i].start <= g[i].end
                         /\ Before(g[i], fl)
    /\ OnLeft(a.c, g, m, a.left)
    /\ fl.start <= a.c.start => m = k /\ a.left = 0 /\ Own(a) = 0

LEMMA RunningReady ==
    ASSUME NEW g \in Seq(Entry), Good(g), NEW k \in Nat, k < Len(g), NEW a, NEW r, NEW m,
           Running(a, g, r, k, m), NEW fl, fl = g[k + 1]
    PROVE  Ready(a, g, k, m, fl)
<1>0. Len(g) \in Nat /\ k + 1 \in 1 .. Len(g) /\ \A i \in 1 .. k : i \in 1 .. Len(g) /\ i < k + 1
  OBVIOUS
<1>1. /\ a \in Loops /\ Inside(a.c) /\ Kept(a.out, g, k, m, k + 1, Own(a))
      /\ Own(a) = 1 => m + 1 < k + 1
      /\ Swallowed(a.c, g, m, k + 1) /\ OnLeft(a.c, g, m, a.left)
  BY DEF Running, Shape, Sides
<1>2. /\ a.c \in Request /\ fl \in Entry /\ fl.type \in Types /\ Inside(fl)
  <2>1. fl \in Entry
    BY <1>0, ElementOfSeq
  <2> QED
    BY <1>0, <1>1, <2>1 DEF Loops, Entry, Good
<1>3. /\ m \in 0 .. k /\ m \in Nat /\ Own(a) \in 0 .. 1 /\ Len(a.out) = m + Own(a)
  BY <1>1 DEF Kept
<1>4. \A i \in 1 .. k : /\ g[i].start \in Int /\ g[i].end \in Int /\ g[i].start <= g[i].end
                        /\ Before(g[i], fl)
  BY <1>0 DEF Good, Inside
<1>5. ASSUME fl.start <= a.c.start PROVE m = k /\ a.left = 0 /\ Own(a) = 0
  <2>0. a.c.start \in Int /\ fl.start \in Int
    BY <1>1, <1>2 DEF Inside
  <2>1. m = k
    <3> SUFFICES ASSUME m # k PROVE FALSE
      OBVIOUS
    <3>1. k \in m + 1 .. (k + 1) - 1 /\ k \in 1 .. k
      BY <1>3
    <3>2. a.c.start <= g[k].start
      BY <1>1, <3>1 DEF Swallowed
    <3>3. g[k].start \in Int /\ g[k].end \in Int /\ g[k].start <= g[k].end /\ g[k].end < fl.start
      BY <1>4, <3>1 DEF Before
    <3> QED
      BY <1>5, <2>0, <3>2, <3>3
  <2>2. a.left = 0
    <3> SUFFICES ASSUME a.left # 0 PROVE FALSE
      OBVIOUS
    <3>1. m # 0 /\ a.c.start <= g[m].end
      BY <1>1 DEF OnLeft
    <3>2. m \in 1 .. k
      BY <1>3, <3>1
    <3>3. g[m].end \in Int /\ g[m].end < fl.start
      BY <1>4, <3>2 DEF Before
    <3> QED
      BY <1>5, <2>0, <3>1, <3>3
  <2> QED
    BY <1>1, <1>3, <2>1, <2>2
<1> QED
  BY <1>1, <1>2, <1>3, <1>4, <1>5 DEF Ready, Inside

\* c swallows fl, which has its type and overlaps or touches it.
Swelled(c, a, g, r, k, m) ==
    /\ c \in Request /\ c.type = a.c.type /\ c.owner = r.owner /\ Inside(c)
    /\ Fills(c, g, r) /\ Swallowed(c, g, m, (k + 1) + 1) /\ OnLeft(c, g, m, a.left)

LEMMA GrownIs ==
    ASSUME NEW g \in Seq(Entry), Good(g), NEW k \in Nat, k < Len(g), NEW a, NEW r \in Request,
           NEW m, Running(a, g, r, k, m), NEW fl, fl = g[k + 1], a.c.type = fl.type, Adjacent(a.c, fl)
    PROVE  Swelled(Grown(a.c, fl), a, g, r, k, m)
<1>0. PICK c : c = Grown(a.c, fl)
  OBVIOUS
<1>1. Ready(a, g, k, m, fl)
  BY RunningReady
<1>2. /\ a.c \in Request /\ fl \in Entry /\ a.c.owner = r.owner
      /\ a.c.start \in Int /\ a.c.end \in Int /\ 0 <= a.c.start /\ a.c.start <= a.c.end /\ a.c.end < OFFSET_MAX
      /\ fl.start \in Int /\ fl.end \in Int /\ 0 <= fl.start /\ fl.start <= fl.end /\ fl.end < OFFSET_MAX
      /\ m \in 0 .. k /\ OFFSET_MAX \in Int
      /\ Fills(a.c, g, r) /\ Swallowed(a.c, g, m, k + 1)
  BY <1>1, OffsetAssumption DEF Ready, Running, Shape
<1>3. fl.end >= a.c.start - 1 /\ fl.start <= a.c.end + 1
  BY <1>2, SMTT(30) DEF Adjacent, off_t
<1>4. /\ c \in Request /\ c.type = a.c.type /\ c.owner = r.owner
      /\ c.start = (IF fl.start > a.c.start THEN a.c.start ELSE fl.start)
      /\ c.end = (IF fl.end < a.c.end THEN a.c.end ELSE fl.end)
  BY <1>0, <1>2 DEF Grown, Request
<1>5. /\ c.start \in Int /\ c.end \in Int /\ c.start <= a.c.start /\ c.start <= fl.start
      /\ a.c.end <= c.end /\ fl.end <= c.end /\ 0 <= c.start /\ c.start <= c.end /\ c.end < OFFSET_MAX
      /\ c.start = a.c.start \/ (c.start = fl.start /\ fl.start <= a.c.start)
  BY <1>2, <1>4
<1>6. Inside(c)
  BY <1>5 DEF Inside
<1>7. Fills(c, g, r)
  <2>0. k + 1 \in 1 .. Len(g)
    OBVIOUS
  <2>1. c.type = r.type
    BY <1>2, <1>4 DEF Fills
  <2>2. ASSUME NEW b \in Int, c.start <= b, b <= c.end
        PROVE  (r.start <= b /\ b <= r.end) \/ Covers(g, b, c.type)
    <3>1. CASE a.c.start <= b /\ b <= a.c.end
      BY <1>2, <1>4, <3>1 DEF Fills
    <3>2. CASE ~(a.c.start <= b /\ b <= a.c.end)
      <4>1. fl.start <= b /\ b <= fl.end
        BY <1>2, <1>3, <1>4, <2>2, <3>2, SMTT(30)
      <4> QED
        BY <1>4, <2>0, <4>1 DEF Covers
    <3> QED
      BY <3>1, <3>2
  <2>3. c.start <= r.start /\ r.end <= c.end
    <3>1. a.c.start <= r.start /\ r.end <= a.c.end /\ r.start \in Int /\ r.end \in Int
      BY <1>2 DEF Fills, Request
    <3>2. c.start <= a.c.start /\ a.c.end <= c.end /\ c.start \in Int /\ c.end \in Int
      BY <1>5
    <3>3. a.c.start \in Int /\ a.c.end \in Int
      BY <1>2
    <3> QED
      BY <3>1, <3>2, <3>3
  <2> QED
    BY <2>1, <2>2, <2>3 DEF Fills
<1>8. Swallowed(c, g, m, (k + 1) + 1)
  <2> SUFFICES ASSUME NEW i \in m + 1 .. ((k + 1) + 1) - 1 PROVE c.start <= g[i].start /\ g[i].end <= c.end
    BY DEF Swallowed
  <2>1. CASE i = k + 1
    BY <1>5, <2>1
  <2>2. CASE i # k + 1
    <3>1. i \in m + 1 .. (k + 1) - 1 /\ i \in 1 .. k
      BY <1>2, <2>2
    <3>2. a.c.start <= g[i].start /\ g[i].end <= a.c.end
      BY <1>2, <3>1 DEF Swallowed
    <3>3. g[i].start \in Int /\ g[i].end \in Int
      BY <1>1, <3>1 DEF Ready
    <3>4. c.start <= a.c.start /\ a.c.end <= c.end /\ c.start \in Int /\ c.end \in Int
      BY <1>5
    <3>5. a.c.start \in Int /\ a.c.end \in Int
      BY <1>2
    <3> QED
      BY <3>2, <3>3, <3>4, <3>5
  <2> QED
    BY <2>1, <2>2
<1>9. OnLeft(c, g, m, a.left)
  <2>0. OnLeft(a.c, g, m, a.left) /\ \A i \in 1 .. m : i \in 1 .. k
    BY <1>1, <1>2 DEF Ready
  <2>1. CASE c.start = a.c.start
    <3>1. ASSUME a.left # 0 PROVE g[m].end <= c.end
      <4>1. m \in 1 .. k /\ g[m].end <= a.c.end
        BY <1>2, <2>0, <3>1 DEF OnLeft
      <4>2. g[m].end \in Int
        BY <1>1, <4>1 DEF Ready
      <4> QED
        BY <1>2, <1>5, <4>1, <4>2
    <3> QED
      BY <1>4, <2>0, <2>1, <3>1 DEF OnLeft, Before
  <2>2. CASE c.start = fl.start /\ fl.start <= a.c.start
    <3>1. a.left = 0
      BY <1>1, <2>2 DEF Ready
    <3>2. ASSUME NEW i \in 1 .. m PROVE Before(g[i], c)
      <4>1. Before(g[i], fl)
        BY <1>1, <2>0 DEF Ready
      <4> QED
        BY <1>4, <2>2, <4>1 DEF Before
    <3> QED
      BY <3>1, <3>2 DEF OnLeft
  <2> QED
    BY <1>5, <2>1, <2>2
<1> QED
  BY <1>0, <1>4, <1>6, <1>7, <1>8, <1>9 DEF Swelled

-----------------------------------------------------------------------------
(* Each branch of the loop keeps the shape.                                *)

LEMMA RunKeeps ==
    ASSUME NEW g \in Seq(Entry), Good(g), NEW k \in Nat, k < Len(g), NEW a, NEW r \in Request,
           NEW m, Running(a, g, r, k, m), NEW fl, fl = g[k + 1], NEW x, StepKeeps(a, fl, x)
    PROVE  Running(x, g, r, k + 1, k + 1)
<1>0. Ready(a, g, k, m, fl)
  BY RunningReady
<1>1. /\ a \in Loops /\ a.c \in Request /\ Inside(a.c) /\ Fills(a.c, g, r) /\ a.c.owner = r.owner
      /\ Kept(a.out, g, k, m, k + 1, Own(a)) /\ a.stop = -1 /\ a.right = 0
      /\ OnLeft(a.c, g, m, a.left) /\ a.out \in Seq(Entry)
  BY <1>0 DEF Ready, Running, Shape, Kept
<1>2. /\ a.c.start \in Int /\ fl.start \in Int /\ fl.end \in Int /\ fl.start <= fl.end /\ fl \in Entry
      /\ fl.start <= a.c.start => m = k /\ a.left = 0 /\ Own(a) = 0
  BY <1>0 DEF Ready
<1>3. Before(fl, a.c) /\ fl.start <= a.c.start
  BY <1>1, <1>2 DEF StepKeeps, Before
<1>4. m = k /\ a.left = 0 /\ Own(a) = 0
  BY <1>2, <1>3
<1>5. Append(a.out, fl) \in Seq(Entry)
  BY <1>1, <1>2, AppendProperties
<1>6. /\ x \in Loops /\ x.out = Append(a.out, fl) /\ x.c = a.c /\ x.added = a.added /\ x.at = a.at
      /\ x.left = a.left /\ x.right = a.right /\ x.stop = a.stop
  BY <1>1, <1>5 DEF StepKeeps, Loops
<1>7. Own(x) = 0
  BY <1>4, <1>6 DEF Own
<1>8. Kept(x.out, g, k + 1, k + 1, (k + 1) + 1, Own(x))
  <2>1. Kept(a.out, g, k, k, k + 1, 0)
    BY <1>1, <1>4
  <2> QED
    BY <1>6, <1>7, <2>1, KeptFront
<1>9. OnLeft(x.c, g, k + 1, x.left)
  <2>1. \A i \in 1 .. k : Before(g[i], a.c)
    BY <1>1, <1>4 DEF OnLeft
  <2>2. \A i \in 1 .. k + 1 : i \in 1 .. k \/ i = k + 1
    OBVIOUS
  <2>3. \A i \in 1 .. k + 1 : Before(g[i], a.c)
    BY <1>3, <2>1, <2>2
  <2> QED
    BY <1>4, <1>6, <2>3 DEF OnLeft
<1>10. Swallowed(x.c, g, k + 1, (k + 1) + 1)
  BY DEF Swallowed
<1>11. OwnIs(x.out, x.c, k + 1, Own(x))
  BY <1>7 DEF OwnIs
<1>12. k + 1 \in Nat /\ (Own(x) = 1 => FALSE) /\ x.right = 0 /\ x.stop = -1
  BY <1>1, <1>6, <1>7
<1>13. Inside(x.c) /\ Fills(x.c, g, r) /\ x.c.owner = r.owner /\ x \in Loops
  BY <1>1, <1>6
<1> QED
  BY <1>8, <1>9, <1>10, <1>11, <1>12, <1>13, RunningIs, Zenon

LEMMA RunLeft ==
    ASSUME NEW g \in Seq(Entry), Good(g), NEW k \in Nat, k < Len(g), NEW a, NEW r \in Request,
           NEW m, Running(a, g, r, k, m), NEW fl, fl = g[k + 1], NEW x, StepLeft(a, fl, x)
    PROVE  Running(x, g, r, k + 1, k + 1)
<1>0. Ready(a, g, k, m, fl)
  BY RunningReady
<1>1. /\ a \in Loops /\ a.c \in Request /\ Inside(a.c) /\ Fills(a.c, g, r) /\ a.c.owner = r.owner
      /\ Kept(a.out, g, k, m, k + 1, Own(a)) /\ a.stop = -1 /\ a.right = 0
      /\ OnLeft(a.c, g, m, a.left) /\ a.out \in Seq(Entry)
  BY <1>0 DEF Ready, Running, Shape, Kept
<1>2. /\ a.c.start \in Int /\ fl.start \in Int /\ fl.end \in Int /\ fl.start <= fl.end /\ fl \in Entry
      /\ fl.start <= a.c.start => m = k /\ a.left = 0 /\ Own(a) = 0
      /\ Len(a.out) = m + Own(a)
  BY <1>0 DEF Ready
<1>3. /\ a.c.type # fl.type /\ a.c.start <= fl.end /\ fl.end <= a.c.end /\ fl.start < a.c.start
      /\ fl.start <= a.c.start
  BY <1>2 DEF StepLeft
<1>4. m = k /\ a.left = 0 /\ Own(a) = 0 /\ Len(a.out) = k
  BY <1>2, <1>3
<1>5. Append(a.out, fl) \in Seq(Entry)
  BY <1>1, <1>2, AppendProperties
<1>6. /\ x \in Loops /\ x.out = Append(a.out, fl) /\ x.c = a.c
      /\ x.added = (a.added \/ a.c.type = "F_UNLCK")
      /\ x.left = k + 1 /\ x.right = a.right /\ x.stop = a.stop
  <2>1. /\ a.at \in Nat /\ (a.added \/ a.c.type = "F_UNLCK") \in BOOLEAN /\ k + 1 \in Nat
        /\ a.right \in Nat /\ a.stop \in Int /\ a.wake \in SUBSET Tasks
    BY <1>1 DEF Loops
  <2>2. x = [out |-> Append(a.out, fl), c |-> a.c, at |-> a.at,
             added |-> (a.added \/ a.c.type = "F_UNLCK"), left |-> k + 1,
             right |-> a.right, stop |-> a.stop, wake |-> a.wake]
    BY <1>1, <1>4 DEF StepLeft, Loops
  <2> QED
    BY <1>1, <1>5, <2>1, <2>2 DEF Loops
<1>7. Own(x) = 0
  BY <1>4, <1>6 DEF Own
<1>8. Kept(x.out, g, k + 1, k + 1, (k + 1) + 1, Own(x))
  <2>1. Kept(a.out, g, k, k, k + 1, 0)
    BY <1>1, <1>4
  <2> QED
    BY <1>6, <1>7, <2>1, KeptFront
<1>9. OnLeft(x.c, g, k + 1, x.left)
  <2>1. \A i \in 1 .. k : Before(g[i], a.c)
    BY <1>1, <1>4 DEF OnLeft
  <2>2. \A i \in 1 .. k + 1 : i \in 1 .. k \/ i = k + 1
    OBVIOUS
  <2>3. \A i \in 1 .. k + 1 : i # k + 1 => Before(g[i], a.c)
    BY <2>1, <2>2
  <2> QED
    BY <1>3, <1>6, <2>3 DEF OnLeft
<1>10. Swallowed(x.c, g, k + 1, (k + 1) + 1)
  BY DEF Swallowed
<1>11. OwnIs(x.out, x.c, k + 1, Own(x))
  BY <1>7 DEF OwnIs
<1>12. k + 1 \in Nat /\ (Own(x) = 1 => FALSE) /\ x.right = 0 /\ x.stop = -1
  BY <1>1, <1>6, <1>7
<1>13. Inside(x.c) /\ Fills(x.c, g, r) /\ x.c.owner = r.owner /\ x \in Loops
  BY <1>1, <1>6
<1> QED
  BY <1>8, <1>9, <1>10, <1>11, <1>12, <1>13, RunningIs, Zenon

\* The next entry lies in the range of c.
LEMMA SwallowNext ==
    ASSUME NEW g, NEW k \in Nat, NEW m \in 0 .. k, NEW c, Swallowed(c, g, m, k + 1),
           c.start <= g[k + 1].start, g[k + 1].end <= c.end
    PROVE  Swallowed(c, g, m, (k + 1) + 1)
<1>1. \A i \in m + 1 .. ((k + 1) + 1) - 1 : i = k + 1 \/ i \in m + 1 .. (k + 1) - 1
  OBVIOUS
<1> QED
  BY <1>1 DEF Swallowed

LEMMA RunFrees ==
    ASSUME NEW g \in Seq(Entry), Good(g), NEW k \in Nat, k < Len(g), NEW a, NEW r \in Request,
           NEW m, Running(a, g, r, k, m), NEW fl, fl = g[k + 1], NEW x, StepFrees(a, fl, x)
    PROVE  Running(x, g, r, k + 1, m)
<1>0. Ready(a, g, k, m, fl)
  BY RunningReady
<1>1. /\ a \in Loops /\ a.c \in Request /\ Inside(a.c) /\ Fills(a.c, g, r) /\ a.c.owner = r.owner
      /\ Kept(a.out, g, k, m, k + 1, Own(a)) /\ a.stop = -1 /\ a.right = 0
      /\ OnLeft(a.c, g, m, a.left) /\ Swallowed(a.c, g, m, k + 1)
      /\ OwnIs(a.out, a.c, m, Own(a)) /\ (Own(a) = 1 => a.at = m + 1)
  BY <1>0 DEF Ready, Running, Shape
<1>2. /\ a.c.start \in Int /\ fl.start \in Int /\ fl \in Entry
      /\ m \in 0 .. k /\ m \in Nat
  BY <1>0 DEF Ready
<1>3. a.c.start <= fl.start /\ fl.end <= a.c.end /\ (a.added \/ a.c.type = "F_UNLCK")
  BY <1>2 DEF StepFrees
<1>6. /\ x \in Loops /\ x.out = a.out /\ x.c = a.c /\ x.added = TRUE /\ x.at = a.at
      /\ x.left = a.left /\ x.right = a.right /\ x.stop = a.stop
  <2>1. a.wake \cup fl.wait \in SUBSET Tasks
    BY <1>1, <1>2 DEF Loops, Entry
  <2> QED
    BY <1>1, <2>1 DEF StepFrees, Loops
<1>7. Own(x) = Own(a)
  BY <1>3, <1>6 DEF Own
<1>8. Kept(x.out, g, k + 1, m, (k + 1) + 1, Own(x))
  BY <1>1, <1>6, <1>7, KeptSkip
<1>10. Swallowed(x.c, g, m, (k + 1) + 1)
  BY <1>1, <1>2, <1>3, <1>6, SwallowNext
<1>12. k + 1 \in Nat /\ m < k + 1
  BY <1>2
<1> QED
  BY <1>1, <1>2, <1>6, <1>7, <1>8, <1>10, <1>12, RunningIs

LEMMA RunReplaces ==
    ASSUME NEW g \in Seq(Entry), Good(g), NEW k \in Nat, k < Len(g), NEW a, NEW r \in Request,
           NEW m, Running(a, g, r, k, m), NEW fl, fl = g[k + 1], NEW x, StepReplaces(a, fl, x)
    PROVE  Running(x, g, r, k + 1, m)
<1>0. Ready(a, g, k, m, fl)
  BY RunningReady
<1>1. /\ a \in Loops /\ a.c \in Request /\ Inside(a.c) /\ Fills(a.c, g, r) /\ a.c.owner = r.owner
      /\ Kept(a.out, g, k, m, k + 1, Own(a)) /\ a.stop = -1 /\ a.right = 0
      /\ OnLeft(a.c, g, m, a.left) /\ Swallowed(a.c, g, m, k + 1) /\ a.out \in Seq(Entry)
      /\ ~a.added => k + 1 = m + 1
  BY <1>0 DEF Ready, Running, Shape, Kept
<1>2. /\ a.c.start \in Int /\ fl.start \in Int /\ fl \in Entry
      /\ m \in 0 .. k /\ m \in Nat
  BY <1>0 DEF Ready
<1>3. a.c.start <= fl.start /\ fl.end <= a.c.end /\ ~a.added /\ a.c.type # "F_UNLCK"
  BY <1>2 DEF StepReplaces
<1>4. m = k /\ Own(a) = 0
  BY <1>1, <1>2, <1>3 DEF Own
<1>5. a.c \in Entry
  BY <1>1, <1>3 DEF Request, Entry
<1>50. Kept(a.out, g, k, k, k + 1, 0)
  BY <1>1, <1>4
<1>51. /\ Kept(Append(a.out, a.c), g, k + 1, k, (k + 1) + 1, 1)
       /\ Append(a.out, a.c)[k + 1] = a.c /\ Len(a.out) = k
  BY <1>5, <1>50, KeptOwn
<1>6. /\ x \in Loops /\ x.out = Append(a.out, a.c) /\ x.c = a.c /\ x.added = TRUE /\ x.at = k + 1
      /\ x.left = a.left /\ x.right = a.right /\ x.stop = a.stop
  <2>1. a.wake \cup fl.wait \in SUBSET Tasks
    BY <1>1, <1>2 DEF Loops, Entry
  <2>2. Append(a.out, a.c) \in Seq(Entry)
    BY <1>51 DEF Kept
  <2> QED
    <3>1. /\ k + 1 \in Nat /\ TRUE \in BOOLEAN /\ a.left \in Nat
          /\ a.right \in Nat /\ a.stop \in Int
      BY <1>1 DEF Loops
    <3>2. x = [out |-> Append(a.out, a.c), c |-> a.c, at |-> k + 1, added |-> TRUE, left |-> a.left,
               right |-> a.right, stop |-> a.stop, wake |-> a.wake \cup fl.wait]
      BY <1>1, <1>51 DEF StepReplaces, Loops
    <3> QED
      BY <1>1, <2>1, <2>2, <3>1, <3>2 DEF Loops
<1>7. Own(x) = 1
  BY <1>3, <1>6 DEF Own
<1>8. Kept(x.out, g, k + 1, m, (k + 1) + 1, Own(x))
  BY <1>4, <1>6, <1>7, <1>51
<1>9. OwnIs(x.out, x.c, m, Own(x))
  BY <1>4, <1>6, <1>51 DEF OwnIs
<1>10. Swallowed(x.c, g, m, (k + 1) + 1)
  BY <1>1, <1>2, <1>3, <1>6, SwallowNext
<1>12. k + 1 \in Nat /\ m < k + 1
  BY <1>2
<1> QED
  BY <1>1, <1>2, <1>4, <1>6, <1>7, <1>8, <1>9, <1>10, <1>12, RunningIs

LEMMA RunMerges ==
    ASSUME NEW g \in Seq(Entry), Good(g), NEW k \in Nat, k < Len(g), NEW a, NEW r \in Request,
           NEW m, Running(a, g, r, k, m), NEW fl, fl = g[k + 1], NEW x, StepMerges(a, fl, x)
    PROVE  Running(x, g, r, k + 1, m)
<1>0. Ready(a, g, k, m, fl)
  BY RunningReady
<1>1. /\ a \in Loops /\ a.stop = -1 /\ a.right = 0
      /\ Kept(a.out, g, k, m, k + 1, Own(a)) /\ a.out \in Seq(Entry)
      /\ ~a.added => k + 1 = m + 1
  BY DEF Running, Shape, Kept
<1>2. fl \in Entry /\ m \in 0 .. k /\ m \in Nat /\ fl.type \in Types
  BY <1>0 DEF Ready
<1>20. PICK c : c = Grown(a.c, fl)
  OBVIOUS
<1>3. a.c.type = fl.type /\ Adjacent(a.c, fl) /\ ~a.added /\ a.c.type # "F_UNLCK"
  BY <1>2 DEF StepMerges, Types
<1>30. /\ c \in Request /\ c.type = a.c.type /\ c.owner = r.owner /\ Inside(c)
       /\ Fills(c, g, r) /\ Swallowed(c, g, m, (k + 1) + 1) /\ OnLeft(c, g, m, a.left)
  <2>1. Swelled(Grown(a.c, fl), a, g, r, k, m)
    BY <1>3, GrownIs
  <2> QED
    BY <1>20, <2>1 DEF Swelled
<1>4. m = k /\ Own(a) = 0
  BY <1>1, <1>2, <1>3 DEF Own
<1>5. PICK e \in Entry : e = Sized(fl, c) /\ e.type = c.type /\ e.start = c.start /\ e.end = c.end
  <2>1. c.type = fl.type
    BY <1>3, <1>30
  <2>2. Sized(fl, c) \in Entry /\ Sized(fl, c).type = c.type /\ Sized(fl, c).start = c.start
        /\ Sized(fl, c).end = c.end
    BY <1>2, <1>30, <2>1 DEF Sized, Request, Entry
  <2> QED
    BY <2>2
<1>50. Kept(a.out, g, k, k, k + 1, 0)
  BY <1>1, <1>4
<1>51. /\ Kept(Append(a.out, e), g, k + 1, k, (k + 1) + 1, 1)
       /\ Append(a.out, e)[k + 1] = e /\ Len(a.out) = k
  BY <1>5, <1>50, KeptOwn
<1>6. /\ x \in Loops /\ x.out = Append(a.out, e) /\ x.c = c /\ x.added = TRUE /\ x.at = k + 1
      /\ x.left = a.left /\ x.right = a.right /\ x.stop = a.stop
  <2>2. Append(a.out, e) \in Seq(Entry)
    BY <1>51 DEF Kept
  <2>3. x = [a EXCEPT !.c = c, !.out = Append(a.out, e), !.at = k + 1, !.added = TRUE]
    BY <1>5, <1>20, <1>51 DEF StepMerges
  <2> QED
    <3>1. /\ k + 1 \in Nat /\ TRUE \in BOOLEAN /\ a.left \in Nat
          /\ a.right \in Nat /\ a.stop \in Int /\ a.wake \in SUBSET Tasks
      BY <1>1 DEF Loops
    <3>2. x = [out |-> Append(a.out, e), c |-> c, at |-> k + 1, added |-> TRUE, left |-> a.left,
               right |-> a.right, stop |-> a.stop, wake |-> a.wake]
      BY <1>1, <2>3 DEF Loops
    <3> QED
      BY <1>30, <2>2, <3>1, <3>2 DEF Loops
<1>7. Own(x) = 1
  BY <1>3, <1>6, <1>30 DEF Own
<1>8. Kept(x.out, g, k + 1, m, (k + 1) + 1, Own(x))
  BY <1>4, <1>6, <1>7, <1>51
<1>9. OwnIs(x.out, x.c, m, Own(x))
  BY <1>4, <1>5, <1>6, <1>51 DEF OwnIs
<1>12. k + 1 \in Nat /\ m < k + 1
  BY <1>2
<1> QED
  BY <1>1, <1>2, <1>4, <1>6, <1>7, <1>8, <1>9, <1>30, <1>12, RunningIs

LEMMA RunGrows ==
    ASSUME NEW g \in Seq(Entry), Good(g), NEW k \in Nat, k < Len(g), NEW a, NEW r \in Request,
           NEW m, Running(a, g, r, k, m), NEW fl, fl = g[k + 1], NEW x, StepGrows(a, fl, x)
    PROVE  Running(x, g, r, k + 1, m)
<1>0. Ready(a, g, k, m, fl)
  BY RunningReady
<1>1. /\ a \in Loops /\ a.stop = -1 /\ a.right = 0
      /\ Kept(a.out, g, k, m, k + 1, Own(a)) /\ a.out \in Seq(Entry)
      /\ OwnIs(a.out, a.c, m, Own(a)) /\ (Own(a) = 1 => a.at = m + 1)
  BY DEF Running, Shape, Kept
<1>2. fl \in Entry /\ m \in 0 .. k /\ m \in Nat /\ fl.type \in Types
  BY <1>0 DEF Ready
<1>20. PICK c : c = Grown(a.c, fl)
  OBVIOUS
<1>3. a.c.type = fl.type /\ Adjacent(a.c, fl) /\ a.added /\ a.c.type # "F_UNLCK"
  BY <1>2 DEF StepGrows, Types
<1>30. /\ c \in Request /\ c.type = a.c.type /\ c.owner = r.owner /\ Inside(c)
       /\ Fills(c, g, r) /\ Swallowed(c, g, m, (k + 1) + 1) /\ OnLeft(c, g, m, a.left)
  <2>1. Swelled(Grown(a.c, fl), a, g, r, k, m)
    BY <1>3, GrownIs
  <2> QED
    BY <1>20, <2>1 DEF Swelled
<1>4. Own(a) = 1 /\ a.at = m + 1
  BY <1>1, <1>3 DEF Own
<1>5. PICK e \in Entry : /\ e = Sized(a.out[m + 1], c) /\ e.type = c.type
                         /\ e.start = c.start /\ e.end = c.end
  <2>1. m + 1 \in 1 .. Len(a.out)
    BY <1>0, <1>2, <1>4 DEF Ready
  <2>2. PICK l \in Entry : l = a.out[m + 1]
    BY <1>1, <2>1, ElementOfSeq
  <2>3. l.type = c.type
    BY <1>1, <1>4, <1>30, <2>2 DEF OwnIs
  <2>4. Sized(l, c) \in Entry /\ Sized(l, c).type = c.type /\ Sized(l, c).start = c.start
        /\ Sized(l, c).end = c.end
    BY <1>30, <2>2, <2>3 DEF Sized, Request, Entry
  <2> QED
    BY <2>2, <2>4
<1>51. /\ Kept([a.out EXCEPT ![m + 1] = e], g, k + 1, m, (k + 1) + 1, 1)
       /\ [a.out EXCEPT ![m + 1] = e][m + 1] = e
  <2>1. Kept(a.out, g, k, m, k + 1, 1)
    BY <1>1, <1>4
  <2> QED
    BY <2>1, KeptGrow
<1>52. PICK l : l = [a.out EXCEPT ![m + 1] = e]
  OBVIOUS
<1>6. /\ x \in Loops /\ x.out = l /\ x.c = c /\ x.added = TRUE /\ x.at = m + 1
      /\ x.left = a.left /\ x.right = a.right /\ x.stop = a.stop
  <2>1. a.wake \cup fl.wait \in SUBSET Tasks
    BY <1>1, <1>2 DEF Loops, Entry
  <2>2. l \in Seq(Entry)
    BY <1>51, <1>52 DEF Kept
  <2>3. x = [a EXCEPT !.c = c, !.wake = a.wake \cup fl.wait, !.out = l]
    BY <1>4, <1>5, <1>20, <1>52 DEF StepGrows
  <2> QED
    BY <1>1, <1>3, <1>4, <1>30, <2>1, <2>2, <2>3 DEF Loops
<1>7. Own(x) = 1
  BY <1>3, <1>6, <1>30 DEF Own
<1>8. Kept(x.out, g, k + 1, m, (k + 1) + 1, Own(x))
  BY <1>6, <1>7, <1>51, <1>52
<1>9. OwnIs(x.out, x.c, m, Own(x))
  BY <1>5, <1>6, <1>51, <1>52 DEF OwnIs
<1>12. k + 1 \in Nat /\ m < k + 1
  BY <1>2
<1> QED
  BY <1>1, <1>2, <1>6, <1>7, <1>8, <1>9, <1>30, <1>12, RunningIs

LEMMA RunBreaks ==
    ASSUME NEW g \in Seq(Entry), Good(g), NEW k \in Nat, k < Len(g), NEW a, NEW r \in Request,
           NEW m, Running(a, g, r, k, m), NEW fl, fl = g[k + 1], NEW x, StepBreaks(a, fl, x)
    PROVE  Shape(x, g, r, k + 1, m, k + 1) /\ x.stop = m + Own(x)
<1>0. Ready(a, g, k, m, fl)
  BY RunningReady
<1>1. /\ a \in Loops /\ a.c \in Request /\ Inside(a.c) /\ Fills(a.c, g, r) /\ a.c.owner = r.owner
      /\ Kept(a.out, g, k, m, k + 1, Own(a)) /\ a.stop = -1 /\ a.right = 0
      /\ OwnIs(a.out, a.c, m, Own(a)) /\ (Own(a) = 1 => a.at = m + 1 /\ m + 1 < k + 1)
      /\ (~a.added => k + 1 = m + 1)
      /\ OnLeft(a.c, g, m, a.left) /\ Swallowed(a.c, g, m, k + 1) /\ a.out \in Seq(Entry)
  BY <1>0 DEF Ready, Running, Shape, Kept
<1>2. /\ a.c.start \in Int /\ a.c.end \in Int /\ a.c.start <= a.c.end /\ a.c.end < OFFSET_MAX
      /\ fl.start \in Int /\ fl.end \in Int /\ fl.start <= fl.end /\ fl \in Entry
      /\ m \in 0 .. k /\ m \in Nat /\ Own(a) \in 0 .. 1 /\ Len(a.out) = m + Own(a) /\ OFFSET_MAX \in Int
  BY <1>0, OffsetAssumption DEF Ready
<1>3. Before(a.c, fl) /\ a.c.start <= fl.start
  <2>1. CASE a.c.type = fl.type /\ ~Adjacent(a.c, fl) /\ ~(fl.end < a.c.start - 1)
    <3>1. fl.start > a.c.end + 1
      BY <1>2, <2>1 DEF Adjacent, off_t
    <3> QED
      BY <1>2, <3>1, SMTT(30) DEF Before
  <2>2. CASE a.c.type # fl.type /\ fl.start > a.c.end
    BY <1>2, <2>2 DEF Before
  <2> QED
    BY <2>1, <2>2 DEF StepBreaks
<1>5. Append(a.out, fl) \in Seq(Entry)
  BY <1>1, <1>2, AppendProperties
<1>6. /\ x \in Loops /\ x.out = Append(a.out, fl) /\ x.c = a.c /\ x.added = a.added /\ x.at = a.at
      /\ x.left = a.left /\ x.right = a.right /\ x.stop = Len(a.out)
  <2>1. Len(a.out) \in Int
    BY <1>2
  <2> QED
    BY <1>1, <1>5, <2>1 DEF StepBreaks, Loops
<1>7. Own(x) = Own(a)
  BY <1>6 DEF Own
<1>8. Kept(x.out, g, k + 1, m, k + 1, Own(x))
  BY <1>1, <1>6, <1>7, KeptBack
<1>9. OwnIs(x.out, x.c, m, Own(x))
  <2>1. ASSUME Own(a) = 1 PROVE x.out[m + 1] = a.out[m + 1]
    <3>1. m + 1 \in 1 .. Len(a.out)
      BY <1>2, <2>1
    <3> QED
      BY <1>1, <1>2, <1>6, <3>1, AppendProperties
  <2> QED
    BY <1>1, <1>6, <1>7, <2>1 DEF OwnIs
<1>10. OnRight(x.c, g, k + 1, k + 1, x.right # 0)
  <2>1. \A j \in k + 1 .. k + 1 : j = k + 1
    OBVIOUS
  <2> QED
    BY <1>1, <1>3, <1>6, <2>1 DEF OnRight
<1>11. Sides(x, g, k + 1, m, k + 1)
  BY <1>1, <1>3, <1>6 DEF Sides
<1>12. Shape(x, g, r, k + 1, m, k + 1)
  BY <1>1, <1>6, <1>7, <1>8, <1>9, <1>10, <1>11 DEF Shape
<1> QED
  BY <1>2, <1>6, <1>7, <1>12

LEMMA RunRight ==
    ASSUME NEW g \in Seq(Entry), Good(g), NEW k \in Nat, k < Len(g), NEW a, NEW r \in Request,
           NEW m, Running(a, g, r, k, m), NEW fl, fl = g[k + 1], NEW x, StepRight(a, fl, x)
    PROVE  Shape(x, g, r, k + 1, m, k + 1) /\ x.stop = m + Own(x)
<1>0. Ready(a, g, k, m, fl)
  BY RunningReady
<1>1. /\ a \in Loops /\ a.c \in Request /\ Inside(a.c) /\ Fills(a.c, g, r) /\ a.c.owner = r.owner
      /\ Kept(a.out, g, k, m, k + 1, Own(a)) /\ a.stop = -1 /\ a.right = 0
      /\ OwnIs(a.out, a.c, m, Own(a)) /\ (Own(a) = 1 => a.at = m + 1 /\ m + 1 < k + 1)
      /\ (~a.added => k + 1 = m + 1)
      /\ OnLeft(a.c, g, m, a.left) /\ Swallowed(a.c, g, m, k + 1) /\ a.out \in Seq(Entry)
  BY <1>0 DEF Ready, Running, Shape, Kept
<1>2. /\ a.c.start \in Int /\ a.c.end \in Int /\ a.c.start <= a.c.end /\ a.c.end < OFFSET_MAX
      /\ fl.start \in Int /\ fl.end \in Int /\ fl.start <= fl.end /\ fl \in Entry
      /\ m \in 0 .. k /\ m \in Nat /\ Own(a) \in 0 .. 1 /\ Len(a.out) = m + Own(a)
      /\ fl.start <= a.c.start => m = k /\ a.left = 0 /\ Own(a) = 0
  BY <1>0 DEF Ready
<1>3. a.c.type # fl.type /\ fl.start <= a.c.end /\ a.c.end < fl.end
  BY <1>2 DEF StepRight
<1>5. Append(a.out, fl) \in Seq(Entry)
  BY <1>1, <1>2, AppendProperties
<1>50. PICK left \in Nat : left = IF fl.start < a.c.start THEN m + Own(a) + 1 ELSE a.left
  BY <1>1, <1>2 DEF Loops
<1>6. /\ x \in Loops /\ x.out = Append(a.out, fl) /\ x.c = a.c /\ x.at = a.at
      /\ x.added = (a.added \/ a.c.type = "F_UNLCK")
      /\ x.left = left /\ x.right = m + Own(a) + 1 /\ x.stop = m + Own(a)
  <2>1. /\ a.at \in Nat /\ (a.added \/ a.c.type = "F_UNLCK") \in BOOLEAN
        /\ m + Own(a) + 1 \in Nat /\ m + Own(a) \in Int /\ a.wake \in SUBSET Tasks
    BY <1>1, <1>2 DEF Loops
  <2>2. x = [out |-> Append(a.out, fl), c |-> a.c, at |-> a.at,
             added |-> (a.added \/ a.c.type = "F_UNLCK"), left |-> left,
             right |-> m + Own(a) + 1, stop |-> m + Own(a), wake |-> a.wake]
    BY <1>1, <1>2, <1>50 DEF StepRight, Loops
  <2> QED
    BY <1>1, <1>5, <2>1, <2>2 DEF Loops
<1>7. Own(x) = Own(a) /\ (~x.added => ~a.added)
  BY <1>6 DEF Own
<1>8. Kept(x.out, g, k + 1, m, k + 1, Own(x))
  BY <1>1, <1>6, <1>7, KeptBack
<1>9. OwnIs(x.out, x.c, m, Own(x))
  <2>1. ASSUME Own(a) = 1 PROVE x.out[m + 1] = a.out[m + 1]
    <3>1. m + 1 \in 1 .. Len(a.out)
      BY <1>2, <2>1
    <3> QED
      BY <1>1, <1>2, <1>6, <3>1, AppendProperties
  <2> QED
    BY <1>1, <1>6, <1>7, <2>1 DEF OwnIs
<1>10. OnRight(x.c, g, k + 1, k + 1, x.right # 0)
  <2>1. \A j \in k + 1 .. k + 1 : j = k + 1
    OBVIOUS
  <2>2. x.right # 0
    BY <1>2, <1>6
  <2>3. OnRight(a.c, g, k + 1, k + 1, TRUE)
    BY <1>3, <2>1 DEF OnRight
  <2>4. (x.right # 0) = TRUE
    BY <2>2
  <2> QED
    BY <1>6, <2>3, <2>4
<1>11. Sides(x, g, k + 1, m, k + 1)
  <2>1. CASE fl.start < a.c.start
    <3>1. m = k /\ a.left = 0 /\ Own(a) = 0
      BY <1>2, <2>1
    <3>2. x.left = x.right /\ x.right # 0 /\ Own(x) = 0
      BY <1>2, <1>6, <1>7, <1>50, <2>1, <3>1
    <3> QED
      BY <1>1, <1>6, <2>1, <3>1, <3>2 DEF Sides
  <2>2. CASE ~(fl.start < a.c.start)
    <3>1. a.c.start <= fl.start /\ x.left = a.left
      BY <1>2, <1>6, <1>50, <2>2
    <3> QED
      BY <1>1, <1>6, <3>1 DEF Sides
  <2> QED
    BY <2>1, <2>2
<1>12. Shape(x, g, r, k + 1, m, k + 1)
  BY <1>1, <1>6, <1>7, <1>8, <1>9, <1>10, <1>11 DEF Shape
<1> QED
  BY <1>6, <1>7, <1>12

\* After a break the entries are passed as they are.
LEMMA RestKeeps ==
    ASSUME NEW g \in Seq(Entry), Good(g), NEW k \in Nat, k < Len(g), NEW a, NEW r \in Request,
           NEW m, NEW h, Shape(a, g, r, k, m, h), h <= k, a.stop = m + Own(a),
           NEW fl, fl = g[k + 1], NEW x, StepKeeps(a, fl, x)
    PROVE  Shape(x, g, r, k + 1, m, h) /\ x.stop = m + Own(x)
<1>1. /\ a \in Loops /\ a.c \in Request /\ Inside(a.c) /\ Fills(a.c, g, r) /\ a.c.owner = r.owner
      /\ Kept(a.out, g, k, m, h, Own(a)) /\ a.right \in {0, m + Own(a) + 1}
      /\ OwnIs(a.out, a.c, m, Own(a)) /\ (Own(a) = 1 => a.at = m + 1 /\ m + 1 < h)
      /\ (~a.added => h = m + 1) /\ OnRight(a.c, g, k, h, a.right # 0)
      /\ Swallowed(a.c, g, m, h) /\ a.out \in Seq(Entry) /\ Sides(a, g, k, m, h)
  BY DEF Shape, Kept, Loops
<1>2. /\ m \in 0 .. k /\ h \in m + 1 .. k + 1 /\ Own(a) \in 0 .. 1 /\ Len(a.out) = m + Own(a) + (k + 1 - h)
      /\ h \in 1 .. k /\ k + 1 \in 1 .. Len(g) /\ h \in 1 .. Len(g) /\ h < k + 1 /\ Len(a.out) \in Nat
  BY <1>1 DEF Kept
<1>3. fl \in Entry /\ Inside(fl) /\ Inside(g[h]) /\ Before(g[h], fl)
  <2>1. fl \in Entry
    BY <1>2, ElementOfSeq
  <2> QED
    BY <1>2, <2>1 DEF Good
<1>4. Before(a.c, fl)
  <2>1. /\ g[h].start \in Int /\ g[h].end \in Int /\ g[h].start <= g[h].end /\ g[h].end < fl.start
        /\ fl.start \in Int /\ a.c.end \in Int
    BY <1>1, <1>3 DEF Inside, Before
  <2>2. a.c.end < g[h].start \/ a.c.end < g[h].end
    <3>1. h \in h .. k
      BY <1>2
    <3> QED
      BY <1>1, <3>1 DEF OnRight, Before
  <2> QED
    BY <2>1, <2>2, SMTT(30) DEF Before
<1>5. Append(a.out, fl) \in Seq(Entry)
  BY <1>1, <1>3, AppendProperties
<1>6. /\ x \in Loops /\ x.out = Append(a.out, fl) /\ x.c = a.c /\ x.added = a.added /\ x.at = a.at
      /\ x.left = a.left /\ x.right = a.right /\ x.stop = a.stop
  BY <1>1, <1>5 DEF StepKeeps, Loops
<1>7. Own(x) = Own(a)
  BY <1>6 DEF Own
<1>8. Kept(x.out, g, k + 1, m, h, Own(x))
  BY <1>1, <1>6, <1>7, KeptBack
<1>9. OwnIs(x.out, x.c, m, Own(x))
  <2>1. ASSUME Own(a) = 1 PROVE x.out[m + 1] = a.out[m + 1]
    <3>1. m + 1 \in 1 .. Len(a.out)
      BY <1>2, <2>1
    <3> QED
      BY <1>1, <1>3, <1>6, <3>1, AppendProperties
  <2> QED
    BY <1>1, <1>6, <1>7, <2>1 DEF OwnIs
<1>10. OnRight(x.c, g, k + 1, h, x.right # 0)
  <2>1. \A j \in h .. k + 1 : j \in h .. k \/ j = k + 1
    BY <1>2
  <2>2. h <= k + 1
    BY <1>2
  <2> QED
    BY <1>1, <1>4, <1>6, <2>1, <2>2 DEF OnRight
<1>11. Sides(x, g, k + 1, m, h)
  BY <1>1, <1>6, <1>7 DEF Sides
<1>12. Shape(x, g, r, k + 1, m, h)
  BY <1>1, <1>6, <1>7, <1>8, <1>9, <1>10, <1>11 DEF Shape
<1> QED
  BY <1>6, <1>7, <1>12

LEMMA StepShaped ==
    ASSUME NEW g \in Seq(Entry), Good(g), NEW k \in Nat, k < Len(g), NEW a, NEW r \in Request,
           Shaped(a, g, r, k)
    PROVE  Shaped(Step(a, g[k + 1]), g, r, k + 1)
<1>0. PICK m, h : /\ Shape(a, g, r, k, m, h)
                  /\ \/ a.stop = -1 /\ h = k + 1 /\ a.right = 0
                     \/ a.stop = m + Own(a) /\ h <= k
  BY DEF Shaped
<1>1. PICK fl \in Entry : fl = g[k + 1]
  <2>1. k + 1 \in 1 .. Len(g)
    OBVIOUS
  <2> QED
    BY <2>1, ElementOfSeq
<1>2. PICK x : x = Step(a, fl)
  OBVIOUS
<1> SUFFICES Shaped(x, g, r, k + 1)
  BY <1>1, <1>2
<1>3. a \in Loops
  BY <1>0 DEF Shape
<1>4. CASE a.stop = -1 /\ h = k + 1 /\ a.right = 0
  <2>0. Running(a, g, r, k, m)
    BY <1>0, <1>4 DEF Running
  <2>1. ASSUME NEW n, Running(x, g, r, k + 1, n) PROVE Shaped(x, g, r, k + 1)
    BY <2>1 DEF Shaped, Running
  <2>2. ASSUME Shape(x, g, r, k + 1, m, k + 1) /\ x.stop = m + Own(x) PROVE Shaped(x, g, r, k + 1)
    BY <2>2 DEF Shaped
  <2>3. CASE StepKeeps(a, fl, x)
    <3>1. Running(x, g, r, k + 1, k + 1)
      BY <1>1, <2>0, <2>3, RunKeeps
    <3> QED
      BY <2>1, <3>1
  <2>4. CASE StepBreaks(a, fl, x)
    <3>1. Shape(x, g, r, k + 1, m, k + 1) /\ x.stop = m + Own(x)
      BY <1>1, <2>0, <2>4, RunBreaks
    <3> QED
      BY <2>2, <3>1
  <2>5. CASE StepGrows(a, fl, x)
    <3>1. Running(x, g, r, k + 1, m)
      BY <1>1, <2>0, <2>5, RunGrows
    <3> QED
      BY <2>1, <3>1
  <2>6. CASE StepMerges(a, fl, x)
    <3>1. Running(x, g, r, k + 1, m)
      BY <1>1, <2>0, <2>6, RunMerges
    <3> QED
      BY <2>1, <3>1
  <2>7. CASE StepRight(a, fl, x)
    <3>1. Shape(x, g, r, k + 1, m, k + 1) /\ x.stop = m + Own(x)
      BY <1>1, <2>0, <2>7, RunRight
    <3> QED
      BY <2>2, <3>1
  <2>8. CASE StepLeft(a, fl, x)
    <3>1. Running(x, g, r, k + 1, k + 1)
      BY <1>1, <2>0, <2>8, RunLeft
    <3> QED
      BY <2>1, <3>1
  <2>9. CASE StepFrees(a, fl, x)
    <3>1. Running(x, g, r, k + 1, m)
      BY <1>1, <2>0, <2>9, RunFrees
    <3> QED
      BY <2>1, <3>1
  <2>10. CASE StepReplaces(a, fl, x)
    <3>1. Running(x, g, r, k + 1, m)
      BY <1>1, <2>0, <2>10, RunReplaces
    <3> QED
      BY <2>1, <3>1
  <2> QED
    BY <1>2, <1>3, <2>3, <2>4, <2>5, <2>6, <2>7, <2>8, <2>9, <2>10, StepCases
<1>5. CASE a.stop = m + Own(a) /\ h <= k
  <2>1. a.stop >= 0
    <3>1. m \in 0 .. k /\ Own(a) \in 0 .. 1
      BY <1>0 DEF Shape, Kept
    <3> QED
      BY <1>5, <3>1
  <2>2. StepKeeps(a, fl, x)
    BY <1>2, <2>1 DEF Step, Keep, StepKeeps
  <2>3. Shape(x, g, r, k + 1, m, h) /\ x.stop = m + Own(x)
    BY <1>0, <1>1, <1>5, <2>2, RestKeeps
  <2>4. h <= k + 1
    <3>1. h \in m + 1 .. k + 1 /\ m \in 0 .. k
      BY <1>0 DEF Shape, Kept
    <3> QED
      BY <3>1
  <2> QED
    BY <2>3, <2>4 DEF Shaped
<1> QED
  BY <1>0, <1>4, <1>5

\* What the loop makes of a group in order.
LEMMA LoopShaped ==
    ASSUME NEW g \in Seq(Entry), Good(g), NEW r \in Request, Inside(r)
    PROVE  Shaped(Loop(g, r), g, r, Len(g))
<1> DEFINE P == {p \in Nat \X Loops : Shaped(p[2], g, r, p[1])}
<1>0. Len(g) \in Nat
  OBVIOUS
<1>1. Start(r) \in Loops
  BY EmptySeq DEF Start, Loops
<1>2. Shaped(Start(r), g, r, 0)
  <2>1. PICK a : a = Start(r)
    OBVIOUS
  <2>2. /\ a.out = <<>> /\ a.c = r /\ a.added = FALSE /\ a.at = 0 /\ a.left = 0 /\ a.right = 0
        /\ a.stop = -1 /\ a \in Loops
    BY <1>1, <2>1 DEF Start
  <2>3. Own(a) = 0
    BY <2>2 DEF Own
  <2>4. Kept(a.out, g, 0, 0, 0 + 1, Own(a))
    <3>1. <<>> \in Seq(Entry) /\ Len(<<>>) = 0
      BY EmptySeq
    <3> QED
      BY <2>2, <2>3, <3>1 DEF Kept
  <2>5. Fills(a.c, g, r)
    BY <2>2 DEF Fills, Inside
  <2>6. OwnIs(a.out, a.c, 0, Own(a)) /\ (Own(a) = 1 => a.at = 0 + 1 /\ 0 < 0)
    BY <2>3 DEF OwnIs
  <2>7. Swallowed(a.c, g, 0, 0 + 1) /\ OnLeft(a.c, g, 0, a.left)
    BY <2>2 DEF Swallowed, OnLeft
  <2>8. Inside(a.c) /\ a.c.owner = r.owner
    BY <2>2
  <2>9. Running(a, g, r, 0, 0)
    BY <2>2, <2>4, <2>5, <2>6, <2>7, <2>8, RunningIs
  <2> QED
    BY <2>1, <2>2, <2>9 DEF Running, Shaped
<1>3. <<0, Start(r)>> \in P
  BY <1>1, <1>2
<1>4. Closed(P, g)
  <2> SUFFICES ASSUME NEW k \in Nat, k < Len(g), NEW a, <<k, a>> \in P
               PROVE  <<k + 1, Step(a, g[k + 1])>> \in P
    BY DEF Closed
  <2>1. Shaped(a, g, r, k)
    OBVIOUS
  <2>2. Shaped(Step(a, g[k + 1]), g, r, k + 1)
    BY <2>1, StepShaped
  <2>3. Step(a, g[k + 1]) \in Loops /\ k + 1 \in Nat
    BY <2>2 DEF Shaped, Shape
  <2> QED
    BY <2>2, <2>3
<1> HIDE DEF P
<1>5. <<Len(g), Loop(g, r)>> \in P
  BY <1>0, <1>3, <1>4, LoopInduction
<1> QED
  BY <1>5 DEF P

-----------------------------------------------------------------------------
(* After the loop: the entries that stick out are cut.                     *)

LEMMA EditedFields ==
    ASSUME NEW e \in Entry, NEW v \in Int
    PROVE  /\ [e EXCEPT !.start = v].start = v /\ [e EXCEPT !.start = v].type = e.type
           /\ [e EXCEPT !.start = v].end = e.end
           /\ [e EXCEPT !.end = v].end = v /\ [e EXCEPT !.end = v].type = e.type
           /\ [e EXCEPT !.end = v].start = e.start
           /\ [e EXCEPT !.end = v, !.wait = {}].end = v
           /\ [e EXCEPT !.end = v, !.wait = {}].type = e.type
           /\ [e EXCEPT !.end = v, !.wait = {}].start = e.start
  BY DEF Entry

\* The facts of a shape when the whole group is done.
Ended(a, g, m, h) ==
    /\ a \in Loops /\ Len(g) \in Nat /\ m \in 0 .. Len(g) /\ h \in m + 1 .. Len(g) + 1 /\ Own(a) \in 0 .. 1
    /\ a.c.start \in Int /\ a.c.end \in Int /\ a.c.start <= a.c.end
    /\ Len(a.out) = m + Own(a) + (Len(g) + 1 - h) /\ Len(a.out) \in Nat
    /\ \A i \in 1 .. Len(g) : g[i] \in Entry /\ g[i].start \in Int /\ g[i].end \in Int /\ g[i].start <= g[i].end
    /\ \A i \in 1 .. m : a.out[i] = g[i]
    /\ \A j \in h .. Len(g) : a.out[j + (m + Own(a) + 1 - h)] = g[j]

LEMMA ShapeEnded ==
    ASSUME NEW g \in Seq(Entry), Good(g), NEW a, NEW r, NEW m, NEW h, Shape(a, g, r, Len(g), m, h)
    PROVE  Ended(a, g, m, h)
<1>1. a \in Loops /\ Inside(a.c) /\ Kept(a.out, g, Len(g), m, h, Own(a))
  BY DEF Shape
<1>2. \A i \in 1 .. Len(g) : g[i] \in Entry /\ g[i].start \in Int /\ g[i].end \in Int /\ g[i].start <= g[i].end
  BY ElementOfSeq DEF Good, Inside
<1>3. Len(g) \in Nat
  OBVIOUS
<1> QED
  BY <1>1, <1>2, <1>3 DEF Ended, Kept, Inside

LEMMA CutFront ==
    ASSUME NEW g \in Seq(Entry), Good(g), NEW a, NEW r, NEW m, NEW h, Shape(a, g, r, Len(g), m, h),
           NEW X \in Seq(Entry), Len(X) = m, \A i \in 1 .. m : X[i] = CutEntry(a, i), ~Split(a)
    PROVE  FrontOf(X, g, a.c, m)
<1>0. Ended(a, g, m, h)
  BY ShapeEnded
<1>1. /\ a.right \in {0, m + Own(a) + 1} /\ OnRight(a.c, g, Len(g), h, a.right # 0)
      /\ Swallowed(a.c, g, m, h) /\ OnLeft(a.c, g, m, a.left) /\ (h <= Len(g) => a.c.start <= g[h].start)
  BY DEF Shape, Sides, Split
<1>2. /\ Len(g) \in Nat /\ m \in 0 .. Len(g) /\ m \in Int /\ h \in m + 1 .. Len(g) + 1 /\ Own(a) \in 0 .. 1
      /\ a.c.start \in Int /\ a.c.end \in Int /\ a.c.start <= a.c.end
  BY <1>0 DEF Ended
<1>3. ASSUME NEW i \in 1 .. m
      PROVE  /\ X[i].type = g[i].type /\ X[i].start = g[i].start /\ g[i].start < a.c.start
             /\ \/ X[i].end = g[i].end /\ Before(g[i], a.c)
                \/ X[i].end = a.c.start - 1 /\ a.c.start <= g[i].end /\ g[i].type # a.c.type
  <2>1. i \in 1 .. Len(g) /\ i # a.right /\ i \in Int /\ i # 0
    BY <1>1, <1>2
  <2>2. PICK e \in Entry : e = g[i] /\ e.start \in Int /\ e.end \in Int /\ e.start <= e.end /\ a.out[i] = e
    BY <1>0, <2>1 DEF Ended
  <2>3. CASE i = a.left
    <3>1. i = m /\ e.type # a.c.type /\ e.start < a.c.start /\ a.c.start <= e.end
      BY <1>1, <2>1, <2>2, <2>3 DEF OnLeft
    <3>2. X[i] = [e EXCEPT !.end = a.c.start - 1]
      BY <2>1, <2>2, <2>3 DEF CutEntry
    <3>3. X[i].type = e.type /\ X[i].start = e.start /\ X[i].end = a.c.start - 1
      <4>1. a.c.start - 1 \in Int
        BY <1>2
      <4> QED
        BY <3>2, <4>1, EditedFields
    <3> QED
      BY <2>2, <3>1, <3>3
  <2>4. CASE i # a.left
    <3>1. X[i] = e
      BY <2>1, <2>2, <2>4 DEF CutEntry
    <3>2. Before(e, a.c)
      BY <1>1, <2>2, <2>4 DEF OnLeft
    <3>3. e.start < a.c.start
      BY <1>2, <2>2, <3>2 DEF Before
    <3> QED
      BY <2>2, <3>1, <3>2, <3>3
  <2> QED
    BY <2>3, <2>4
<1>4. ASSUME NEW i \in m + 1 .. Len(g) PROVE a.c.start <= g[i].start
  <2>1. i \in 1 .. Len(g) /\ i \in Int
    BY <1>2
  <2>2. CASE i < h
    <3>1. i \in m + 1 .. h - 1
      BY <1>2, <2>2
    <3> QED
      BY <1>1, <3>1 DEF Swallowed
  <2>3. CASE i = h
    BY <1>1, <1>2, <2>1, <2>3
  <2>4. CASE i > h
    <3>1. i \in h .. Len(g) /\ i # h
      BY <1>2, <2>1, <2>4
    <3>2. a.c.end < g[i].start
      BY <1>1, <3>1 DEF OnRight, Before
    <3>3. g[i].start \in Int
      BY <1>0, <2>1 DEF Ended
    <3> QED
      BY <1>2, <3>2, <3>3
  <2> QED
    BY <1>2, <2>1, <2>2, <2>3, <2>4
<1> QED
  BY <1>2, <1>3, <1>4 DEF FrontOf

LEMMA CutSplit ==
    ASSUME NEW g \in Seq(Entry), Good(g), NEW a, NEW r, NEW m, NEW h, Shape(a, g, r, Len(g), m, h),
           NEW X \in Seq(Entry), Len(X) = m, \A i \in 1 .. m : X[i] = CutEntry(a, i), Split(a)
    PROVE  /\ Own(a) = 0 /\ h = m + 1 /\ Part(a) \in Seq(Entry) /\ Len(Part(a)) = 1
           /\ FrontOf(X \o Part(a), g, a.c, m + 1)
<1>0. Ended(a, g, m, h)
  BY ShapeEnded
<1>00. /\ a.right \in {0, m + Own(a) + 1} /\ a.right # 0 /\ a.left = a.right
       /\ OnRight(a.c, g, Len(g), h, a.right # 0) /\ Sides(a, g, Len(g), m, h)
  BY DEF Shape, Split
<1>2. /\ Len(g) \in Nat /\ m \in 0 .. Len(g) /\ m \in Int /\ h \in m + 1 .. Len(g) + 1 /\ Own(a) \in 0 .. 1
      /\ a.c.start \in Int /\ a.c.end \in Int /\ a.c.start <= a.c.end
  BY <1>0 DEF Ended
<1>1. /\ Own(a) = 0 /\ h = m + 1 /\ g[h].start < a.c.start /\ OnLeft(a.c, g, m, 0)
  <2>1. ~OnLeft(a.c, g, m, a.left)
    BY <1>00, <1>2 DEF OnLeft
  <2> QED
    BY <1>00, <2>1 DEF Sides
<1>3. /\ a.right = m + 1 /\ a.left = m + 1 /\ h <= Len(g) /\ h \in 1 .. Len(g) /\ h \in h .. Len(g)
      /\ g[h].type # a.c.type /\ a.c.end < g[h].end
  BY <1>00, <1>1, <1>2 DEF OnRight
<1>4. PICK e \in Entry : e = g[h] /\ e.start \in Int /\ e.end \in Int /\ a.out[m + 1] = e
  <2>1. h + (m + Own(a) + 1 - h) = m + 1
    BY <1>1, <1>2
  <2>2. a.out[h + (m + Own(a) + 1 - h)] = g[h]
    BY <1>0, <1>3 DEF Ended
  <2>3. g[h] \in Entry /\ g[h].start \in Int /\ g[h].end \in Int
    BY <1>0, <1>3 DEF Ended
  <2> QED
    BY <2>1, <2>2, <2>3
<1>5. PICK p \in Entry : /\ Part(a) = <<p>> /\ p.type = e.type /\ p.start = e.start /\ p.end = a.c.start - 1
  <2>1. a.c.start - 1 \in Int
    BY <1>2
  <2>2. PICK q \in Entry : q = [e EXCEPT !.end = a.c.start - 1, !.wait = {}]
    BY <2>1, EditEntry
  <2>3. q.type = e.type /\ q.start = e.start /\ q.end = a.c.start - 1
    BY <2>1, <2>2, EditedFields
  <2>4. Part(a) = <<q>>
    BY <1>3, <1>4, <2>2 DEF Part
  <2> QED
    BY <2>3, <2>4
<1>6. PICK P \in Seq(Entry) : P = Part(a) /\ Len(P) = 1 /\ P[1] = p
  <2>1. <<p>> \in Seq(Entry) /\ Len(<<p>>) = 1 /\ <<p>>[1] = p
    OBVIOUS
  <2> QED
    BY <1>5, <2>1
<1>7. PICK A : A = X \o P
  OBVIOUS
<1>8. /\ A \in Seq(Entry) /\ Len(A) = m + 1
      /\ \A i \in 1 .. m : A[i] = X[i]
      /\ A[m + 1] = p
  <2>1. /\ A \in Seq(Entry) /\ Len(A) = Len(X) + Len(P)
        /\ \A i \in 1 .. Len(X) : A[i] = X[i]
        /\ \A i \in 1 .. Len(P) : A[Len(X) + i] = P[i]
    <3>1. /\ X \o P \in Seq(Entry) /\ Len(X \o P) = Len(X) + Len(P)
          /\ \A i \in 1 .. Len(X) : (X \o P)[i] = X[i] /\ i \in 1 .. Len(X) + Len(P)
          /\ \A i \in 1 .. Len(P) : (X \o P)[Len(X) + i] = P[i] /\ Len(X) + i \in 1 .. Len(X) + Len(P)
      BY Joined, Zenon
    <3> QED
      BY <1>7, <3>1, Zenon
  <2>2. 1 \in 1 .. Len(P)
    BY <1>6
  <2> QED
    BY <1>6, <2>1, <2>2
<1>9. ASSUME NEW i \in 1 .. m + 1
      PROVE  /\ A[i].type = g[i].type /\ A[i].start = g[i].start /\ g[i].start < a.c.start
             /\ \/ A[i].end = g[i].end /\ Before(g[i], a.c)
                \/ A[i].end = a.c.start - 1 /\ a.c.start <= g[i].end /\ g[i].type # a.c.type
  <2>1. CASE i = m + 1
    BY <1>1, <1>2, <1>3, <1>4, <1>5, <1>8, <2>1
  <2>2. CASE i # m + 1
    <3>1. i \in 1 .. m /\ i \in 1 .. Len(g) /\ i # a.right /\ i # a.left /\ i # 0
      BY <1>2, <1>3, <2>2
    <3>2. A[i] = g[i] /\ g[i].start \in Int /\ g[i].end \in Int /\ g[i].start <= g[i].end
      BY <1>0, <1>8, <3>1 DEF CutEntry, Ended
    <3>3. Before(g[i], a.c)
      BY <1>1, <3>1 DEF OnLeft
    <3>4. g[i].start < a.c.start
      BY <1>2, <3>2, <3>3 DEF Before
    <3> QED
      BY <3>2, <3>3, <3>4
  <2> QED
    BY <2>1, <2>2
<1>10. ASSUME NEW i \in (m + 1) + 1 .. Len(g) PROVE a.c.start <= g[i].start
  <2>1. i \in h .. Len(g) /\ i # h /\ i \in 1 .. Len(g)
    BY <1>1, <1>2
  <2>2. a.c.end < g[i].start
    BY <1>00, <2>1 DEF OnRight, Before
  <2>3. g[i].start \in Int
    BY <1>0, <2>1 DEF Ended
  <2> QED
    BY <1>2, <2>2, <2>3
<1>11. m + 1 \in 0 .. Len(g)
  BY <1>1, <1>2, <1>3
<1>12. FrontOf(A, g, a.c, m + 1)
  BY <1>8, <1>9, <1>10, <1>11 DEF FrontOf
<1> QED
  BY <1>1, <1>6, <1>7, <1>12

LEMMA CutBack ==
    ASSUME NEW g \in Seq(Entry), Good(g), NEW a, NEW r, NEW m, NEW h, Shape(a, g, r, Len(g), m, h),
           NEW Y \in Seq(Entry), Len(Y) = Len(g) + 1 - h,
           \A j \in 1 .. Len(Y) : Y[j] = CutEntry(a, m + Own(a) + j)
    PROVE  BackOf(Y, g, a.c, h)
<1>0. Ended(a, g, m, h)
  BY ShapeEnded
<1>1. /\ a.right \in {0, m + Own(a) + 1} /\ OnRight(a.c, g, Len(g), h, a.right # 0)
      /\ Swallowed(a.c, g, m, h) /\ Sides(a, g, Len(g), m, h)
  BY DEF Shape
<1>2. /\ Len(g) \in Nat /\ m \in 0 .. Len(g) /\ m \in Int /\ h \in m + 1 .. Len(g) + 1 /\ Own(a) \in 0 .. 1
      /\ a.c.start \in Int /\ a.c.end \in Int /\ a.c.start <= a.c.end
  BY <1>0 DEF Ended
<1>20. (OnLeft(a.c, g, m, a.left) \/ OnLeft(a.c, g, m, 0)) /\ a.left \in {0, m, a.right}
  BY <1>1 DEF Sides, OnLeft
<1>3. ASSUME NEW j \in 1 .. Len(g) + 1 - h, NEW n, n = h + j - 1
      PROVE  /\ Y[j].type = g[n].type /\ Y[j].end = g[n].end /\ a.c.end < g[n].end
             /\ \/ Y[j].start = g[n].start /\ Before(a.c, g[n])
                \/ Y[j].start = a.c.end + 1 /\ g[n].start <= a.c.end /\ g[n].type # a.c.type
  <2>1. PICK q : q = m + Own(a) + j
    OBVIOUS
  <2>2. /\ n \in h .. Len(g) /\ n \in 1 .. Len(g) /\ q = n + (m + Own(a) + 1 - h) /\ q \in Int
        /\ q # 0 /\ q # m /\ (j = 1 <=> q = m + Own(a) + 1) /\ (j = 1 <=> n = h)
    <3>1. PICK w \in 0 .. 1 : w = Own(a)
      BY <1>2
    <3>2. /\ h \in Int /\ n \in Int /\ j \in Int /\ w \in Int /\ 1 <= h /\ 1 <= j /\ 0 <= m
          /\ j <= Len(g) + 1 - h /\ 0 <= w /\ n = h + j - 1 /\ q = m + w + j
      BY <1>2, <1>3, <2>1, <3>1
    <3>3. n \in h .. Len(g) /\ n \in 1 .. Len(g)
      BY <1>2, <3>2
    <3>4. q = n + (m + w + 1 - h) /\ q \in Int /\ q # 0 /\ q # m
      BY <1>2, <3>2
    <3>5. (j = 1 <=> q = m + w + 1) /\ (j = 1 <=> n = h)
      BY <1>2, <3>2
    <3> QED
      BY <3>1, <3>3, <3>4, <3>5
  <2>3. PICK e \in Entry : e = g[n] /\ e.start \in Int /\ e.end \in Int /\ e.start <= e.end /\ a.out[q] = e
    BY <1>0, <2>2 DEF Ended
  <2>4. Y[j] = CutEntry(a, q)
    BY <2>1
  <2>5. CASE q = a.right
    <3>1. n = h /\ a.right # 0
      BY <1>1, <2>2, <2>5
    <3>2. e.type # a.c.type /\ e.start <= a.c.end /\ a.c.end < e.end
      BY <1>1, <2>3, <3>1 DEF OnRight
    <3>3. Y[j] = [e EXCEPT !.start = a.c.end + 1]
      BY <2>3, <2>4, <2>5 DEF CutEntry
    <3>4. Y[j].type = e.type /\ Y[j].end = e.end /\ Y[j].start = a.c.end + 1
      <4>1. a.c.end + 1 \in Int
        BY <1>2
      <4> QED
        BY <3>3, <4>1, EditedFields
    <3> QED
      BY <2>3, <3>2, <3>4
  <2>6. CASE q # a.right
    <3>1. q # a.left
      BY <1>20, <2>2, <2>6
    <3>2. Y[j] = e
      BY <2>3, <2>4, <2>6, <3>1 DEF CutEntry
    <3>3. ~(n = h /\ a.right # 0)
      BY <1>1, <2>2, <2>6
    <3>4. Before(a.c, e)
      BY <1>1, <2>2, <2>3, <3>3 DEF OnRight
    <3>5. a.c.end < e.end
      BY <1>2, <2>3, <3>4 DEF Before
    <3> QED
      BY <2>3, <3>2, <3>4, <3>5
  <2> QED
    BY <2>5, <2>6
<1>4. ASSUME NEW i \in 1 .. h - 1 PROVE g[i].end <= a.c.end
  <2>0. i \in 1 .. Len(g)
    BY <1>2
  <2>00. g[i].end \in Int
    BY <1>0, <2>0 DEF Ended
  <2>1. CASE i \in m + 1 .. h - 1
    BY <1>1, <2>1 DEF Swallowed
  <2>2. CASE ~(i \in m + 1 .. h - 1)
    <3>1. i \in 1 .. m
      BY <1>2, <2>2
    <3>2. Before(g[i], a.c) \/ g[i].end <= a.c.end
      BY <1>20, <3>1 DEF OnLeft
    <3> QED
      BY <1>2, <2>00, <3>2 DEF Before
  <2> QED
    BY <2>1, <2>2
<1>5. h \in 1 .. Len(g) + 1
  BY <1>2
<1> QED
  BY <1>3, <1>4, <1>5 DEF BackOf

\* c may have grown over bytes that had its type before.
LEMMA SettlesRequest ==
    ASSUME NEW g \in Seq(Entry), Good(g), NEW c, Inside(c), NEW r \in Request, Fills(c, g, r),
           NEW f, Settles(f, g, c)
    PROVE  Settles(f, g, r)
<1>0. /\ c.start \in Int /\ c.end \in Int /\ r.start \in Int /\ r.end \in Int
      /\ c.type = r.type /\ c.start <= r.start /\ r.end <= c.end
  BY DEF Inside, Request, Fills
<1>1. ASSUME NEW b \in Int, NEW U \in Types
      PROVE  Covers(f, b, U) <=> IF r.start <= b /\ b <= r.end THEN U = r.type ELSE Covers(g, b, U)
  <2>1. Covers(f, b, U) <=> IF c.start <= b /\ b <= c.end THEN U = c.type ELSE Covers(g, b, U)
    BY DEF Settles
  <2>2. CASE r.start <= b /\ b <= r.end
    <3>1. c.start <= b /\ b <= c.end
      BY <1>0, <2>2
    <3> QED
      BY <1>0, <2>1, <2>2, <3>1
  <2>3. CASE ~(r.start <= b /\ b <= r.end) /\ c.start <= b /\ b <= c.end
    <3>1. Covers(g, b, c.type)
      BY <2>3 DEF Fills
    <3>2. Covers(g, b, U) <=> U = c.type
      BY <3>1, OneType
    <3> QED
      BY <2>1, <2>3, <3>2
  <2>4. CASE ~(r.start <= b /\ b <= r.end) /\ ~(c.start <= b /\ b <= c.end)
    BY <2>1, <2>4
  <2> QED
    BY <2>2, <2>3, <2>4
<1> QED
  BY <1>1 DEF Settles

\* Nothing was swallowed: the list is as it was.
LEMMA ShapeWhole ==
    ASSUME NEW g \in Seq(Entry), Good(g), NEW a, NEW r, NEW m, NEW h, Shape(a, g, r, Len(g), m, h),
           Own(a) = 0, h = m + 1
    PROVE  a.out = g
<1>0. Ended(a, g, m, h)
  BY ShapeEnded
<1>1. /\ Len(g) \in Nat /\ m \in 0 .. Len(g) /\ m \in Int /\ a.out \in Seq(Entry)
      /\ Len(a.out) = m + 0 + (Len(g) + 1 - (m + 1))
      /\ \A i \in 1 .. m : a.out[i] = g[i]
      /\ \A j \in m + 1 .. Len(g) : a.out[j + (m + 0 + 1 - (m + 1))] = g[j]
  BY <1>0 DEF Ended, Loops
<1>2. Len(a.out) = Len(g)
  BY <1>1
<1>3. ASSUME NEW i \in 1 .. Len(g) PROVE a.out[i] = g[i]
  <2>1. CASE i \in 1 .. m
    BY <1>1, <2>1
  <2>2. CASE ~(i \in 1 .. m)
    <3>1. i \in m + 1 .. Len(g) /\ i + (m + 0 + 1 - (m + 1)) = i
      BY <1>1, <2>2
    <3>2. a.out[i + (m + 0 + 1 - (m + 1))] = g[i]
      BY <1>1, <3>1, Zenon
    <3> QED
      BY <3>1, <3>2
  <2> QED
    BY <2>1, <2>2
<1> QED
  BY <1>1, <1>2, <1>3, SeqEqual

\* What lock_it leaves of the group.
Finished(f, g, r, a, free) ==
    /\ f \in Seq(Entry) /\ Good(f) /\ (f = g \/ Settles(f, g, r))
    /\ Len(f) <= Len(a.out) + free

LEMMA ShapedPos ==
    ASSUME NEW g \in Seq(Entry), Good(g), NEW a, NEW r, Shaped(a, g, r, Len(g))
    PROVE  /\ Len(a.out) <= Len(g)
           /\ \E m, h : Shape(a, g, r, Len(g), m, h) /\ Pos(a) = m + Own(a)
<1>0. PICK m, h : /\ Shape(a, g, r, Len(g), m, h)
                  /\ \/ a.stop = -1 /\ h = Len(g) + 1 /\ a.right = 0
                     \/ a.stop = m + Own(a) /\ h <= Len(g)
  BY DEF Shaped
<1>1. Ended(a, g, m, h) /\ (Own(a) = 1 => m + 1 < h)
  BY <1>0, ShapeEnded DEF Shape
<1>2. PICK w \in 0 .. 1 : w = Own(a)
  BY <1>1 DEF Ended
<1>3. /\ Len(g) \in Nat /\ m \in 0 .. Len(g) /\ h \in m + 1 .. Len(g) + 1
      /\ Len(a.out) = m + w + (Len(g) + 1 - h) /\ Len(a.out) \in Nat /\ (w = 1 => m + 1 < h)
  BY <1>1, <1>2 DEF Ended
<1>4. Len(a.out) <= Len(g)
  BY <1>3
<1>5. Pos(a) = m + w
  <2>1. CASE a.stop = -1 /\ h = Len(g) + 1
    BY <1>3, <2>1 DEF Pos
  <2>2. CASE a.stop = m + Own(a)
    BY <1>2, <1>3, <2>2 DEF Pos
  <2> QED
    BY <1>0, <2>1, <2>2
<1> QED
  BY <1>0, <1>2, <1>4, <1>5

LEMMA FinishSettles ==
    ASSUME NEW g \in Seq(Entry), Good(g), NEW r \in Request, NEW a, Shaped(a, g, r, Len(g)), NEW free \in Nat
    PROVE  Finished(Finish(a, free), g, r, a, free)
<1>0. PICK m, h : Shape(a, g, r, Len(g), m, h) /\ Pos(a) = m + Own(a)
  BY ShapedPos
<1>1. /\ Ended(a, g, m, h) /\ Inside(a.c) /\ Fills(a.c, g, r) /\ a.c \in Request
      /\ (~a.added => h = m + 1) /\ OwnIs(a.out, a.c, m, Own(a)) /\ Own(a) \in 0 .. 1
      /\ a \in Loops /\ a.out \in Seq(Entry) /\ Len(a.out) \in Nat
      /\ a.right \in {0, m + Own(a) + 1}
  <2>1. Ended(a, g, m, h)
    BY <1>0, ShapeEnded
  <2>2. /\ Inside(a.c) /\ Fills(a.c, g, r) /\ (~a.added => h = m + 1) /\ OwnIs(a.out, a.c, m, Own(a))
        /\ a \in Loops /\ a.right \in {0, m + Own(a) + 1}
    BY <1>0 DEF Shape
  <2>3. a.c \in Request /\ a.out \in Seq(Entry)
    BY <2>2 DEF Loops
  <2>4. Own(a) \in 0 .. 1 /\ Len(a.out) \in Nat
    BY <2>1 DEF Ended
  <2> QED
    BY <2>1, <2>2, <2>3, <2>4
<1>2. /\ Len(g) \in Nat /\ m \in 0 .. Len(g) /\ m \in Int /\ h \in m + 1 .. Len(g) + 1 /\ h \in Int
      /\ Len(a.out) = m + Own(a) + (Len(g) + 1 - h)
  BY <1>1 DEF Ended
<1>3. PICK n \in 0 .. Len(a.out) : n = Pos(a) /\ n = m + Own(a)
  BY <1>0, <1>1, <1>2
<1>4. PICK cut \in Seq(Entry) : /\ cut = Cut(a) /\ Len(cut) = Len(a.out)
                                /\ \A i \in 1 .. Len(a.out) : cut[i] = CutEntry(a, i)
  BY <1>1, CutIs
<1>5. PICK X, Y : X = SubSeq(cut, 1, n) /\ Y = SubSeq(cut, n + 1, Len(cut))
  OBVIOUS
<1>6. /\ X \in Seq(Entry) /\ Len(X) = n /\ \A i \in 1 .. n : X[i] = cut[i]
      /\ Y \in Seq(Entry) /\ Len(Y) = Len(cut) - n
      /\ \A j \in 1 .. Len(cut) - n : Y[j] = cut[n + j]
  BY <1>4, <1>5, SplitAt
<1>7. \A i \in 1 .. n : X[i] = CutEntry(a, i)
  <2>1. \A i \in 1 .. n : i \in 1 .. Len(a.out)
    BY <1>1
  <2> QED
    BY <1>4, <1>6, <2>1
<1>8. BackOf(Y, g, a.c, h)
  <2>1. Len(Y) = Len(g) + 1 - h
    BY <1>1, <1>2, <1>3, <1>4, <1>6
  <2>2. ASSUME NEW j \in 1 .. Len(Y) PROVE Y[j] = CutEntry(a, m + Own(a) + j)
    <3>1. n + j \in 1 .. Len(a.out) /\ j \in 1 .. Len(cut) - n
      BY <1>1, <1>4, <1>6
    <3>2. Y[j] = CutEntry(a, n + j)
      BY <1>4, <1>6, <3>1
    <3> QED
      BY <1>3, <3>2
  <2> QED
    <3>1. Y \in Seq(Entry) /\ \A j \in 1 .. Len(Y) : Y[j] = CutEntry(a, m + Own(a) + j)
      BY <1>6, <2>2, Zenon
    <3> QED
      BY <1>0, <2>1, <3>1, CutBack, Zenon
<1>9. PICK P, N : P = Part(a) /\ N = New(a)
  OBVIOUS
<1>10. ASSUME NEW A, NEW p, FrontOf(A, g, a.c, p), NEW M, Middle(M, a.c), NEW f, f = (A \o M) \o Y
       PROVE  f \in Seq(Entry) /\ Good(f) /\ Settles(f, g, r)
  <2>1. f \in Seq(Entry) /\ Good(f) /\ Settles(f, g, a.c)
    BY <1>1, <1>8, <1>10, Sandwich
  <2> QED
    BY <1>1, <2>1, SettlesRequest
<1>11. CASE Refused(a, free)
  <2>1. Finish(a, free) = a.out
    BY <1>11, FinishIs
  <2>2. Own(a) = 0 /\ h = m + 1
    <3>1. CASE ~a.added
      BY <1>1, <3>1 DEF Own
    <3>2. CASE Split(a)
      <4>1. \A i \in 1 .. m : i \in 1 .. Len(a.out)
        BY <1>1, <1>2
      <4>2. PICK x \in Seq(Entry) : Len(x) = m /\ \A i \in 1 .. m : x[i] = CutEntry(a, i)
        <5>1. m \in 0 .. Len(cut)
          BY <1>1, <1>2, <1>4
        <5>2. /\ SubSeq(cut, 1, m) \in Seq(Entry) /\ Len(SubSeq(cut, 1, m)) = m
              /\ \A i \in 1 .. m : SubSeq(cut, 1, m)[i] = cut[i]
          BY <5>1, SplitAt
        <5> QED
          BY <1>4, <4>1, <5>2
      <4> QED
        BY <1>0, <3>2, <4>2, CutSplit
    <3>3. CASE a.added /\ ~Split(a)
      <4>1. New(a) = <<>> /\ Part(a) = <<>>
        BY <3>3 DEF New, Part
      <4>2. Len(New(a) \o Part(a)) = 0
        BY <4>1
      <4> QED
        BY <1>11, <3>3, <4>2 DEF Refused
    <3> QED
      BY <3>1, <3>2, <3>3
  <2>3. a.out = g
    BY <1>0, <2>2, ShapeWhole
  <2>4. Len(a.out) <= Len(a.out) + free
    BY <1>1
  <2> QED
    BY <2>1, <2>3, <2>4 DEF Finished
<1>12. CASE ~Refused(a, free)
  <2>0. Finish(a, free) = ((X \o P) \o N) \o Y
    BY <1>3, <1>4, <1>5, <1>9, <1>12, FinishIs
  <2>00. ~(Len(N \o P) > free)
    BY <1>9, <1>12 DEF Refused
  <2>1. CASE Own(a) = 1
    <3>1. a.added /\ ~Split(a)
      <4>1. a.added
        BY <2>1 DEF Own
      <4>2. ASSUME Split(a) PROVE FALSE
        <5>1. Own(a) = 0
          <6>1. \A i \in 1 .. m : i \in 1 .. n
            BY <1>2, <1>3, <2>1
          <6>2. Sides(a, g, Len(g), m, h) /\ a.right # 0 /\ a.left = a.right
            BY <1>0, <4>2 DEF Shape, Split
          <6>3. ~OnLeft(a.c, g, m, a.left)
            BY <1>1, <1>2, <6>2 DEF OnLeft
          <6> QED
            BY <6>2, <6>3 DEF Sides
        <5> QED
          BY <2>1, <5>1
      <4> QED
        BY <4>1, <4>2
    <3>2. P = <<>> /\ N = <<>>
      BY <1>9, <3>1 DEF Part, New
    <3>3. Finish(a, free) = X \o Y
      <4>1. X \o <<>> = X
        BY <1>6, ConcatEmptySeq
      <4> QED
        BY <2>0, <3>2, <4>1
    <3>4. n = m + 1 /\ m \in 0 .. Len(X) /\ m + 1 \in 1 .. n
      BY <1>2, <1>3, <1>6, <2>1
    <3>5. PICK A, M : A = SubSeq(X, 1, m) /\ M = SubSeq(X, m + 1, Len(X))
      OBVIOUS
    <3>6. /\ A \in Seq(Entry) /\ Len(A) = m /\ (\A i \in 1 .. m : A[i] = X[i])
          /\ M \in Seq(Entry) /\ Len(M) = 1 /\ M[1] = X[m + 1] /\ X = A \o M
      <4>1. /\ A \in Seq(Entry) /\ Len(A) = m /\ (\A i \in 1 .. m : A[i] = X[i])
            /\ M \in Seq(Entry) /\ Len(M) = Len(X) - m
            /\ (\A k \in 1 .. Len(X) - m : M[k] = X[m + k]) /\ X = A \o M
        BY <1>6, <3>4, <3>5, SplitAt
      <4>2. Len(X) - m = 1
        BY <1>2, <1>6, <3>4
      <4> QED
        BY <4>1, <4>2
    <3>7. FrontOf(A, g, a.c, m)
      <4>1. \A i \in 1 .. m : i \in 1 .. n
        BY <1>2, <3>4
      <4>2. \A i \in 1 .. m : A[i] = CutEntry(a, i)
        BY <1>7, <3>6, <4>1
      <4> QED
        BY <1>0, <3>1, <3>6, <4>2, CutFront
    <3>8. Middle(M, a.c)
      <4>1. PICK e \in Entry : e = M[1]
        <5>1. 1 \in 1 .. Len(M)
          BY <3>6
        <5> QED
          BY <3>6, <5>1, ElementOfSeq
      <4>2. M = <<e>>
        <5>1. <<e>> \in Seq(Entry) /\ Len(<<e>>) = 1 /\ <<e>>[1] = e
          OBVIOUS
        <5>2. \A i \in 1 .. Len(M) : i = 1
          BY <3>6
        <5>3. \A i \in 1 .. Len(M) : M[i] = <<e>>[i]
          BY <4>1, <5>1, <5>2
        <5>4. Len(M) = Len(<<e>>)
          BY <3>6, <5>1
        <5> QED
          BY <3>6, <5>1, <5>3, <5>4, SeqEqual
      <4>3. m + 1 # a.right /\ m + 1 # a.left
        <5>1. OnLeft(a.c, g, m, a.left)
          BY <1>0, <2>1 DEF Shape, Sides
        <5> QED
          BY <1>1, <1>2, <2>1, <5>1 DEF OnLeft
      <4>4. e = a.out[m + 1]
        BY <1>7, <3>4, <3>6, <4>1, <4>3 DEF CutEntry
      <4>5. e.type = a.c.type /\ e.start = a.c.start /\ e.end = a.c.end
        BY <1>1, <2>1, <4>4 DEF OwnIs
      <4>6. a.c.type # "F_UNLCK"
        BY <2>1 DEF Own
      <4> QED
        BY <4>2, <4>5, <4>6 DEF Middle
    <3>9. Finish(a, free) = (A \o M) \o Y
      BY <3>3, <3>6
    <3>10. Len(X \o Y) = Len(a.out)
      <4>1. Len(X \o Y) = Len(X) + Len(Y)
        BY <1>6, Joined
      <4> QED
        BY <1>1, <1>4, <1>6, <4>1
    <3>11. Len(Finish(a, free)) <= Len(a.out) + free
      BY <1>1, <3>3, <3>10
    <3> QED
      BY <1>10, <3>7, <3>8, <3>9, <3>11 DEF Finished
  <2>2. CASE Own(a) = 0
    <3>0. n = m
      BY <1>2, <1>3, <2>2
    <3>1. Middle(N, a.c) /\ N \in Seq(Entry)
      <4>1. CASE a.added
        <5>1. N = <<>> /\ a.c.type = "F_UNLCK"
          BY <1>9, <2>2, <4>1 DEF New, Own
        <5> QED
          BY <5>1, EmptySeq DEF Middle
      <4>2. CASE ~a.added
        <5>1. a.c.type # "F_UNLCK"
          BY <1>12, <4>2 DEF Refused
        <5>2. PICK e \in Entry : e = a.c
          BY <1>1, <5>1 DEF Request, Entry
        <5>3. N = <<e>> /\ e.type = a.c.type /\ e.start = a.c.start /\ e.end = a.c.end
          BY <1>9, <4>2, <5>2 DEF New
        <5>4. <<e>> \in Seq(Entry)
          OBVIOUS
        <5> QED
          BY <5>1, <5>3, <5>4 DEF Middle
      <4> QED
        BY <4>1, <4>2
    <3>2. P \in Seq(Entry) /\ \E p : FrontOf(X \o P, g, a.c, p)
      <4>1. CASE Split(a)
        BY <1>0, <1>6, <1>7, <1>9, <3>0, <4>1, CutSplit
      <4>2. CASE ~Split(a)
        <5>1. P = <<>> /\ X \o <<>> = X
          BY <1>6, <1>9, <4>2, ConcatEmptySeq DEF Part
        <5>2. FrontOf(X, g, a.c, m)
          BY <1>0, <1>6, <1>7, <3>0, <4>2, CutFront
        <5> QED
          BY <5>1, <5>2, EmptySeq
      <4> QED
        BY <4>1, <4>2
    <3>3. PICK f : f = ((X \o P) \o N) \o Y
      OBVIOUS
    <3>4. f \in Seq(Entry) /\ Good(f) /\ Settles(f, g, r)
      BY <1>10, <3>1, <3>2, <3>3
    <3>5. Len(f) <= Len(a.out) + free
      <4>1. PICK z \in Seq(Entry) : z = X \o P /\ Len(z) = Len(X) + Len(P)
        BY <1>6, <3>2, Joined
      <4>2. PICK y \in Seq(Entry) : y = z \o N /\ Len(y) = Len(z) + Len(N)
        BY <3>1, <4>1, Joined
      <4>3. Len(f) = Len(y) + Len(Y)
        BY <1>6, <3>3, <4>1, <4>2, Joined
      <4>4. Len(N \o P) = Len(N) + Len(P) /\ Len(N) \in Nat /\ Len(P) \in Nat
        BY <3>1, <3>2, Joined
      <4> QED
        <5>1. Len(N) + Len(P) <= free
          BY <2>00, <4>4
        <5>2. Len(f) = Len(X) + Len(P) + Len(N) + Len(Y)
          BY <4>1, <4>2, <4>3
        <5>3. Len(X) = n /\ Len(Y) = Len(a.out) - n /\ n \in Int
          BY <1>4, <1>6
        <5>4. PICK u \in Nat, v \in Nat, w \in Nat : u = Len(N) /\ v = Len(P) /\ w = Len(a.out)
          BY <1>1, <4>4
        <5>5. u + v <= free /\ Len(f) = n + v + u + (w - n) /\ n \in Int
          BY <5>1, <5>2, <5>3, <5>4
        <5>6. n + v + u + (w - n) <= w + free
          BY <5>5
        <5> QED
          BY <5>4, <5>5, <5>6
    <3> QED
      BY <2>0, <3>3, <3>4, <3>5 DEF Finished
  <2> QED
    BY <1>1, <2>1, <2>2
<1> QED
  BY <1>11, <1>12

-----------------------------------------------------------------------------
(* The whole list.                                                         *)

\* The entries of an owner follow each other, in order.
Neat(l) ==
    /\ \A i \in 1 .. Len(l) : Inside(l[i])
    /\ \A i, j \in 1 .. Len(l) : i < j /\ l[i].owner = l[j].owner =>
           /\ \A k \in i .. j : l[k].owner = l[i].owner
           /\ Before(l[i], l[j])

\* No owner has entries in both.
Strangers(l, m) == \A i \in 1 .. Len(l), j \in 1 .. Len(m) : l[i].owner # m[j].owner

Without(l, o) == \A i \in 1 .. Len(l) : l[i].owner # o

LEMMA NeatConcat ==
    ASSUME NEW l \in Seq(Entry), NEW m \in Seq(Entry), Neat(l), Neat(m), Strangers(l, m)
    PROVE  Neat(l \o m)
<1>0. PICK s, x, y : s = l \o m /\ x = Len(l) /\ y = Len(m)
  OBVIOUS
<1>1. /\ x \in Nat /\ y \in Nat /\ Len(s) = x + y
      /\ \A i \in 1 .. x : s[i] = l[i]
      /\ \A i \in 1 .. y : s[x + i] = m[i]
      /\ \A i \in 1 .. x + y : i \in 1 .. x \/ (i - x \in 1 .. y /\ s[i] = m[i - x])
  BY <1>0, Joined
<1>2. ASSUME NEW i \in 1 .. Len(s) PROVE Inside(s[i])
  <2>1. CASE i \in 1 .. x
    BY <1>0, <1>1, <2>1 DEF Neat
  <2>2. CASE i - x \in 1 .. y /\ s[i] = m[i - x]
    BY <1>0, <2>2 DEF Neat
  <2> QED
    BY <1>1, <2>1, <2>2
<1>3. ASSUME NEW i \in 1 .. Len(s), NEW j \in 1 .. Len(s), i < j, s[i].owner = s[j].owner
      PROVE  (\A k \in i .. j : s[k].owner = s[i].owner) /\ Before(s[i], s[j])
  <2>1. CASE i \in 1 .. x /\ j \in 1 .. x
    <3>1. (\A k \in i .. j : l[k].owner = l[i].owner) /\ Before(l[i], l[j])
      BY <1>0, <1>1, <1>3, <2>1 DEF Neat
    <3>2. \A k \in i .. j : k \in 1 .. x
      BY <1>1, <2>1
    <3> QED
      BY <1>1, <2>1, <3>1, <3>2
  <2>2. CASE i \in 1 .. x /\ j - x \in 1 .. y /\ s[j] = m[j - x]
    <3>1. l[i].owner # m[j - x].owner
      BY <1>0, <2>2, Zenon DEF Strangers
    <3> QED
      BY <1>1, <1>3, <2>2, <3>1
  <2>3. CASE i - x \in 1 .. y /\ s[i] = m[i - x] /\ j - x \in 1 .. y /\ s[j] = m[j - x]
    <3>1. i - x < j - x
      BY <1>1, <1>3
    <3>2. (\A k \in i - x .. j - x : m[k].owner = m[i - x].owner) /\ Before(m[i - x], m[j - x])
      BY <1>0, <1>3, <2>3, <3>1, Zenon DEF Neat
    <3>3. ASSUME NEW k \in i .. j PROVE s[k].owner = s[i].owner
      <4>1. k - x \in i - x .. j - x /\ k - x \in 1 .. y /\ x + (k - x) = k
        BY <1>1, <2>3
      <4>2. s[x + (k - x)] = m[k - x]
        BY <1>1, <4>1, Zenon
      <4> QED
        BY <2>3, <3>2, <4>1, <4>2
    <3> QED
      BY <2>3, <3>2, <3>3
  <2>4. ~(i - x \in 1 .. y /\ j \in 1 .. x)
    BY <1>1, <1>3
  <2> QED
    BY <1>1, <2>1, <2>2, <2>3, <2>4
<1>4. Neat(s)
  BY <1>2, <1>3 DEF Neat
<1> QED
  BY <1>0, <1>4

LEMMA NeatParts ==
    ASSUME NEW l \in Seq(Entry), NEW m \in Seq(Entry), Neat(l \o m)
    PROVE  Neat(l) /\ Neat(m)
<1>0. PICK s, x, y : s = l \o m /\ x = Len(l) /\ y = Len(m)
  OBVIOUS
<1>1. /\ x \in Nat /\ y \in Nat /\ Len(s) = x + y
      /\ \A i \in 1 .. x : s[i] = l[i] /\ i \in 1 .. x + y
      /\ \A i \in 1 .. y : s[x + i] = m[i] /\ x + i \in 1 .. x + y
  BY <1>0, Joined
<1>2. Neat(s)
  BY <1>0
<1>3. Neat(l)
  <2>1. ASSUME NEW i \in 1 .. x PROVE Inside(l[i])
    BY <1>1, <1>2 DEF Neat
  <2>2. ASSUME NEW i \in 1 .. x, NEW j \in 1 .. x, i < j, l[i].owner = l[j].owner
        PROVE  (\A k \in i .. j : l[k].owner = l[i].owner) /\ Before(l[i], l[j])
    <3>1. (\A k \in i .. j : s[k].owner = s[i].owner) /\ Before(s[i], s[j])
      BY <1>1, <1>2, <2>2 DEF Neat
    <3>2. \A k \in i .. j : k \in 1 .. x
      BY <1>1
    <3> QED
      BY <1>1, <3>1, <3>2
  <2> QED
    BY <1>0, <2>1, <2>2 DEF Neat
<1>4. Neat(m)
  <2>1. ASSUME NEW i \in 1 .. y PROVE Inside(m[i])
    BY <1>1, <1>2 DEF Neat
  <2>2. ASSUME NEW i \in 1 .. y, NEW j \in 1 .. y, i < j, m[i].owner = m[j].owner
        PROVE  (\A k \in i .. j : m[k].owner = m[i].owner) /\ Before(m[i], m[j])
    <3>0. PICK p \in 1 .. Len(s), q \in 1 .. Len(s) :
              p = x + i /\ q = x + j /\ s[p] = m[i] /\ s[q] = m[j] /\ p < q
      BY <1>1, <2>2
    <3>1. (\A k \in p .. q : s[k].owner = s[p].owner) /\ Before(s[p], s[q])
      BY <1>2, <2>2, <3>0 DEF Neat
    <3>2. ASSUME NEW k \in i .. j PROVE m[k].owner = m[i].owner
      <4>1. k \in 1 .. y /\ x + k \in p .. q
        BY <1>1, <3>0
      <4>2. s[x + k] = m[k]
        BY <1>1, <4>1
      <4> QED
        BY <3>0, <3>1, <4>1, <4>2
    <3> QED
      BY <3>0, <3>1, <3>2
  <2> QED
    BY <1>0, <2>1, <2>2 DEF Neat
<1> QED
  BY <1>3, <1>4

\* The list of one owner.
LEMMA NeatGroup ==
    ASSUME NEW g \in Seq(Entry), NEW o, Mine(g, o)
    PROVE  Neat(g) <=> Good(g)
<1>0. Len(g) \in Nat
  OBVIOUS
<1>1. \A i, j \in 1 .. Len(g) : \A k \in i .. j : k \in 1 .. Len(g)
  BY <1>0
<1>2. \A i \in 1 .. Len(g) : g[i].owner = o
  BY DEF Mine
<1>3. ASSUME Neat(g) PROVE Good(g)
  BY <1>2, <1>3 DEF Neat, Good
<1>4. ASSUME Good(g) PROVE Neat(g)
  BY <1>1, <1>2, <1>4 DEF Neat, Good
<1> QED
  BY <1>3, <1>4

\* What the rest of the list has to do with the group of o.
Around(b, g, e, o) ==
    /\ Neat(b) /\ Neat(e) /\ Good(g) /\ Mine(g, o)
    /\ Without(b, o) /\ Without(e, o) /\ Strangers(b, e)

\* Places before, in and behind a group at i .. j of a list of n entries.
LEMMA Places ==
    /\ \A n, j, k : n \in Nat /\ j \in Int /\ k \in 1 .. n - j => j + k \in j + 1 .. n
    /\ \A n, i, j, p, q :
           /\ n \in Nat /\ i \in 1 .. n /\ j \in Int /\ i <= j /\ p \in 1 .. i - 1 /\ q \in j + 1 .. n
           => p \in 1 .. n /\ q \in 1 .. n /\ p < q /\ i \in p .. q
  OBVIOUS

LEMMA AroundFound ==
    ASSUME NEW list \in Seq(Entry), Neat(list), NEW o, NEW i, NEW j,
           i = GroupStart(list, o), j = GroupEnd(list, o), NEW b, NEW g, NEW e,
           b = SubSeq(list, 1, i - 1), g = SubSeq(list, i, j), e = SubSeq(list, j + 1, Len(list))
    PROVE  Around(b, g, e, o)
<1>0. Parts(list, o, b, g, e)
  BY PartsFound
<1>1. /\ b \in Seq(Entry) /\ g \in Seq(Entry) /\ e \in Seq(Entry) /\ list = b \o (g \o e) /\ Mine(g, o)
  BY <1>0 DEF Parts
<1>2. Neat(b) /\ Neat(g) /\ Neat(e)
  <2>1. PICK ge \in Seq(Entry) : ge = g \o e
    BY <1>1, ConcatProperties
  <2>2. Neat(b \o ge)
    BY <1>1, <2>1
  <2>3. Neat(b) /\ Neat(ge)
    BY <1>1, <2>1, <2>2, NeatParts
  <2>4. Neat(g \o e)
    BY <2>1, <2>3
  <2> QED
    BY <1>1, <2>3, <2>4, NeatParts, ZenonT(60)
<1>3. Grouped(list, o, i, j) /\ Len(list) \in Nat
  BY GroupFound
<1>4. i \in 1 .. Len(list) + 1 /\ j \in i - 1 .. Len(list) /\ i \in Int /\ j \in Int
  BY <1>3 DEF Grouped
<1>5. /\ Len(b) = i - 1 /\ \A k \in 1 .. i - 1 : b[k] = list[k]
      /\ Len(e) = Len(list) - j /\ \A k \in 1 .. Len(list) - j : e[k] = list[j + k]
  BY <1>4, GroupParts
<1>6. Without(b, o)
  BY <1>3, <1>5 DEF Without, Grouped
\* Behind the group: it is not empty.
<1>7. ASSUME NEW q \in j + 1 .. Len(list) PROVE i \in 1 .. Len(list) /\ i <= j /\ list[i].owner = o
  <2>1. j < Len(list)
    BY <1>3, <1>4
  <2>2. j # i - 1
    BY <1>3, <1>4, <2>1 DEF Grouped
  <2>3. i \in i .. j
    BY <1>4, <2>2, SMTT(30)
  <2> QED
    BY <1>3, <1>4, <2>3 DEF Grouped
<1>8. ASSUME NEW q \in j + 1 .. Len(list) PROVE list[q].owner # o
  <2> SUFFICES ASSUME list[q].owner = o PROVE FALSE
    OBVIOUS
  <2>1. i \in 1 .. Len(list) /\ i <= j /\ list[i].owner = o
    BY <1>7
  <2>2. q \in 1 .. Len(list) /\ i < q /\ j + 1 \in i .. q /\ j < Len(list)
    BY <1>3, <1>4, <2>1, SMTT(30)
  <2>3. list[j + 1].owner = o
    BY <2>1, <2>2 DEF Neat
  <2> QED
    BY <1>3, <2>2, <2>3 DEF Grouped
<1>9. Without(e, o)
  <2> SUFFICES ASSUME NEW k \in 1 .. Len(e) PROVE e[k].owner # o
    BY DEF Without
  <2>0. Len(list) \in Nat /\ j \in Int /\ Len(list) - j \in Int
    BY <1>3, <1>4
  <2>00. k \in 1 .. Len(list) - j
    BY <1>5
  <2>01. j + k \in j + 1 .. Len(list)
    BY <2>0, <2>00, SMTT(30)
  <2>1. j + k \in j + 1 .. Len(list) /\ e[k] = list[j + k]
    BY <1>5, <2>00, <2>01, Zenon
  <2> QED
    BY <1>8, <2>1
<1>10. Strangers(b, e)
  <2> SUFFICES ASSUME NEW p \in 1 .. Len(b), NEW k \in 1 .. Len(e), b[p].owner = e[k].owner PROVE FALSE
    BY DEF Strangers
  <2>1. PICK q : q = j + k
    OBVIOUS
  <2>2. q \in j + 1 .. Len(list) /\ e[k] = list[q] /\ b[p] = list[p] /\ p \in 1 .. i - 1
    <3>0. Len(list) \in Nat /\ j \in Int /\ Len(list) - j \in Int
      BY <1>3, <1>4
    <3>1. k \in 1 .. Len(list) - j /\ p \in 1 .. i - 1
      BY <1>5
    <3>2. q \in j + 1 .. Len(list)
      BY <2>1, <3>0, <3>1, Places, Zenon
    <3>3. e[k] = list[q] /\ b[p] = list[p]
      BY <1>5, <2>1, <3>1, Zenon
    <3> QED
      BY <3>1, <3>2, <3>3
  <2>3. i \in 1 .. Len(list) /\ i <= j /\ list[i].owner = o
    BY <1>7, <2>2
  <2>4. p \in 1 .. Len(list) /\ q \in 1 .. Len(list) /\ p < q /\ i \in p .. q
    BY <1>3, <1>4, <2>2, <2>3, Places, Zenon
  <2>5. list[i].owner = list[p].owner
    BY <2>2, <2>4 DEF Neat
  <2>6. list[p].owner # o
    BY <1>3, <2>2 DEF Grouped
  <2> QED
    BY <2>3, <2>5, <2>6
<1>11. Good(g)
  BY <1>1, <1>2, NeatGroup
<1> QED
  BY <1>1, <1>2, <1>6, <1>9, <1>10, <1>11 DEF Around

\* Another group in order in the place of the old one.
LEMMA NeatReplaced ==
    ASSUME NEW b \in Seq(Entry), NEW g, NEW e \in Seq(Entry), NEW o, Around(b, g, e, o),
           NEW f \in Seq(Entry), Good(f), Mine(f, o)
    PROVE  (b \o f) \o e \in Seq(Entry) /\ Neat((b \o f) \o e)
<1>0. Neat(b) /\ Neat(e) /\ Without(b, o) /\ Without(e, o) /\ Strangers(b, e) /\ Neat(f)
  BY NeatGroup DEF Around
<1>1. Strangers(b, f)
  BY <1>0 DEF Strangers, Without, Mine
<1>2. PICK s \in Seq(Entry) : s = b \o f
  BY ConcatProperties
<1>3. Neat(s)
  BY <1>0, <1>1, <1>2, NeatConcat
<1>4. Strangers(s, e)
  <2>1. /\ Len(b) \in Nat /\ Len(f) \in Nat /\ Len(s) = Len(b) + Len(f)
        /\ \A i \in 1 .. Len(b) : s[i] = b[i]
        /\ \A i \in 1 .. Len(b) + Len(f) :
               i \in 1 .. Len(b) \/ (i - Len(b) \in 1 .. Len(f) /\ s[i] = f[i - Len(b)])
    BY <1>2, Joined
  <2> SUFFICES ASSUME NEW i \in 1 .. Len(s), NEW k \in 1 .. Len(e) PROVE s[i].owner # e[k].owner
    BY DEF Strangers
  <2>2. CASE i \in 1 .. Len(b)
    BY <1>0, <2>1, <2>2 DEF Strangers
  <2>3. CASE i - Len(b) \in 1 .. Len(f) /\ s[i] = f[i - Len(b)]
    <3>1. s[i].owner = o
      BY <2>3 DEF Mine
    <3> QED
      BY <1>0, <3>1 DEF Without
  <2> QED
    BY <2>1, <2>2, <2>3
<1>5. Neat(s \o e) /\ s \o e \in Seq(Entry)
  BY <1>0, <1>2, <1>3, <1>4, NeatConcat, ConcatProperties
<1> QED
  BY <1>2, <1>5

-----------------------------------------------------------------------------
(* The bytes of the owners.                                                *)

\* Owner o has byte x in an entry of type U.
OwnCovers(l, o, x, U) ==
    \E i \in 1 .. Len(l) : l[i].owner = o /\ l[i].type = U /\ l[i].start <= x /\ x <= l[i].end

LEMMA OwnConcat ==
    ASSUME NEW l \in Seq(Entry), NEW m \in Seq(Entry), NEW o, NEW x, NEW U
    PROVE  OwnCovers(l \o m, o, x, U) <=> OwnCovers(l, o, x, U) \/ OwnCovers(m, o, x, U)
<1>0. PICK s : s = l \o m
  OBVIOUS
<1>1. /\ Len(s) = Len(l) + Len(m)
      /\ \A i \in 1 .. Len(l) : s[i] = l[i] /\ i \in 1 .. Len(s)
      /\ \A i \in 1 .. Len(m) : s[Len(l) + i] = m[i] /\ Len(l) + i \in 1 .. Len(s)
      /\ \A i \in 1 .. Len(s) : i \in 1 .. Len(l) \/ (i - Len(l) \in 1 .. Len(m) /\ s[i] = m[i - Len(l)])
  BY <1>0, Joined
<1>2. ASSUME OwnCovers(l, o, x, U) PROVE OwnCovers(s, o, x, U)
  <2>1. PICK i \in 1 .. Len(l) : l[i].owner = o /\ l[i].type = U /\ l[i].start <= x /\ x <= l[i].end
    BY <1>2 DEF OwnCovers
  <2>2. s[i] = l[i] /\ i \in 1 .. Len(s)
    BY <1>1
  <2> QED
    BY <2>1, <2>2 DEF OwnCovers
<1>3. ASSUME OwnCovers(m, o, x, U) PROVE OwnCovers(s, o, x, U)
  <2>1. PICK i \in 1 .. Len(m) : m[i].owner = o /\ m[i].type = U /\ m[i].start <= x /\ x <= m[i].end
    BY <1>3 DEF OwnCovers
  <2>2. PICK k : k = Len(l) + i
    OBVIOUS
  <2>3. s[k] = m[i] /\ k \in 1 .. Len(s)
    BY <1>1, <2>2
  <2> QED
    BY <2>1, <2>3 DEF OwnCovers
<1>4. ASSUME OwnCovers(s, o, x, U) PROVE OwnCovers(l, o, x, U) \/ OwnCovers(m, o, x, U)
  <2>1. PICK i \in 1 .. Len(s) : s[i].owner = o /\ s[i].type = U /\ s[i].start <= x /\ x <= s[i].end
    BY <1>4 DEF OwnCovers
  <2>2. CASE i \in 1 .. Len(l)
    <3>1. s[i] = l[i]
      BY <1>1, <2>2
    <3> QED
      BY <2>1, <2>2, <3>1 DEF OwnCovers
  <2>3. CASE i - Len(l) \in 1 .. Len(m) /\ s[i] = m[i - Len(l)]
    <3>1. PICK k : k = i - Len(l)
      OBVIOUS
    <3>2. k \in 1 .. Len(m) /\ s[i] = m[k]
      BY <2>3, <3>1
    <3> QED
      BY <2>1, <3>2 DEF OwnCovers
  <2> QED
    BY <1>1, <2>2, <2>3
<1> QED
  BY <1>0, <1>2, <1>3, <1>4

LEMMA OwnMine ==
    ASSUME NEW g, NEW o, Mine(g, o), NEW q, NEW x, NEW U
    PROVE  OwnCovers(g, q, x, U) <=> q = o /\ Covers(g, x, U)
  BY DEF OwnCovers, Mine, Covers

LEMMA OwnWithout ==
    ASSUME NEW l, NEW o, Without(l, o), NEW x, NEW U
    PROVE  ~OwnCovers(l, o, x, U)
  BY DEF OwnCovers, Without

\* Another group in the place of g: the bytes of o are those of f, the bytes of
\* the others are as before.
LEMMA OwnReplaced ==
    ASSUME NEW b \in Seq(Entry), NEW g \in Seq(Entry), NEW e \in Seq(Entry), NEW o, Around(b, g, e, o),
           NEW f \in Seq(Entry), Mine(f, o), NEW q, NEW x, NEW U
    PROVE  /\ q = o => /\ OwnCovers((b \o f) \o e, q, x, U) <=> Covers(f, x, U)
                       /\ OwnCovers(b \o (g \o e), q, x, U) <=> Covers(g, x, U)
           /\ q # o => (OwnCovers((b \o f) \o e, q, x, U) <=> OwnCovers(b \o (g \o e), q, x, U))
<1>0. Mine(g, o) /\ Without(b, o) /\ Without(e, o)
  BY DEF Around
<1>1. PICK s \in Seq(Entry) : s = b \o f
  BY ConcatProperties
<1>2. PICK t \in Seq(Entry) : t = g \o e
  BY ConcatProperties
<1>3. OwnCovers(s, q, x, U) <=> OwnCovers(b, q, x, U) \/ OwnCovers(f, q, x, U)
  BY <1>1, OwnConcat
<1>4. OwnCovers(t, q, x, U) <=> OwnCovers(g, q, x, U) \/ OwnCovers(e, q, x, U)
  BY <1>2, OwnConcat
<1>5. OwnCovers(s \o e, q, x, U) <=> OwnCovers(s, q, x, U) \/ OwnCovers(e, q, x, U)
  BY <1>1, OwnConcat
<1>6. OwnCovers(b \o t, q, x, U) <=> OwnCovers(b, q, x, U) \/ OwnCovers(t, q, x, U)
  BY <1>2, OwnConcat, ZenonT(60)
<1>7. OwnCovers(f, q, x, U) <=> q = o /\ Covers(f, x, U)
  BY OwnMine
<1>8. OwnCovers(g, q, x, U) <=> q = o /\ Covers(g, x, U)
  BY <1>0, OwnMine
<1>9. q = o => ~OwnCovers(b, q, x, U) /\ ~OwnCovers(e, q, x, U)
  BY <1>0, OwnWithout
<1>10. s \o e = (b \o f) \o e /\ b \o t = b \o (g \o e)
  BY <1>1, <1>2
<1> QED
  BY <1>3, <1>4, <1>5, <1>6, <1>7, <1>8, <1>9, <1>10, Zenon

\* The locks of the list, byte by byte, are the same.
SameLocks(new, list) == \A q, x, U : OwnCovers(new, q, x, U) <=> OwnCovers(list, q, x, U)

\* The bytes of the request have its type, for its owner; the others are as before.
Relocked(new, list, r) ==
    \A q : \A x \in Int, U \in Types :
        OwnCovers(new, q, x, U) <=>
            IF q = r.owner /\ r.start <= x /\ x <= r.end THEN U = r.type ELSE OwnCovers(list, q, x, U)

LEMMA LockItNeat ==
    ASSUME NEW list \in Seq(Entry), Neat(list), Len(list) <= NR_FILE_LOCKS,
           NEW A, Sound(list, A), NEW p, Apart(list, p),
           NEW caller \in Request, Inside(caller), NEW r, r = lock_it(list, caller)
    PROVE  /\ r.list \in Seq(Entry) /\ Neat(r.list) /\ Len(r.list) <= NR_FILE_LOCKS
           /\ SameLocks(r.list, list) \/ Relocked(r.list, list, caller)
<1>0. PICK o : o = caller.owner
  OBVIOUS
<1>1. PICK i, j : i = GroupStart(list, o) /\ j = GroupEnd(list, o)
  OBVIOUS
<1>2. PICK b, g, e : b = SubSeq(list, 1, i - 1) /\ g = SubSeq(list, i, j) /\ e = SubSeq(list, j + 1, Len(list))
  OBVIOUS
<1>3. Parts(list, o, b, g, e)
  BY <1>1, <1>2, PartsFound
<1>4. PICK G \in SUBSET A : Sound(g, G)
  BY <1>3, ReplaceGroup
<1>5. Around(b, g, e, o)
  BY <1>1, <1>2, AroundFound
<1>6. b \in Seq(Entry) /\ g \in Seq(Entry) /\ e \in Seq(Entry) /\ list = b \o (g \o e) /\ Mine(g, o) /\ Good(g)
  BY <1>3, <1>5 DEF Parts, Around
<1>7. PICK a : a = Loop(g, caller)
  OBVIOUS
<1>8. LoopSound(a, o, G)
  BY <1>0, <1>4, <1>6, <1>7, LoopIsSound
<1>9. Shaped(a, g, caller, Len(g))
  BY <1>6, <1>7, LoopShaped
<1>10. Len(a.out) <= Len(g) /\ a.out \in Seq(Entry)
  <2>1. a \in Loops
    BY <1>8 DEF LoopSound
  <2> QED
    BY <1>6, <1>9, <2>1, ShapedPos DEF Loops
<1>11. PICK out \in Seq(Entry) : out = a.out
  BY <1>10
<1>12. PICK free : free = FreeEntries(Len(b \o a.out \o e))
  OBVIOUS
<1>13. /\ Len(b) \in Nat /\ Len(g) \in Nat /\ Len(e) \in Nat /\ Len(out) \in Nat
       /\ Len((b \o out) \o e) = Len(b) + Len(out) + Len(e)
       /\ Len(list) = Len(b) + (Len(g) + Len(e))
  <2>1. PICK s \in Seq(Entry) : s = b \o out /\ Len(s) = Len(b) + Len(out)
    BY <1>6, Joined
  <2>2. PICK t \in Seq(Entry) : t = g \o e /\ Len(t) = Len(g) + Len(e)
    BY <1>6, Joined
  <2>3. Len(s \o e) = Len(s) + Len(e) /\ Len(b \o t) = Len(b) + Len(t)
    BY <1>6, <2>1, <2>2, Joined
  <2>4. Len(b) \in Nat /\ Len(g) \in Nat /\ Len(e) \in Nat /\ Len(out) \in Nat
    BY <1>6
  <2> QED
    BY <1>6, <2>1, <2>2, <2>3, <2>4
<1>14. free = NR_FILE_LOCKS - (Len(b) + Len(out) + Len(e)) /\ free \in Nat
  <2>1. free = NR_FILE_LOCKS - (Len(b) + Len(out) + Len(e))
    BY <1>11, <1>12, <1>13 DEF FreeEntries
  <2>2. PICK lb \in Nat, lg \in Nat, le \in Nat, lo \in Nat :
            lb = Len(b) /\ lg = Len(g) /\ le = Len(e) /\ lo = Len(out)
    BY <1>13
  <2>3. lo <= lg /\ lb + (lg + le) <= NR_FILE_LOCKS /\ NR_FILE_LOCKS \in Nat
    BY <1>10, <1>11, <1>13, <2>2, TableAssumption
  <2>4. NR_FILE_LOCKS - (lb + lo + le) \in Nat
    BY <2>3
  <2> QED
    BY <2>1, <2>2, <2>4
<1>15. PICK f : f = Finish(a, free)
  OBVIOUS
<1>16. r = [list |-> b \o f \o e, wake |-> a.wake]
  BY <1>0, <1>1, <1>2, <1>7, <1>12, <1>15 DEF lock_it
<1>17. Mine(f, o)
  BY <1>8, <1>15, FinishSound
<1>18. Finished(f, g, caller, a, free)
  BY <1>6, <1>9, <1>14, <1>15, FinishSettles
<1>19. f \in Seq(Entry) /\ Good(f) /\ (f = g \/ Settles(f, g, caller)) /\ Len(f) <= Len(out) + free
  BY <1>11, <1>18 DEF Finished
<1>20. PICK new : new = (b \o f) \o e
  OBVIOUS
<1>21. r.list = new
  BY <1>16, <1>20
<1>22. new \in Seq(Entry) /\ Neat(new)
  BY <1>5, <1>6, <1>17, <1>19, <1>20, NeatReplaced
<1>23. Len(new) <= NR_FILE_LOCKS
  <2>1. PICK s \in Seq(Entry) : s = b \o f /\ Len(s) = Len(b) + Len(f) /\ Len(f) \in Nat
    BY <1>6, <1>19, Joined
  <2>2. Len(new) = Len(s) + Len(e)
    BY <1>6, <1>20, <2>1, Joined
  <2>3. PICK lb \in Nat, lf \in Nat, le \in Nat, lo \in Nat :
            lb = Len(b) /\ lf = Len(f) /\ le = Len(e) /\ lo = Len(out)
    BY <1>13, <2>1
  <2>4. lf <= lo + free /\ free = NR_FILE_LOCKS - (lb + lo + le) /\ NR_FILE_LOCKS \in Nat
    BY <1>14, <1>19, <2>3, TableAssumption
  <2>5. lb + lf + le <= NR_FILE_LOCKS
    BY <2>4
  <2> QED
    BY <2>1, <2>2, <2>3, <2>5
<1>24. ASSUME NEW q, NEW x, NEW U
       PROVE  /\ q = o => /\ OwnCovers(new, q, x, U) <=> Covers(f, x, U)
                          /\ OwnCovers(list, q, x, U) <=> Covers(g, x, U)
              /\ q # o => (OwnCovers(new, q, x, U) <=> OwnCovers(list, q, x, U))
  BY <1>5, <1>6, <1>17, <1>19, <1>20, OwnReplaced
<1>25. CASE f = g
  <2>1. SameLocks(new, list)
    BY <1>24, <1>25, Zenon DEF SameLocks
  <2> QED
    BY <1>21, <1>22, <1>23, <2>1
<1>26. CASE Settles(f, g, caller)
  <2>1. ASSUME NEW q, NEW x \in Int, NEW U \in Types
        PROVE  OwnCovers(new, q, x, U) <=>
                   IF q = o /\ caller.start <= x /\ x <= caller.end THEN U = caller.type
                   ELSE OwnCovers(list, q, x, U)
    <3>1. Covers(f, x, U) <=> IF caller.start <= x /\ x <= caller.end THEN U = caller.type ELSE Covers(g, x, U)
      BY <1>26 DEF Settles
    <3> QED
      BY <1>24, <3>1, Zenon
  <2>2. Relocked(new, list, caller)
    BY <1>0, <2>1 DEF Relocked
  <2> QED
    BY <1>21, <1>22, <1>23, <2>2
<1> QED
  BY <1>19, <1>25, <1>26

-----------------------------------------------------------------------------
(* The list is canonical.                                                  *)

\* Every region that is asked for ends before OFFSET_MAX, so that the end + 1 of
\* lock_it's merge does not wrap.
RegionsInner == \A reg \in Regions : reg[2] > 0 /\ reg[1] + reg[2] - 1 < OFFSET_MAX

Tidy ==
    /\ Queues
    /\ Neat(i_flock) /\ Len(i_flock) <= NR_FILE_LOCKS
    /\ \A t \in Tasks : req[t] = NoReq \/ Inside(req[t])

LEMMA CallerInside ==
    ASSUME RegionsInner, NEW o, NEW type, NEW reg \in Regions
    PROVE  Inside(copy_flock(o, type, reg))
<1>1. /\ reg[1] \in 0 .. OFFSET_MAX /\ reg[2] \in 0 .. OFFSET_MAX /\ OFFSET_MAX \in Nat
      /\ reg[2] > 0 /\ reg[1] + reg[2] - 1 < OFFSET_MAX
  BY OffsetAssumption, RegionsAssumption DEF RegionsInner
<1>2. PICK s \in Int, n \in Int : s = reg[1] /\ n = reg[2]
  BY <1>1
<1>3. 0 <= s /\ 0 < n /\ s + n - 1 < OFFSET_MAX
  BY <1>1, <1>2
<1>4. off_t(s + n - 1) = s + n - 1
  BY <1>1, <1>3 DEF off_t
<1>5. PICK c : c = copy_flock(o, type, reg)
  OBVIOUS
<1>6. c.start = s /\ c.end = IF n = 0 \/ off_t(s + n - 1) < 0 THEN OFFSET_MAX ELSE off_t(s + n - 1)
  BY <1>2, <1>5 DEF copy_flock
<1>7. c.end = s + n - 1
  BY <1>3, <1>4, <1>6
<1>8. Inside(c)
  BY <1>1, <1>3, <1>6, <1>7 DEF Inside
<1> QED
  BY <1>5, <1>8

\* A list that differs in its wait queues only.
Alike(new, list) ==
    /\ new \in Seq(Entry) /\ Len(new) = Len(list)
    /\ \A k \in 1 .. Len(list) : /\ new[k].owner = list[k].owner /\ new[k].type = list[k].type
                                 /\ new[k].start = list[k].start /\ new[k].end = list[k].end

LEMMA AlikeNeat ==
    ASSUME NEW list \in Seq(Entry), Neat(list), NEW new, Alike(new, list)
    PROVE  Neat(new) /\ SameLocks(new, list)
<1>0. /\ Len(list) \in Nat /\ Len(new) = Len(list)
      /\ \A k \in 1 .. Len(list) : /\ new[k].owner = list[k].owner /\ new[k].type = list[k].type
                                   /\ new[k].start = list[k].start /\ new[k].end = list[k].end
  BY DEF Alike
<1>1. ASSUME NEW k \in 1 .. Len(list) PROVE Inside(new[k])
  BY <1>0 DEF Neat, Inside
<1>2. ASSUME NEW i \in 1 .. Len(list), NEW j \in 1 .. Len(list), i < j, new[i].owner = new[j].owner
      PROVE  (\A k \in i .. j : new[k].owner = new[i].owner) /\ Before(new[i], new[j])
  <2>1. (\A k \in i .. j : list[k].owner = list[i].owner) /\ Before(list[i], list[j])
    BY <1>0, <1>2 DEF Neat
  <2>2. \A k \in i .. j : k \in 1 .. Len(list)
    BY <1>0
  <2>3. \A k \in i .. j : new[k].owner = new[i].owner
    BY <1>0, <2>1, <2>2
  <2>4. Before(new[i], new[j])
    BY <1>0, <2>1 DEF Before
  <2> QED
    BY <2>3, <2>4
<1>3. Neat(new)
  BY <1>0, <1>1, <1>2 DEF Neat
<1>4. SameLocks(new, list)
  BY <1>0 DEF SameLocks, OwnCovers
<1> QED
  BY <1>3, <1>4

\* Nothing is in the way of the request, and it is granted.
Granted(caller) ==
    /\ \A k \in 1 .. Len(i_flock) : ~conflict(caller, i_flock[k])
    /\ Relocked(i_flock', i_flock, caller)

\* Owner o gives up everything.
Dropped(o) == \A q, x, U : OwnCovers(i_flock', q, x, U) <=> q # o /\ OwnCovers(i_flock, q, x, U)

\* What a step may do to the locks.
Moves ==
    \/ SameLocks(i_flock', i_flock)
    \/ \E caller \in Request : Inside(caller) /\ Granted(caller)
    \/ \E o \in Owners : Dropped(o)

LEMMA SameMoves == i_flock' = i_flock => Moves
  BY DEF Moves, SameLocks

LEMMA ScanTidy ==
    ASSUME Tidy, Queues', NEW t \in Tasks, NEW caller \in Request, Inside(caller), Scan(t, caller)
    PROVE  Tidy' /\ Moves
<1>0. /\ i_flock \in Seq(Entry) /\ Sound(i_flock, asleep) /\ Apart(i_flock, req)
      /\ Neat(i_flock) /\ Len(i_flock) <= NR_FILE_LOCKS /\ req \in [Tasks -> Request \cup {NoReq}]
      /\ \A u \in Tasks : req[u] = NoReq \/ Inside(req[u])
  BY DEF Tidy, Queues
<1>1. PICK i : i = FirstConflict(i_flock, caller)
  OBVIOUS
<1>2. CASE i = 0
  <2>1. PICK r : r = lock_it(i_flock, caller)
    OBVIOUS
  <2>2. i_flock' = r.list /\ req' = [req EXCEPT ![t] = NoReq]
    BY <1>1, <1>2, <2>1 DEF Scan, Return
  <2>3. /\ Neat(i_flock') /\ Len(i_flock') <= NR_FILE_LOCKS
        /\ SameLocks(i_flock', i_flock) \/ Relocked(i_flock', i_flock, caller)
    BY <1>0, <2>1, <2>2, LockItNeat
  <2>4. \A k \in 1 .. Len(i_flock) : ~conflict(caller, i_flock[k])
    BY <1>0, <1>1, <1>2, FirstConflictIs
  <2>5. \A u \in Tasks : req'[u] = NoReq \/ Inside(req'[u])
    BY <1>0, <2>2
  <2>6. Moves
    BY <2>3, <2>4 DEF Moves, Granted
  <2> QED
    BY <2>3, <2>5, <2>6 DEF Tidy
<1>3. CASE i # 0
  <2>1. /\ i_flock' = [i_flock EXCEPT ![i].wait = @ \cup {t}]
        /\ req' = [req EXCEPT ![t] = caller]
    BY <1>1, <1>3 DEF Scan
  <2>2. i \in 1 .. Len(i_flock)
    BY <1>0, <1>1, <1>3, FirstConflictIs
  <2>3. PICK old \in Entry : old = i_flock[i]
    BY <1>0, <2>2, ElementOfSeq
  <2>4. PICK e \in Entry : e = [old EXCEPT !.wait = old.wait \cup {t}]
    BY DEF Entry
  <2>5. e.owner = old.owner /\ e.type = old.type /\ e.start = old.start /\ e.end = old.end
    BY <2>4 DEF Entry
  <2>6. i_flock' = [i_flock EXCEPT ![i] = e]
    BY <2>1, <2>3, <2>4
  <2>7. /\ i_flock' \in Seq(Entry) /\ Len(i_flock') = Len(i_flock)
        /\ \A k \in 1 .. Len(i_flock) : i_flock'[k] = IF k = i THEN e ELSE i_flock[k]
    BY <1>0, <2>2, <2>6, ExceptSeq
  <2>8. Alike(i_flock', i_flock)
    BY <2>3, <2>5, <2>7 DEF Alike
  <2>9. Neat(i_flock') /\ SameLocks(i_flock', i_flock)
    BY <1>0, <2>8, AlikeNeat
  <2>10. \A u \in Tasks : req'[u] = NoReq \/ Inside(req'[u])
    BY <1>0, <2>1
  <2> QED
    BY <1>0, <2>7, <2>9, <2>10 DEF Tidy, Moves
<1> QED
  BY <1>2, <1>3

LEMMA SetlkTidy ==
    ASSUME RegionsInner, Tidy, Queues', NEW t \in Tasks, NEW fd \in Fds,
           NEW type \in Types \cup {"F_UNLCK"}, NEW reg \in Regions, fcntl_setlk(t, fd, type, reg)
    PROVE  Tidy' /\ Moves
<1>1. PICK caller \in Request : caller = copy_flock(<<t, fd>>, type, reg)
  BY CallerIsRequest
<1>2. Inside(caller)
  BY <1>1, CallerInside
<1>3. CASE Scan(t, caller)
  BY <1>2, <1>3, ScanTidy
<1>4. CASE UNCHANGED vars
  BY <1>4, SameMoves DEF Tidy, vars
<1> QED
  BY <1>1, <1>3, <1>4 DEF fcntl_setlk

LEMMA ResumeTidy ==
    ASSUME Tidy, Queues', NEW t \in Tasks, SetlkResume(t)
    PROVE  Tidy' /\ Moves
<1>1. req[t] \in Request /\ Inside(req[t])
  BY DEF SetlkResume, Queues, Tidy
<1>2. CASE t \in sig
  <2>1. i_flock' = i_flock /\ req' = [req EXCEPT ![t] = NoReq]
    BY <1>2 DEF SetlkResume, Return
  <2>2. \A u \in Tasks : req'[u] = NoReq \/ Inside(req'[u])
    BY <2>1 DEF Tidy, Queues
  <2> QED
    BY <2>1, <2>2, SameMoves DEF Tidy
<1>3. CASE t \notin sig
  <2>1. PICK caller \in Request : caller = req[t]
    BY <1>1
  <2>2. Scan(t, caller) /\ Inside(caller)
    BY <1>1, <1>3, <2>1 DEF SetlkResume
  <2> QED
    BY <2>2, ScanTidy
<1> QED
  BY <1>2, <1>3

LEMMA RemoveTidy ==
    ASSUME Tidy, Queues', NEW t \in Tasks, NEW fd \in Fds, fcntl_remove_locks(t, fd)
    PROVE  Tidy' /\ Moves
<1>0. i_flock \in Seq(Entry) /\ Neat(i_flock) /\ Len(i_flock) <= NR_FILE_LOCKS
  BY DEF Tidy, Queues
<1>1. PICK o \in Owners : o = <<t, fd>>
  BY DEF Owners
<1>2. PICK i, j : i = GroupStart(i_flock, o) /\ j = GroupEnd(i_flock, o)
  OBVIOUS
<1>3. PICK b, g, e : b = SubSeq(i_flock, 1, i - 1) /\ g = SubSeq(i_flock, i, j) /\ e = SubSeq(i_flock, j + 1, Len(i_flock))
  OBVIOUS
<1>4. Parts(i_flock, o, b, g, e)
  BY <1>0, <1>2, <1>3, PartsFound
<1>5. Around(b, g, e, o)
  BY <1>0, <1>2, <1>3, AroundFound
<1>6. i_flock' = b \o e /\ req' = req
  BY <1>1, <1>2, <1>3 DEF fcntl_remove_locks
<1>7. PICK f \in Seq(Entry) : f = <<>>
  BY EmptySeq
<1>8. Len(f) = 0 /\ Mine(f, o) /\ Good(f) /\ \A x, U : ~Covers(f, x, U)
  <2>1. Len(f) = 0
    BY <1>7
  <2> QED
    BY <2>1 DEF Mine, Good, Covers
<1>9. b \in Seq(Entry) /\ g \in Seq(Entry) /\ e \in Seq(Entry) /\ i_flock = b \o (g \o e)
  BY <1>4 DEF Parts
<1>10. (b \o f) \o e = b \o e
  BY <1>7, <1>9
<1>11. Neat(i_flock')
  <2>1. Neat((b \o f) \o e)
    BY <1>5, <1>7, <1>8, <1>9, NeatReplaced
  <2> QED
    BY <1>6, <1>10, <2>1
<1>12. Dropped(o)
  <2> SUFFICES ASSUME NEW q, NEW x, NEW U
               PROVE  OwnCovers(i_flock', q, x, U) <=> q # o /\ OwnCovers(i_flock, q, x, U)
    BY DEF Dropped
  <2>1. /\ q = o => (OwnCovers((b \o f) \o e, q, x, U) <=> Covers(f, x, U))
        /\ q # o => (OwnCovers((b \o f) \o e, q, x, U) <=> OwnCovers(b \o (g \o e), q, x, U))
    <3>1. b \in Seq(Entry) /\ g \in Seq(Entry) /\ e \in Seq(Entry) /\ Mine(f, o)
      BY <1>8, <1>9
    <3> QED
      BY <1>5, <3>1, OwnReplaced
  <2>2. i_flock' = (b \o f) \o e
    BY <1>6, <1>10
  <2> QED
    BY <1>8, <1>9, <2>1, <2>2, Zenon
<1>13. Len(i_flock') <= NR_FILE_LOCKS
  <2>1. PICK ge \in Seq(Entry) : ge = g \o e /\ Len(ge) = Len(g) + Len(e) /\ Len(g) \in Nat /\ Len(e) \in Nat
    BY <1>9, Joined
  <2>2. Len(b \o ge) = Len(b) + Len(ge) /\ Len(b \o e) = Len(b) + Len(e) /\ Len(b) \in Nat
    BY <1>9, <2>1, Joined
  <2>3. PICK lb \in Nat, lg \in Nat, le \in Nat : lb = Len(b) /\ lg = Len(g) /\ le = Len(e)
    BY <2>1, <2>2
  <2>4. Len(i_flock) = lb + (lg + le) /\ Len(i_flock') = lb + le
    BY <1>6, <1>9, <2>1, <2>2, <2>3
  <2> QED
    BY <1>0, <2>4, TableAssumption
<1>14. \A u \in Tasks : req'[u] = NoReq \/ Inside(req'[u])
  BY <1>6 DEF Tidy
<1> QED
  BY <1>1, <1>11, <1>12, <1>13, <1>14 DEF Tidy, Moves

LEMMA SignalTidy ==
    ASSUME Tidy, Queues', NEW t \in Tasks, send_sig(t)
    PROVE  Tidy' /\ Moves
<1>0. /\ i_flock \in Seq(Entry) /\ Neat(i_flock) /\ Len(i_flock) \in Nat /\ DOMAIN i_flock = 1 .. Len(i_flock)
      /\ i_flock' \in Seq(Entry) /\ Len(i_flock) <= NR_FILE_LOCKS
  BY DEF Tidy, Queues
<1>1. i_flock' = [i \in 1 .. Len(i_flock) |-> [i_flock[i] EXCEPT !.wait = @ \ {t}]] /\ req' = req
  BY <1>0 DEF send_sig
<1>2. Len(i_flock') = Len(i_flock)
  BY <1>0, <1>1
<1>3. ASSUME NEW k \in 1 .. Len(i_flock)
      PROVE  /\ i_flock'[k].owner = i_flock[k].owner /\ i_flock'[k].type = i_flock[k].type
             /\ i_flock'[k].start = i_flock[k].start /\ i_flock'[k].end = i_flock[k].end
  <2>1. PICK old \in Entry : old = i_flock[k]
    BY <1>0, ElementOfSeq
  <2>2. i_flock'[k] = [old EXCEPT !.wait = old.wait \ {t}]
    BY <1>1, <2>1
  <2> QED
    BY <2>1, <2>2 DEF Entry
<1>4. Alike(i_flock', i_flock)
  BY <1>0, <1>2, <1>3 DEF Alike
<1>5. Neat(i_flock') /\ SameLocks(i_flock', i_flock)
  BY <1>0, <1>4, AlikeNeat
<1>6. \A u \in Tasks : req'[u] = NoReq \/ Inside(req'[u])
  BY <1>1 DEF Tidy
<1> QED
  BY <1>0, <1>2, <1>5, <1>6 DEF Tidy, Moves

LEMMA InitTidy ==
    ASSUME Init
    PROVE  Tidy
<1>1. i_flock = <<>> /\ req = [t \in Tasks |-> NoReq]
  BY DEF Init
<1>2. Len(i_flock) = 0
  BY <1>1
<1>3. Neat(i_flock)
  BY <1>2 DEF Neat
<1> QED
  BY <1>1, <1>2, <1>3, InitQueues, TableAssumption DEF Tidy

LEMMA NextTidy ==
    ASSUME RegionsInner, Tidy, [Next]_vars
    PROVE  Tidy' /\ Moves
<1>0. Queues'
  BY NextQueues DEF Tidy
<1>1. CASE UNCHANGED vars
  BY <1>1, SameMoves DEF Tidy, Queues, vars
<1>2. CASE Next
  <2>1. PICK t \in Tasks :
            \/ \E fd \in Fds :
                  \/ \E type \in {"F_RDLCK", "F_WRLCK", "F_UNLCK"}, reg \in Regions :
                         fcntl_setlk(t, fd, type, reg)
                  \/ fcntl_remove_locks(t, fd)
            \/ SetlkResume(t)
            \/ send_sig(t)
    BY <1>2, Zenon DEF Next
  <2>2. ASSUME NEW fd \in Fds, NEW type \in {"F_RDLCK", "F_WRLCK", "F_UNLCK"}, NEW reg \in Regions,
               fcntl_setlk(t, fd, type, reg)
        PROVE  Tidy' /\ Moves
    <3>1. type \in Types \cup {"F_UNLCK"}
      BY DEF Types
    <3> QED
      BY <1>0, <2>2, <3>1, SetlkTidy
  <2> QED
    BY <1>0, <2>1, <2>2, RemoveTidy, ResumeTidy, SignalTidy, Zenon
<1> QED
  BY <1>1, <1>2

\* As long as no request reaches OFFSET_MAX, the list stays as the comment of
\* locks.c has it: the entries of an owner follow each other, sorted, without
\* overlap, and neighbours of one type that touch have been merged.
THEOREM ListStaysCanonical == RegionsInner => (Spec => []ListCanonical)
<1> SUFFICES ASSUME RegionsInner PROVE Spec => []ListCanonical
  OBVIOUS
<1>1. ASSUME Tidy PROVE ListCanonical
  <2>1. /\ DOMAIN i_flock = 1 .. Len(i_flock) /\ Neat(i_flock)
    BY <1>1 DEF Tidy, Queues
  <2>2. ASSUME NEW i \in DOMAIN i_flock, NEW j \in DOMAIN i_flock
        PROVE  /\ i_flock[i].start <= i_flock[i].end
               /\ i < j /\ i_flock[i].owner = i_flock[j].owner =>
                     /\ \A k \in i .. j : i_flock[k].owner = i_flock[i].owner
                     /\ i_flock[i].end < i_flock[j].start
                     /\ i_flock[i].type = i_flock[j].type => i_flock[i].end + 1 < i_flock[j].start
    BY <2>1 DEF Neat, Inside, Before
  <2> QED
    BY <2>2 DEF ListCanonical
<1>2. ASSUME Tidy, [Next]_vars PROVE Tidy'
  BY <1>2, NextTidy
<1> QED
  BY <1>1, <1>2, InitTidy, PTL DEF Spec

-----------------------------------------------------------------------------
(* The list implements byte locks.                                         *)

\* The lock that owner o has on byte x.
HeldOf(l, o, x) ==
    LET at == {i \in 1 .. Len(l) : l[i].owner = o /\ l[i].start <= x /\ x <= l[i].end}
    IN  IF at = {} THEN "F_UNLCK" ELSE l[CHOOSE i \in at : TRUE].type

\* No two entries of an owner share a byte, so the choice of the entry is no choice.
LEMMA HeldIs ==
    ASSUME NEW l \in Seq(Entry), Neat(l), NEW o, NEW x \in Int
    PROVE  /\ HeldOf(l, o, x) \in Types \cup {"F_UNLCK"}
           /\ \A U \in Types : HeldOf(l, o, x) = U <=> OwnCovers(l, o, x, U)
<1> DEFINE at == {i \in 1 .. Len(l) : l[i].owner = o /\ l[i].start <= x /\ x <= l[i].end}
<1>1. CASE at = {}
  <2>1. HeldOf(l, o, x) = "F_UNLCK"
    BY <1>1 DEF HeldOf
  <2>2. \A U \in Types : ~OwnCovers(l, o, x, U)
    BY <1>1 DEF OwnCovers
  <2> QED
    BY <2>1, <2>2 DEF Types
<1>2. CASE at # {}
  <2>1. PICK k : k = CHOOSE i \in at : TRUE
    OBVIOUS
  <2>2. k \in at
    BY <1>2, <2>1
  <2>3. k \in 1 .. Len(l) /\ l[k].owner = o /\ l[k].start <= x /\ x <= l[k].end
    BY <2>2
  <2>4. HeldOf(l, o, x) = l[k].type
    BY <1>2, <2>1 DEF HeldOf
  <2>5. l[k] \in Entry /\ Len(l) \in Nat
    BY <2>3, ElementOfSeq
  <2>6. l[k].type \in Types
    BY <2>5 DEF Entry
  <2>7. ASSUME NEW i \in 1 .. Len(l), l[i].owner = o, l[i].start <= x, x <= l[i].end PROVE i = k
    <3>1. /\ l[i].start \in Int /\ l[i].end \in Int /\ l[k].start \in Int /\ l[k].end \in Int
      BY <2>3 DEF Neat, Inside
    <3>2. ~(i < k)
      <4> SUFFICES ASSUME i < k PROVE FALSE
        OBVIOUS
      <4>1. Before(l[i], l[k])
        BY <2>3, <2>7 DEF Neat
      <4> QED
        BY <2>3, <2>7, <3>1, <4>1 DEF Before
    <3>3. ~(k < i)
      <4> SUFFICES ASSUME k < i PROVE FALSE
        OBVIOUS
      <4>1. Before(l[k], l[i])
        BY <2>3, <2>7 DEF Neat
      <4> QED
        BY <2>3, <2>7, <3>1, <4>1 DEF Before
    <3> QED
      BY <2>3, <2>5, <3>2, <3>3
  <2>8. ASSUME NEW U \in Types PROVE HeldOf(l, o, x) = U <=> OwnCovers(l, o, x, U)
    <3>1. ASSUME HeldOf(l, o, x) = U PROVE OwnCovers(l, o, x, U)
      BY <2>3, <2>4, <3>1 DEF OwnCovers
    <3>2. ASSUME OwnCovers(l, o, x, U) PROVE HeldOf(l, o, x) = U
      <4>1. PICK i \in 1 .. Len(l) : l[i].owner = o /\ l[i].type = U /\ l[i].start <= x /\ x <= l[i].end
        BY <3>2 DEF OwnCovers
      <4>2. i = k
        BY <2>7, <4>1
      <4> QED
        BY <2>4, <4>1, <4>2
    <3> QED
      BY <3>1, <3>2
  <2> QED
    BY <2>4, <2>6, <2>8
<1> QED
  BY <1>1, <1>2

\* What the entries say of a byte fixes the lock on it.
LEMMA HeldFrom ==
    ASSUME NEW l \in Seq(Entry), Neat(l), NEW o, NEW x \in Int, NEW v \in Types \cup {"F_UNLCK"},
           \A U \in Types : OwnCovers(l, o, x, U) <=> U = v
    PROVE  HeldOf(l, o, x) = v
<1>1. /\ HeldOf(l, o, x) \in Types \cup {"F_UNLCK"}
      /\ \A U \in Types : HeldOf(l, o, x) = U <=> OwnCovers(l, o, x, U)
  BY HeldIs
<1> QED
  BY <1>1

LEMMA HeldSame ==
    ASSUME NEW l \in Seq(Entry), Neat(l), NEW m \in Seq(Entry), Neat(m), NEW o, NEW x \in Int,
           \A U \in Types : OwnCovers(l, o, x, U) <=> OwnCovers(m, o, x, U)
    PROVE  HeldOf(l, o, x) = HeldOf(m, o, x)
<1>1. /\ HeldOf(l, o, x) \in Types \cup {"F_UNLCK"}
      /\ \A U \in Types : HeldOf(l, o, x) = U <=> OwnCovers(l, o, x, U)
  BY HeldIs
<1>2. /\ HeldOf(m, o, x) \in Types \cup {"F_UNLCK"}
      /\ \A U \in Types : HeldOf(m, o, x) = U <=> OwnCovers(m, o, x, U)
  BY HeldIs
<1> QED
  BY <1>1, <1>2

LEMMA HeldFunction ==
    ASSUME i_flock \in Seq(Entry)
    PROVE  Held = [o \in Owners |-> [x \in Bytes |-> HeldOf(i_flock, o, x)]]
<1>1. DOMAIN i_flock = 1 .. Len(i_flock)
  OBVIOUS
<1> QED
  BY <1>1 DEF Held, HeldOf

LEMMA HeldFunctionNext ==
    ASSUME i_flock' \in Seq(Entry)
    PROVE  Held' = [o \in Owners |-> [x \in Bytes |-> HeldOf(i_flock', o, x)]]
<1>1. DOMAIN i_flock' = 1 .. Len(i_flock')
  OBVIOUS
<1> QED
  BY <1>1 DEF Held, HeldOf

\* The lock of type v on the bytes B, for owner o.
Became(o, v, B) ==
    \A q \in Owners, x \in Bytes :
        HeldOf(i_flock', q, x) = IF q = o /\ x \in B THEN v ELSE HeldOf(i_flock, q, x)

LEMMA BecameChanged ==
    ASSUME i_flock \in Seq(Entry), i_flock' \in Seq(Entry), NEW o \in Owners, NEW v, NEW B, Became(o, v, B)
    PROVE  Held' = [Held EXCEPT ![o] = Abs!Changed(o, v, B)]
<1>1. Held = [q \in Owners |-> [x \in Bytes |-> HeldOf(i_flock, q, x)]]
  BY HeldFunction
<1>2. Held' = [q \in Owners |-> [x \in Bytes |-> HeldOf(i_flock', q, x)]]
  BY HeldFunctionNext
<1>3. PICK c : c = Abs!Changed(o, v, B)
  OBVIOUS
<1>4. c = [x \in Bytes |-> IF x \in B THEN v ELSE Held[o][x]]
  BY <1>3 DEF Abs!Changed
<1>5. c = [x \in Bytes |-> HeldOf(i_flock', o, x)]
  <2>1. ASSUME NEW x \in Bytes PROVE (IF x \in B THEN v ELSE Held[o][x]) = HeldOf(i_flock', o, x)
    <3>1. Held[o][x] = HeldOf(i_flock, o, x)
      BY <1>1
    <3>2. HeldOf(i_flock', o, x) = IF o = o /\ x \in B THEN v ELSE HeldOf(i_flock, o, x)
      BY Zenon DEF Became
    <3> QED
      BY <3>1, <3>2
  <2> QED
    BY <1>4, <2>1
<1>6. ASSUME NEW q \in Owners, q # o
      PROVE  [x \in Bytes |-> HeldOf(i_flock', q, x)] = [x \in Bytes |-> HeldOf(i_flock, q, x)]
  <2>1. ASSUME NEW x \in Bytes PROVE HeldOf(i_flock', q, x) = HeldOf(i_flock, q, x)
    BY <1>6 DEF Became
  <2> QED
    BY <2>1
<1>7. [Held EXCEPT ![o] = c] = [q \in Owners |-> IF q = o THEN c ELSE Held[q]]
  BY <1>1
<1>8. ASSUME NEW q \in Owners
      PROVE  [x \in Bytes |-> HeldOf(i_flock', q, x)] = IF q = o THEN c ELSE Held[q]
  <2>1. Held[q] = [x \in Bytes |-> HeldOf(i_flock, q, x)]
    BY <1>1
  <2> QED
    BY <1>5, <1>6, <2>1
<1> QED
  BY <1>2, <1>3, <1>7, <1>8

LEMMA MovesImplement ==
    ASSUME Tidy, Tidy', Moves
    PROVE  [Abs!Next]_Held
<1>0. /\ i_flock \in Seq(Entry) /\ Neat(i_flock) /\ i_flock' \in Seq(Entry) /\ Neat(i_flock')
      /\ OFFSET_MAX \in Nat /\ \A x \in Bytes : x \in Int
  BY OffsetAssumption DEF Tidy, Queues, Bytes
<1>1. CASE SameLocks(i_flock', i_flock)
  <2>1. ASSUME NEW q, NEW x \in Bytes PROVE HeldOf(i_flock', q, x) = HeldOf(i_flock, q, x)
    <3>1. \A U \in Types : OwnCovers(i_flock', q, x, U) <=> OwnCovers(i_flock, q, x, U)
      BY <1>1 DEF SameLocks
    <3> QED
      BY <1>0, <3>1, HeldSame
  <2>2. Held = [o \in Owners |-> [x \in Bytes |-> HeldOf(i_flock, o, x)]]
    BY <1>0, HeldFunction
  <2>3. Held' = [o \in Owners |-> [x \in Bytes |-> HeldOf(i_flock', o, x)]]
    BY <1>0, HeldFunctionNext
  <2>4. Held' = Held
    BY <2>1, <2>2, <2>3
  <2> QED
    BY <2>4
<1>2. ASSUME NEW caller \in Request, Inside(caller), Granted(caller) PROVE Abs!Next
  <2>1. PICK o \in Owners, v \in Types \cup {"F_UNLCK"} : o = caller.owner /\ v = caller.type
    BY DEF Request
  <2>2. PICK B : B = {x \in Bytes : caller.start <= x /\ x <= caller.end}
    OBVIOUS
  <2>3. B \in Abs!Ranges
    <3>1. caller.start \in Bytes /\ caller.end \in Bytes
      BY <1>0, <1>2 DEF Inside, Bytes
    <3> QED
      BY <2>2, <3>1 DEF Abs!Ranges
  <2>4. Became(o, v, B)
    <3> SUFFICES ASSUME NEW q \in Owners, NEW x \in Bytes
                 PROVE  HeldOf(i_flock', q, x) = IF q = o /\ x \in B THEN v ELSE HeldOf(i_flock, q, x)
      BY DEF Became
    <3>1. x \in Int /\ (x \in B <=> caller.start <= x /\ x <= caller.end)
      BY <1>0, <2>2
    <3>2. ASSUME NEW U \in Types
          PROVE  OwnCovers(i_flock', q, x, U) <=>
                     IF q = o /\ x \in B THEN U = v ELSE OwnCovers(i_flock, q, x, U)
      BY <1>2, <2>1, <3>1 DEF Granted, Relocked
    <3>3. CASE q = o /\ x \in B
      <4>1. \A U \in Types : OwnCovers(i_flock', q, x, U) <=> U = v
        BY <3>2, <3>3
      <4> QED
        BY <1>0, <3>1, <3>3, <4>1, HeldFrom
    <3>4. CASE ~(q = o /\ x \in B)
      <4>1. \A U \in Types : OwnCovers(i_flock', q, x, U) <=> OwnCovers(i_flock, q, x, U)
        BY <3>2, <3>4
      <4> QED
        BY <1>0, <3>1, <3>4, <4>1, HeldSame
    <3> QED
      BY <3>3, <3>4
  <2>5. Held' = [Held EXCEPT ![o] = Abs!Changed(o, v, B)]
    BY <1>0, <2>4, BecameChanged
  <2>6. CASE v = "F_UNLCK"
    <3>1. Abs!Unlock(o, B)
      BY <2>5, <2>6 DEF Abs!Unlock
    <3> QED
      BY <2>3, <3>1 DEF Abs!Next
  <2>7. CASE v # "F_UNLCK"
    <3>1. v \in Abs!LockTypes
      BY <2>1, <2>7 DEF Types, Abs!LockTypes
    <3>2. ASSUME NEW q \in Owners \ {o}, NEW x \in B
          PROVE  Held[q][x] = "F_UNLCK" \/ (Held[q][x] = "F_RDLCK" /\ v = "F_RDLCK")
      <4>0. x \in Bytes /\ x \in Int /\ caller.start <= x /\ x <= caller.end
        BY <1>0, <2>2
      <4>1. Held[q][x] = HeldOf(i_flock, q, x)
        BY <1>0, <4>0, HeldFunction
      <4>2. /\ HeldOf(i_flock, q, x) \in Types \cup {"F_UNLCK"}
            /\ \A U \in Types : HeldOf(i_flock, q, x) = U <=> OwnCovers(i_flock, q, x, U)
        BY <1>0, <4>0, HeldIs
      <4>3. ASSUME NEW U \in Types, OwnCovers(i_flock, q, x, U) PROVE U = "F_RDLCK" /\ v = "F_RDLCK"
        <5>1. PICK k \in 1 .. Len(i_flock) :
                  /\ i_flock[k].owner = q /\ i_flock[k].type = U
                  /\ i_flock[k].start <= x /\ x <= i_flock[k].end
          BY <4>3 DEF OwnCovers
        <5>2. ~conflict(caller, i_flock[k])
          BY <1>2 DEF Granted
        <5>3. i_flock[k].start \in Int /\ i_flock[k].end \in Int /\ caller.start \in Int /\ caller.end \in Int
          BY <1>0, <1>2 DEF Neat, Inside
        <5>4. overlap(caller, i_flock[k])
          BY <4>0, <5>1, <5>3 DEF overlap
        <5>5. caller.owner # i_flock[k].owner
          BY <2>1, <5>1
        <5> QED
          BY <2>1, <2>7, <5>1, <5>2, <5>4, <5>5 DEF conflict, Types
      <4> QED
        BY <4>1, <4>2, <4>3
    <3>3. Abs!Allowed(o, v, B)
      BY <3>2 DEF Abs!Allowed
    <3>4. Abs!Lock(o, v, B)
      BY <2>5, <3>3 DEF Abs!Lock
    <3> QED
      BY <2>3, <3>1, <3>4 DEF Abs!Next
  <2> QED
    BY <2>6, <2>7
<1>3. ASSUME NEW o \in Owners, Dropped(o) PROVE Abs!Next
  <2>1. Bytes \in Abs!Ranges
    <3>1. 0 \in Bytes /\ OFFSET_MAX \in Bytes /\ Bytes = {x \in Bytes : 0 <= x /\ x <= OFFSET_MAX}
      BY <1>0 DEF Bytes
    <3> QED
      BY <3>1 DEF Abs!Ranges
  <2>2. Became(o, "F_UNLCK", Bytes)
    <3> SUFFICES ASSUME NEW q \in Owners, NEW x \in Bytes
                 PROVE  HeldOf(i_flock', q, x) = IF q = o THEN "F_UNLCK" ELSE HeldOf(i_flock, q, x)
      BY DEF Became
    <3>1. x \in Int
      BY <1>0
    <3>2. CASE q = o
      <4>1. \A U \in Types : ~OwnCovers(i_flock', q, x, U)
        BY <1>3, <3>2 DEF Dropped
      <4>2. /\ HeldOf(i_flock', q, x) \in Types \cup {"F_UNLCK"}
            /\ \A U \in Types : HeldOf(i_flock', q, x) = U <=> OwnCovers(i_flock', q, x, U)
        BY <1>0, <3>1, HeldIs
      <4> QED
        BY <3>2, <4>1, <4>2
    <3>3. CASE q # o
      <4>1. \A U \in Types : OwnCovers(i_flock', q, x, U) <=> OwnCovers(i_flock, q, x, U)
        BY <1>3, <3>3 DEF Dropped
      <4> QED
        BY <1>0, <3>1, <3>3, <4>1, HeldSame
    <3> QED
      BY <3>2, <3>3
  <2>3. Held' = [Held EXCEPT ![o] = Abs!Changed(o, "F_UNLCK", Bytes)]
    BY <1>0, <2>2, BecameChanged
  <2>4. Abs!Unlock(o, Bytes)
    BY <2>3 DEF Abs!Unlock
  <2> QED
    BY <2>1, <2>4 DEF Abs!Next
<1> QED
  BY <1>1, <1>2, <1>3 DEF Moves

LEMMA InitImplements ==
    ASSUME Init
    PROVE  Abs!Init
<1>0. i_flock = <<>> /\ i_flock \in Seq(Entry) /\ Len(i_flock) = 0
  BY InitQueues DEF Init, Queues
<1>1. Held = [o \in Owners |-> [x \in Bytes |-> HeldOf(i_flock, o, x)]]
  BY <1>0, HeldFunction
<1>2. ASSUME NEW o, NEW x PROVE HeldOf(i_flock, o, x) = "F_UNLCK"
  <2>1. {i \in 1 .. Len(i_flock) : i_flock[i].owner = o /\ i_flock[i].start <= x /\ x <= i_flock[i].end} = {}
    BY <1>0
  <2> QED
    BY <2>1 DEF HeldOf
<1> QED
  BY <1>1, <1>2 DEF Abs!Init

\* As long as no request reaches OFFSET_MAX, what lock_it and fcntl_remove_locks
\* do to the list is, byte by byte, what record locking promises: a granted
\* request changes the caller's bytes in its range and no other, only when no
\* other owner's lock stands in the way; a refused one changes none.
THEOREM ListImplementsByteLocks == RegionsInner => (Spec => ImplementsByteLocks)
<1> SUFFICES ASSUME RegionsInner PROVE Spec => ImplementsByteLocks
  OBVIOUS
<1>1. ASSUME Tidy, [Next]_vars PROVE Tidy' /\ [Abs!Next]_Held
  <2>1. Tidy' /\ Moves
    BY <1>1, NextTidy
  <2> QED
    BY <1>1, <2>1, MovesImplement
<1> QED
  BY <1>1, InitTidy, InitImplements, PTL DEF Spec, ImplementsByteLocks, Abs!Spec

LEMMA HeldTyped ==
    ASSUME Tidy
    PROVE  Abs!TypeOK
<1>0. /\ i_flock \in Seq(Entry) /\ Neat(i_flock) /\ \A x \in Bytes : x \in Int
  BY OffsetAssumption DEF Tidy, Queues, Bytes
<1>1. Held = [o \in Owners |-> [x \in Bytes |-> HeldOf(i_flock, o, x)]]
  BY <1>0, HeldFunction
<1>2. ASSUME NEW o \in Owners, NEW x \in Bytes PROVE HeldOf(i_flock, o, x) \in Types \cup {"F_UNLCK"}
  BY <1>0, HeldIs
<1> QED
  BY <1>1, <1>2 DEF Abs!TypeOK, Abs!LockTypes, Types

\* A change of the locks of one owner that respects the others' locks.
LEMMA ChangeExcludes ==
    ASSUME Abs!TypeOK, Abs!Exclusion, NEW o \in Owners, NEW t \in Types \cup {"F_UNLCK"}, NEW B,
           t # "F_UNLCK" => Abs!Allowed(o, t, B), Held' = [Held EXCEPT ![o] = Abs!Changed(o, t, B)]
    PROVE  Abs!Exclusion'
<1>0. Held \in [Owners -> [Bytes -> Types \cup {"F_UNLCK"}]]
  BY DEF Abs!TypeOK, Abs!LockTypes, Types
<1>1. /\ \A q \in Owners \ {o} : Held'[q] = Held[q]
      /\ \A b \in Bytes : Held'[o][b] = IF b \in B THEN t ELSE Held[o][b]
  BY <1>0 DEF Abs!Changed
<1>2. ASSUME NEW p \in Owners, NEW q \in Owners, NEW b \in Bytes, p # q, Held'[p][b] = "F_WRLCK"
      PROVE  Held'[q][b] = "F_UNLCK"
  <2>1. CASE (p # o /\ q # o) \/ b \notin B
    <3>1. Held'[p][b] = Held[p][b] /\ Held'[q][b] = Held[q][b]
      BY <1>1, <2>1
    <3> QED
      BY <1>2, <3>1 DEF Abs!Exclusion
  <2>2. CASE p = o /\ b \in B
    <3>1. t = "F_WRLCK"
      BY <1>1, <1>2, <2>2
    <3>2. Held[q][b] = "F_UNLCK"
      BY <1>2, <2>2, <3>1 DEF Abs!Allowed
    <3> QED
      BY <1>1, <1>2, <2>2, <3>2
  <2>3. CASE q = o /\ b \in B
    <3>1. Held[p][b] = "F_WRLCK"
      BY <1>1, <1>2, <2>3
    <3>2. t = "F_UNLCK"
      BY <1>2, <2>3, <3>1 DEF Abs!Allowed
    <3> QED
      BY <1>1, <2>3, <3>2
  <2> QED
    BY <2>1, <2>2, <2>3
<1> QED
  BY <1>2 DEF Abs!Exclusion

LEMMA StepExcludes ==
    ASSUME Abs!TypeOK, Abs!Exclusion, [Abs!Next]_Held
    PROVE  Abs!Exclusion'
<1>1. CASE Held' = Held
  BY <1>1 DEF Abs!Exclusion
<1>2. CASE Abs!Next
  <2>1. PICK o \in Owners, B \in Abs!Ranges :
            Abs!Unlock(o, B) \/ \E t \in Abs!LockTypes : Abs!Lock(o, t, B)
    BY <1>2, Zenon DEF Abs!Next
  <2>2. CASE Abs!Unlock(o, B)
    <3>1. PICK t \in Types \cup {"F_UNLCK"} : t = "F_UNLCK"
      OBVIOUS
    <3>2. Held' = [Held EXCEPT ![o] = Abs!Changed(o, t, B)]
      BY <2>2, <3>1 DEF Abs!Unlock
    <3> QED
      BY <3>1, <3>2, ChangeExcludes, Zenon
  <2>3. ASSUME NEW t \in Abs!LockTypes, Abs!Lock(o, t, B) PROVE Abs!Exclusion'
    <3>1. t \in Types \cup {"F_UNLCK"}
      BY DEF Abs!LockTypes, Types
    <3>2. Abs!Allowed(o, t, B) /\ Held' = [Held EXCEPT ![o] = Abs!Changed(o, t, B)]
      BY <2>3 DEF Abs!Lock
    <3> QED
      BY <3>1, <3>2, ChangeExcludes, Zenon
  <2> QED
    BY <2>1, <2>2, <2>3
<1> QED
  BY <1>1, <1>2

\* As long as no request reaches OFFSET_MAX, a byte that one owner has locked for
\* writing is locked by nobody else: what conflict() is there for.
THEOREM LocksExclude == RegionsInner => (Spec => []Abs!Exclusion)
<1> SUFFICES ASSUME RegionsInner PROVE Spec => []Abs!Exclusion
  OBVIOUS
<1>1. ASSUME Init PROVE Abs!Exclusion
  <2>1. Held = [o \in Owners |-> [b \in Bytes |-> "F_UNLCK"]]
    BY <1>1, InitImplements DEF Abs!Init
  <2> QED
    BY <2>1 DEF Abs!Exclusion
<1>2. ASSUME Tidy, Abs!Exclusion, [Next]_vars PROVE Tidy' /\ Abs!Exclusion'
  <2>1. Tidy' /\ Moves
    BY <1>2, NextTidy
  <2>2. [Abs!Next]_Held
    BY <1>2, <2>1, MovesImplement
  <2> QED
    BY <1>2, <2>1, <2>2, HeldTyped, StepExcludes
<1> QED
  BY <1>1, <1>2, InitTidy, PTL DEF Spec

=============================================================================
