--------------------------- MODULE TcpStreamProofs ---------------------------
(***************************************************************************)
(* Proofs about TcpStream, for every size of the buffers, windows and of   *)
(* the network: the receive queue is in order and has what the reader      *)
(* needs, no segment is forgotten, the offered window is kept, and the     *)
(* sender always has a timer set for what is left.                         *)
(***************************************************************************)
EXTENDS TcpStream, FiniteSetTheorems, SequenceTheorems, WellFoundedInduction, TLAPS

\* The queue holds numbers in a row: a + 1 up to b.
Run(q, a, b) ==
    /\ q \in Seq(Nat) /\ Len(q) = b - a
    /\ \A n \in 1..b - a : q[n] = a + n

SndType ==
    [write_seq : 0..MaxSeq, sent_seq : Nat, rcv_ack_seq : Nat, window_seq : Int,
     send_head : Seq(Nat), wfront : Seq(Nat), cong_window : Nat \ {0},
     retransmits : BOOLEAN, timeout : {"none", "TIME_WRITE", "TIME_PROBE0"},
     timer : BOOLEAN]

RcvType ==
    [acked_seq : Nat, copied : Nat, rqueue : Seq(Nat), window : Int,
     ack_backlog : BOOLEAN, timer : BOOLEAN]

\* Every acknowledged segment has been read or waits to be.
NoneLost(r) == \A i \in 1..r.acked_seq : i <= r.copied \/ i \in ToSet(r.rqueue)

\* The queue is in order and has no segment twice.
Sorted(q) == q \in Seq(Nat) /\ \A a, b \in 1..Len(q) : a < b => q[a] < q[b]

\* The queue of the receiver has only what was written, and nothing that
\* could be acknowledged.
QueueOf(q, acked, top) ==
    Sorted(q) /\ ToSet(q) \subseteq 1..top /\ acked + 1 \notin ToSet(q)

ReceiverOK(r, top) ==
    /\ r \in RcvType /\ NoneLost(r)
    /\ r.acked_seq <= top /\ QueueOf(r.rqueue, r.acked_seq, top)

\* The two queues of the sender hold, in a row, all that was written after
\* number lo: the first up to mid, the second the rest.
Rows(s, lo, mid) ==
    /\ lo \in Nat /\ mid \in Nat /\ lo <= mid /\ mid <= s.write_seq
    /\ Run(s.send_head, lo, mid) /\ Run(s.wfront, mid, s.write_seq)

\* What is not with the sender any more has been acknowledged.
InARow(s, acked) == \E lo, mid \in Nat : Rows(s, lo, mid) /\ lo <= acked

\* What is in the write queue could not be sent when tcp_ack last looked; it
\* is for this that tcp_write may send a new segment past an empty queue only.
Blocked(s) ==
    s.wfront # <<>> => \/ s.wfront[1] > s.window_seq
                       \/ Retransmitting(s)
                       \/ packets_out(s) >= s.cong_window

\* Segments are sent again only if there are any.
SomethingToRepeat(s) == Retransmitting(s) => s.send_head # <<>>

TimerOf(s) ==
    /\ s.send_head # <<>> => s.timer /\ s.timeout = "TIME_WRITE"
    /\ s.wfront # <<>> => s.timer

SenderOK(s, acked) ==
    /\ s \in SndType /\ s.rcv_ack_seq <= acked
    /\ InARow(s, acked) /\ Blocked(s) /\ SomethingToRepeat(s) /\ TimerOf(s)

\* Packets carry what was written, and acknowledge what has arrived.
Packets(net, top) ==
    /\ net \subseteq [kind : {"data", "probe"}, h : Nat]
    /\ \A m \in net : m.kind = "data" => m.h \in 1..top
Acks(net, acked) ==
    /\ net \subseteq [ack : Nat, window : Int]
    /\ \A m \in net : m.ack <= acked

\* The inductive invariant.
IInv ==
    /\ ReceiverOK(rcv, snd.write_seq)
    /\ SenderOK(snd, rcv.acked_seq)
    /\ Packets(toR, snd.write_seq)
    /\ Acks(toS, rcv.acked_seq)

-----------------------------------------------------------------------------
(* Constants and small operators.                                          *)

\* The bounds, one by one.
LEMMA Constants ==
    /\ MaxSeq \in Nat \ {0} /\ SendBuf \in Nat \ {0} /\ CongMax \in Nat \ {0}
    /\ RcvBuf \in Nat \ {0} /\ SkbMem \in Nat \ {0} /\ MAX_WINDOW \in Nat \ {0}
    /\ NetCap \in Nat \ {0} /\ MIN_WINDOW \in Nat
  BY TcpAssumption

\* Every set of naturals has a least element.
LEMMA LeastNatural ==
    ASSUME NEW S, S \subseteq Nat, S # {}
    PROVE  LeastOf(S) \in S /\ \A j \in S : LeastOf(S) <= j
<1>1. PICK x \in S : \A y \in S : <<y, x>> \notin OpToRel(<, Nat)
  BY NatLessThanWellFounded, WFMin
<1>2. \A y \in S : x <= y
  <2> TAKE y \in S
  <2>1. x \in Nat /\ y \in Nat
    OBVIOUS
  <2>2. y < x => <<y, x>> \in OpToRel(<, Nat)
    BY <2>1 DEF OpToRel
  <2>3. ~(y < x)
    BY <1>1, <2>2, Zenon
  <2> QED
    BY <2>1, <2>3
<1> QED
  BY <1>2 DEF LeastOf

LEMMA RspaceType == ASSUME NEW n \in Nat PROVE Rspace(n) \in Int
  BY Constants DEF Rspace, Below

\* A set of numbers with a bound has a largest element.
LEMMA LargestNatural ==
    ASSUME NEW b \in Nat, NEW S, S \subseteq 0..b, S # {}
    PROVE  LargestOf(S) \in S /\ \A j \in S : j <= LargestOf(S)
<1> DEFINE D == {b - x : x \in S}
<1>1. D \subseteq Nat /\ D # {}
  <2>1. \A x \in S : b - x \in Nat
    OBVIOUS
  <2> QED
    BY <2>1
<1>2. PICK d \in D : \A e \in D : d <= e
  BY <1>1, LeastNatural
<1>3. PICK x \in S : d = b - x
  BY <1>2
<1>4. \A y \in S : y <= x
  <2> TAKE y \in S
  <2>1. d <= b - y
    BY <1>2
  <2>2. x \in 0..b /\ y \in 0..b
    OBVIOUS
  <2> QED
    BY <1>3, <2>1, <2>2
<1> QED
  BY <1>4 DEF LargestOf

-----------------------------------------------------------------------------
(* Rows of numbers.                                                        *)

LEMMA RunEmpty ==
    ASSUME NEW a \in Nat, NEW b \in Nat, a <= b, NEW q, Run(q, a, b)
    PROVE  /\ q = <<>> <=> a = b
           /\ q # <<>> => q[1] = a + 1 /\ q[Len(q)] = b
<1>1. q \in Seq(Nat) /\ Len(q) = b - a
  BY DEF Run
<1>2. q = <<>> <=> Len(q) = 0
  BY <1>1
<1>3. q = <<>> <=> a = b
  BY <1>1, <1>2
<1>4. ASSUME q # <<>> PROVE q[1] = a + 1 /\ q[Len(q)] = b
  <2>1. b - a \in 1..b - a /\ 1 \in 1..b - a
    BY <1>3, <1>4
  <2> QED
    BY <2>1, <1>1 DEF Run
<1> QED
  BY <1>3, <1>4

LEMMA RunConcat ==
    ASSUME NEW a \in Nat, NEW b \in Nat, NEW c \in Nat, a <= b, b <= c,
           NEW q, NEW r, Run(q, a, b), Run(r, b, c)
    PROVE  Run(q \o r, a, c)
<1>1. q \in Seq(Nat) /\ Len(q) = b - a /\ r \in Seq(Nat) /\ Len(r) = c - b
  BY DEF Run
<1>2. /\ q \o r \in Seq(Nat) /\ Len(q \o r) = Len(q) + Len(r)
      /\ \A n \in 1..Len(q) + Len(r) :
            (q \o r)[n] = IF n <= Len(q) THEN q[n] ELSE r[n - Len(q)]
  BY <1>1, ConcatProperties
<1>3. ASSUME NEW n \in 1..c - a PROVE (q \o r)[n] = a + n
  <2>1. CASE n <= b - a
    <3>1. n \in 1..b - a /\ n \in 1..Len(q) + Len(r) /\ n <= Len(q)
      BY <1>1, <2>1
    <3>2. (q \o r)[n] = q[n]
      BY <1>2, <3>1
    <3> QED
      BY <3>1, <3>2 DEF Run
  <2>2. CASE n > b - a
    <3>1. n - (b - a) \in 1..c - b
      BY <2>2
    <3>2. r[n - (b - a)] = b + (n - (b - a))
      BY <3>1 DEF Run
    <3>3. (q \o r)[n] = r[n - (b - a)]
      BY <1>1, <1>2, <2>2
    <3> QED
      BY <3>2, <3>3
  <2> QED
    BY <2>1, <2>2, <1>1
<1>4. Len(q \o r) = c - a
  BY <1>1, <1>2
<1> QED
  BY <1>2, <1>3, <1>4 DEF Run

LEMMA RunAppend ==
    ASSUME NEW a \in Nat, NEW b \in Nat, a <= b, NEW q, Run(q, a, b)
    PROVE  Run(Append(q, b + 1), a, b + 1)
<1>1. q \in Seq(Nat) /\ Len(q) = b - a
  BY DEF Run
<1>2. /\ Append(q, b + 1) \in Seq(Nat) /\ Len(Append(q, b + 1)) = b + 1 - a
      /\ \A n \in 1..b - a : Append(q, b + 1)[n] = q[n]
      /\ Append(q, b + 1)[b - a + 1] = b + 1
  BY <1>1
<1>3. \A n \in 1..b - a : Append(q, b + 1)[n] = a + n
  BY <1>2 DEF Run
<1>4. ASSUME NEW n \in 1..b + 1 - a PROVE Append(q, b + 1)[n] = a + n
  <2>1. CASE n \in 1..b - a
    BY <1>3, <2>1
  <2>2. CASE n = b - a + 1
    BY <1>2, <2>2
  <2> QED
    BY <2>1, <2>2, <1>1
<1> QED
  BY <1>2, <1>4 DEF Run

\* The parts of a row.
LEMMA RunParts ==
    ASSUME NEW a \in Nat, NEW b \in Nat, a <= b, NEW q, Run(q, a, b), NEW k \in 0..b - a
    PROVE  /\ Run(SubSeq(q, 1, k), a, a + k)
           /\ Run(SubSeq(q, k + 1, Len(q)), a + k, b)
<1>1. q \in Seq(Nat) /\ Len(q) = b - a
  BY DEF Run
<1>2. /\ SubSeq(q, 1, k) \in Seq(Nat) /\ Len(SubSeq(q, 1, k)) = k
      /\ \A n \in 1..k : SubSeq(q, 1, k)[n] = q[n]
  BY <1>1
<1>3. /\ SubSeq(q, k + 1, Len(q)) \in Seq(Nat) /\ Len(SubSeq(q, k + 1, Len(q))) = b - (a + k)
      /\ \A n \in 1..b - (a + k) : SubSeq(q, k + 1, Len(q))[n] = q[n + k]
  BY <1>1
<1>4. \A n \in 1..b - (a + k) : n + k \in 1..b - a
  OBVIOUS
<1> QED
  BY <1>2, <1>3, <1>4 DEF Run

\* A row is cut in two by a number.
LEMMA RunCut ==
    ASSUME NEW a \in Nat, NEW b \in Nat, a <= b, NEW q, Run(q, a, b), NEW e \in Int
    PROVE  \E c \in Nat : /\ a <= c /\ c <= b /\ (c <= e \/ c = a)
                          /\ (c < b => e <= c) /\ Run(Upto(q, e), a, c)
                          /\ Run(Beyond(q, e), c, b)
                          /\ Count(q, e) = c - a
<1> DEFINE c == IF e < a THEN a ELSE IF e > b THEN b ELSE e
<1>1. c \in Nat /\ a <= c /\ c <= b /\ (c <= e \/ c = a) /\ (c < b => e <= c)
  OBVIOUS
<1>2. q \in Seq(Nat) /\ Len(q) = b - a /\ DOMAIN q = 1..b - a
  BY DEF Run
<1>3. {n \in DOMAIN q : q[n] <= e} = 1..c - a
  <2>1. \A n \in 1..b - a : q[n] <= e <=> n <= c - a
    BY DEF Run
  <2> HIDE DEF c
  <2> QED
    BY <1>1, <1>2, <2>1
<1> HIDE DEF c
<1>4. Count(q, e) = c - a
  <2>1. Cardinality(1..c - a) = IF 1 > c - a THEN 0 ELSE c - a - 1 + 1
    BY <1>1, FS_Interval
  <2>2. Cardinality(1..c - a) = c - a
    BY <1>1, <2>1
  <2> QED
    BY <1>3, <2>2 DEF Count
<1>5. c - a \in 0..b - a /\ a + (c - a) = c
  BY <1>1
<1>6. Run(Upto(q, e), a, c) /\ Run(Beyond(q, e), c, b)
  BY <1>4, <1>5, RunParts DEF Upto, Beyond
<1> QED
  BY <1>1, <1>4, <1>6

-----------------------------------------------------------------------------
(* The network.                                                            *)

\* Only what is sent is added.
LEMMA SentAllAdds ==
    ASSUME NEW net, NEW q
    PROVE  SentAll(net, q) \subseteq net \cup {q[n] : n \in DOMAIN q}
  BY DEF SentAll

LEMMA SentAdds == ASSUME NEW net, NEW m PROVE Sent(net, m) \subseteq net \cup {m}
<1>1. DOMAIN <<m>> = {1} /\ <<m>>[1] = m
  OBVIOUS
<1> QED
  BY <1>1, SentAllAdds DEF Sent

-----------------------------------------------------------------------------
(* The receive queue.                                                      *)

\* The elements of a queue and the places where they are.
LEMMA Elements ==
    ASSUME NEW q \in Seq(Nat)
    PROVE  /\ Len(q) \in Nat /\ \A n \in 1..Len(q) : q[n] \in Nat /\ q[n] \in ToSet(q)
           /\ \A i \in ToSet(q) : \E n \in 1..Len(q) : i = q[n]
  BY DEF ToSet

\* The search from the tail ends behind the last segment that is not younger.
LEMMA PlaceFound ==
    ASSUME NEW q \in Seq(Nat), NEW i \in Nat
    PROVE  /\ Place(q, i) \in 0..Len(q) /\ (Place(q, i) = 0 \/ q[Place(q, i)] <= i)
           /\ \A m \in 1..Len(q) : Place(q, i) < m => i < q[m]
<1> DEFINE S == {n \in 0..Len(q) : n = 0 \/ q[n] <= i}
<1>0. Len(q) \in Nat /\ \A n \in 1..Len(q) : q[n] \in Nat
  BY Elements
<1>1. S \subseteq 0..Len(q) /\ 0 \in S
  BY <1>0
<1>2. LargestOf(S) \in S /\ \A j \in S : j <= LargestOf(S)
  BY <1>0, <1>1, LargestNatural
<1>3. Place(q, i) = LargestOf(S)
  BY DEF Place
<1> HIDE DEF S
<1>4. PICK p : p = Place(q, i)
  OBVIOUS
<1>5. p \in S /\ \A j \in S : j <= p
  BY <1>2, <1>3, <1>4
<1>6. p \in 0..Len(q) /\ (p = 0 \/ q[p] <= i)
  BY <1>5 DEF S
<1>7. ASSUME NEW m \in 1..Len(q), p < m PROVE i < q[m]
  <2>1. m \notin S
    BY <1>0, <1>5, <1>6, <1>7
  <2>2. m \in 0..Len(q) /\ q[m] \in Nat
    BY <1>0
  <2> QED
    BY <2>1, <2>2 DEF S
<1> QED
  BY <1>4, <1>6, <1>7

\* A segment between the others.
Inserted(s, q, p, i) ==
    /\ s \in Seq(Nat) /\ Len(s) = Len(q) + 1
    /\ \A n \in 1..Len(q) + 1 :
          s[n] = IF n <= p THEN q[n] ELSE IF n = p + 1 THEN i ELSE q[n - 1]

LEMMA InsertedAt ==
    ASSUME NEW q \in Seq(Nat), NEW i \in Nat, NEW p \in 0..Len(q)
    PROVE  Inserted(InsertAt(q, p + 1, i), q, p, i)
<1> DEFINE a == SubSeq(q, 1, p)
           c == SubSeq(q, p + 1, Len(q))
           d == a \o <<i>>
<1>0. Len(q) \in Nat
  BY Elements
<1>1. a \in Seq(Nat) /\ Len(a) = p /\ \A n \in 1..p : a[n] = q[n]
  BY <1>0
<1>2. c \in Seq(Nat) /\ Len(c) = Len(q) - p /\ \A n \in 1..Len(q) - p : c[n] = q[n + p]
  BY <1>0
<1>3. <<i>> \in Seq(Nat) /\ Len(<<i>>) = 1 /\ <<i>>[1] = i
  OBVIOUS
<1>4. InsertAt(q, p + 1, i) = d \o c
  <2>1. PICK e : e = p + 1
    OBVIOUS
  <2>2. e - 1 = p
    BY <1>0, <2>1
  <2>3. InsertAt(q, e, i) = SubSeq(q, 1, e - 1) \o <<i>> \o SubSeq(q, e, Len(q))
    BY Zenon DEF InsertAt
  <2> QED
    BY <2>1, <2>2, <2>3, Zenon
<1> HIDE DEF a, c
<1>5. /\ d \in Seq(Nat) /\ Len(d) = p + 1
      /\ \A n \in 1..p + 1 : d[n] = IF n <= p THEN a[n] ELSE <<i>>[n - p]
  BY <1>1, <1>3, ConcatProperties
<1>6. \A n \in 1..p + 1 : d[n] = IF n <= p THEN q[n] ELSE i
  <2> TAKE n \in 1..p + 1
  <2>1. CASE n <= p
    BY <1>0, <1>1, <1>5, <2>1
  <2>2. CASE ~(n <= p)
    <3>1. n - p = 1
      BY <1>0, <2>2
    <3> QED
      BY <1>3, <1>5, <2>2, <3>1
  <2> QED
    BY <2>1, <2>2
<1> HIDE DEF d
<1>7. /\ d \o c \in Seq(Nat) /\ Len(d \o c) = Len(q) + 1
      /\ \A n \in 1..Len(q) + 1 : (d \o c)[n] = IF n <= p + 1 THEN d[n] ELSE c[n - (p + 1)]
  <2>1. /\ d \o c \in Seq(Nat) /\ Len(d \o c) = Len(d) + Len(c)
        /\ \A n \in 1..Len(d) + Len(c) :
              (d \o c)[n] = IF n <= Len(d) THEN d[n] ELSE c[n - Len(d)]
    BY <1>2, <1>5, ConcatProperties
  <2>2. Len(d) = p + 1 /\ Len(d) + Len(c) = Len(q) + 1
    BY <1>0, <1>2, <1>5
  <2> QED
    BY <2>1, <2>2
<1>8. ASSUME NEW n \in 1..Len(q) + 1
      PROVE  (d \o c)[n] = IF n <= p THEN q[n] ELSE IF n = p + 1 THEN i ELSE q[n - 1]
  <2>1. CASE n <= p + 1
    <3>1. (d \o c)[n] = IF n <= p THEN q[n] ELSE i
      BY <1>0, <1>6, <1>7, <2>1
    <3> QED
      BY <1>0, <2>1, <3>1
  <2>2. CASE ~(n <= p + 1)
    <3>1. n - (p + 1) \in 1..Len(q) - p /\ n - (p + 1) + p = n - 1
      BY <1>0, <2>2
    <3>2. (d \o c)[n] = q[n - 1]
      BY <1>2, <1>7, <2>2, <3>1
    <3>3. ~(n <= p) /\ n # p + 1
      BY <1>0, <2>2
    <3> QED
      BY <3>2, <3>3
  <2> QED
    BY <2>1, <2>2
<1>9. Inserted(d \o c, q, p, i)
  BY <1>7, <1>8 DEF Inserted
<1> QED
  BY <1>4, <1>9, Zenon

\* A sorted queue stays sorted, and has one more segment unless it had it.
LEMMA InsertSorts ==
    ASSUME NEW q, Sorted(q), NEW i \in Nat
    PROVE  /\ Sorted(Insert(q, i)) /\ ToSet(Insert(q, i)) = ToSet(q) \cup {i}
           /\ Place(Insert(q, i), i) \in 1..Len(Insert(q, i))
           /\ Insert(q, i)[Place(Insert(q, i), i)] = i
<1>1. q \in Seq(Nat) /\ \A a, b \in 1..Len(q) : a < b => q[a] < q[b]
  BY DEF Sorted
<1>2. Len(q) \in Nat /\ \A n \in 1..Len(q) : q[n] \in Nat
  BY <1>1, Elements
<1>3. PICK p : p = Place(q, i)
  OBVIOUS
<1>4. /\ p \in 0..Len(q) /\ (p = 0 \/ q[p] <= i)
      /\ \A m \in 1..Len(q) : p < m => i < q[m]
  BY <1>1, <1>3, PlaceFound
<1>5. CASE p > 0 /\ q[p] = i
  <2>1. Insert(q, i) = q
    BY <1>3, <1>5 DEF Insert
  <2>2. p \in 1..Len(q)
    BY <1>2, <1>4, <1>5
  <2>3. i \in ToSet(q)
    BY <1>1, <1>5, <2>2, Elements
  <2> QED
    BY <1>3, <1>5, <2>1, <2>2, <2>3
<1>6. CASE ~(p > 0 /\ q[p] = i)
  <2>1. Insert(q, i) = InsertAt(q, p + 1, i)
    BY <1>3, <1>6 DEF Insert
  <2>2. PICK s : s = Insert(q, i)
    OBVIOUS
  <2>3. /\ s \in Seq(Nat) /\ Len(s) = Len(q) + 1
        /\ \A n \in 1..Len(q) + 1 : s[n] = IF n <= p THEN q[n] ELSE IF n = p + 1 THEN i ELSE q[n - 1]
    <3>1. Inserted(InsertAt(q, p + 1, i), q, p, i)
      BY <1>1, <1>4, InsertedAt
    <3>2. Inserted(s, q, p, i)
      BY <2>1, <2>2, <3>1, Zenon
    <3> QED
      BY <3>2, Zenon DEF Inserted
  <2>4. \A n \in 1..Len(q) : n <= p => q[n] < i
    <3> SUFFICES ASSUME NEW n \in 1..Len(q), n <= p PROVE q[n] < i
      OBVIOUS
    <3>1. p \in 1..Len(q) /\ q[p] < i
      BY <1>2, <1>4, <1>6
    <3>2. n = p \/ q[n] < q[p]
      BY <1>1, <1>2, <3>1
    <3> QED
      BY <1>2, <3>1, <3>2
  <2>5. \A a, b \in 1..Len(s) : a < b => s[a] < s[b]
    <3> SUFFICES ASSUME NEW a \in 1..Len(q) + 1, NEW b \in 1..Len(q) + 1, a < b
                 PROVE  s[a] < s[b]
      BY <2>3
    <3>1. CASE b <= p
      <4>1. a \in 1..Len(q) /\ b \in 1..Len(q) /\ a <= p
        BY <1>2, <1>4, <3>1
      <4> QED
        BY <1>1, <2>3, <3>1, <4>1
    <3>2. CASE b = p + 1
      <4>1. a \in 1..Len(q) /\ a <= p /\ ~(b <= p)
        BY <1>2, <1>4, <3>2
      <4> QED
        BY <2>3, <2>4, <3>2, <4>1
    <3>3. CASE b > p + 1
      <4>1. b - 1 \in 1..Len(q) /\ ~(b <= p) /\ b # p + 1 /\ p < b - 1
        BY <1>2, <1>4, <3>3
      <4>2. s[b] = q[b - 1] /\ i < q[b - 1] /\ q[b - 1] \in Nat
        BY <1>2, <1>4, <2>3, <4>1
      <4>3. CASE a <= p
        <5>1. a \in 1..Len(q) /\ a < b - 1
          BY <1>2, <1>4, <4>1, <4>3
        <5> QED
          BY <1>1, <2>3, <4>1, <4>2, <4>3, <5>1
      <4>4. CASE a = p + 1
        <5>1. ~(a <= p)
          BY <1>2, <1>4, <4>4
        <5> QED
          BY <2>3, <4>2, <4>4, <5>1
      <4>5. CASE a > p + 1
        <5>1. a - 1 \in 1..Len(q) /\ a - 1 < b - 1 /\ ~(a <= p) /\ a # p + 1
          BY <1>2, <1>4, <4>5
        <5>2. s[a] = q[a - 1] /\ q[a - 1] < q[b - 1]
          BY <1>1, <2>3, <4>1, <5>1
        <5> QED
          BY <4>2, <5>2
      <4> QED
        BY <1>4, <4>3, <4>4, <4>5
    <3> QED
      BY <1>4, <3>1, <3>2, <3>3
  <2>6. Sorted(s)
    BY <2>3, <2>5 DEF Sorted
  <2>7. p + 1 \in 1..Len(s) /\ s[p + 1] = i
    <3>1. p + 1 \in 1..Len(q) + 1 /\ ~(p + 1 <= p)
      BY <1>2, <1>4
    <3> QED
      BY <2>3, <3>1
  <2>8. ToSet(s) = ToSet(q) \cup {i}
    <3>1. ASSUME NEW x \in ToSet(s) PROVE x \in ToSet(q) \cup {i}
      <4>1. PICK n \in 1..Len(s) : x = s[n]
        BY <2>3, Elements
      <4>2. n \in 1..Len(q) + 1
        BY <2>3
      <4>3. CASE n <= p
        <5>1. n \in 1..Len(q) /\ x = q[n]
          BY <1>2, <1>4, <2>3, <4>1, <4>2, <4>3
        <5> QED
          BY <1>1, <5>1, Elements
      <4>4. CASE n = p + 1
        BY <2>7, <4>1, <4>4
      <4>5. CASE n > p + 1
        <5>1. n - 1 \in 1..Len(q) /\ ~(n <= p) /\ n # p + 1
          BY <1>2, <1>4, <4>2, <4>5
        <5>2. x = q[n - 1]
          BY <2>3, <4>1, <4>2, <5>1
        <5> QED
          BY <1>1, <5>1, <5>2, Elements
      <4> QED
        BY <1>4, <4>2, <4>3, <4>4, <4>5
    <3>2. ASSUME NEW x \in ToSet(q) PROVE x \in ToSet(s)
      <4>1. PICK n \in 1..Len(q) : x = q[n]
        BY <1>1, Elements
      <4>2. CASE n <= p
        <5>1. n \in 1..Len(s) /\ s[n] = x
          BY <1>2, <1>4, <2>3, <4>1, <4>2
        <5> QED
          BY <2>3, <5>1, Elements
      <4>3. CASE n > p
        <5>1. n + 1 \in 1..Len(q) + 1 /\ ~(n + 1 <= p) /\ n + 1 # p + 1 /\ n + 1 - 1 = n
          BY <1>2, <1>4, <4>3
        <5>2. n + 1 \in 1..Len(s) /\ s[n + 1] = x
          BY <2>3, <4>1, <5>1
        <5> QED
          BY <2>3, <5>2, Elements
      <4> QED
        BY <1>4, <4>2, <4>3
    <3>3. i \in ToSet(s)
      BY <2>3, <2>7, Elements
    <3> QED
      BY <3>1, <3>2, <3>3
  <2>9. Place(s, i) \in 1..Len(s) /\ s[Place(s, i)] = i
    <3>1. PICK g : g = Place(s, i)
      OBVIOUS
    <3>2. /\ g \in 0..Len(s) /\ (g = 0 \/ s[g] <= i)
          /\ \A m \in 1..Len(s) : g < m => i < s[m]
      BY <2>3, <3>1, PlaceFound
    <3>3. ~(g < p + 1)
      BY <2>7, <3>2
    <3>4. Len(s) \in Nat /\ g \in 1..Len(s)
      BY <1>2, <1>4, <2>3, <3>2, <3>3
    <3>5. s[g] <= i
      BY <3>2, <3>4
    <3>6. g > p + 1 => i < s[g]
      BY <2>5, <2>7, <3>4
    <3>7. s[g] \in Nat
      BY <2>3, <3>4, Elements
    <3>8. g = p + 1
      BY <1>4, <3>3, <3>4, <3>5, <3>6, <3>7
    <3> QED
      BY <2>7, <3>1, <3>8
  <2> QED
    BY <2>2, <2>6, <2>8, <2>9
<1> QED
  BY <1>5, <1>6

\* AckedTo is the end of the segments without a gap.
LEMMA AckedToEnd ==
    ASSUME NEW top \in Nat, NEW a \in Nat, a <= top, NEW q, Sorted(q), ToSet(q) \subseteq 1..top,
           NEW i \in Nat, i - 1 <= a, Place(q, i) \in 1..Len(q), q[Place(q, i)] = i
    PROVE  /\ AckedTo(a, q, i) \in Nat /\ a <= AckedTo(a, q, i) /\ AckedTo(a, q, i) <= top
           /\ \A j \in a + 1..AckedTo(a, q, i) : j \in ToSet(q)
           /\ AckedTo(a, q, i) + 1 \notin ToSet(q)
<1> DEFINE Upon(p, n) == LargestOf({a} \cup {q[k] : k \in p..n})
           L(p) == {n \in p..Len(q) : n = Len(q) \/ q[n + 1] - 1 > Upon(p, n)}
<1>1. q \in Seq(Nat) /\ \A b, c \in 1..Len(q) : b < c => q[b] < q[c]
  BY DEF Sorted
<1>2. Len(q) \in Nat /\ \A n \in 1..Len(q) : q[n] \in Nat /\ q[n] \in ToSet(q) /\ q[n] <= top
  <2>1. Len(q) \in Nat /\ \A n \in 1..Len(q) : q[n] \in Nat /\ q[n] \in ToSet(q)
    BY <1>1, Elements
  <2> QED
    BY <2>1
<1>3. PICK p : p = Place(q, i)
  OBVIOUS
<1>4. p \in 1..Len(q) /\ q[p] = i
  BY <1>3
<1>5. AckedTo(a, q, i) = Upon(p, LeastOf(L(p)))
  BY <1>3 DEF AckedTo
<1>6. \A n \in p..Len(q) : /\ Upon(p, n) \in Nat /\ a <= Upon(p, n) /\ Upon(p, n) <= top
                           /\ \A k \in p..n : q[k] <= Upon(p, n)
                           /\ Upon(p, n) = a \/ \E k \in p..n : Upon(p, n) = q[k]
  <2> TAKE n \in p..Len(q)
  <2> DEFINE S == {a} \cup {q[k] : k \in p..n}
  <2>1. \A k \in p..n : k \in 1..Len(q) /\ q[k] \in 0..top
    BY <1>2, <1>4
  <2>2. S \subseteq 0..top /\ a \in S
    BY <2>1
  <2>3. LargestOf(S) \in S /\ \A j \in S : j <= LargestOf(S)
    BY <2>2, LargestNatural
  <2>4. Upon(p, n) = LargestOf(S)
    OBVIOUS
  <2>5. PICK x : x = LargestOf(S)
    OBVIOUS
  <2>6. x \in S /\ \A j \in S : j <= x
    BY <2>3, <2>5
  <2>7. x = Upon(p, n)
    BY <2>4, <2>5
  <2> HIDE DEF Upon
  <2>8. /\ x \in Nat /\ a <= x /\ x <= top /\ \A k \in p..n : q[k] <= x
        /\ x = a \/ \E k \in p..n : x = q[k]
    <3>1. x \in 0..top /\ a <= x
      BY <2>2, <2>6
    <3>2. \A k \in p..n : q[k] \in S
      OBVIOUS
    <3>3. \A k \in p..n : q[k] <= x
      BY <2>6, <3>2, Zenon
    <3>4. x = a \/ \E k \in p..n : x = q[k]
      BY <2>6
    <3> QED
      BY <3>1, <3>3, <3>4
  <2> QED
    BY <2>7, <2>8
<1> HIDE DEF Upon
<1>7. L(p) \subseteq Nat /\ Len(q) \in L(p)
  BY <1>2, <1>4
<1>8. PICK last : last = LeastOf(L(p))
  OBVIOUS
<1>9. last \in L(p) /\ \A n \in L(p) : last <= n
  BY <1>7, <1>8, LeastNatural
<1>10. /\ last \in p..Len(q) /\ (last = Len(q) \/ q[last + 1] - 1 > Upon(p, last))
       /\ \A n \in p..Len(q) : n < last => ~(n = Len(q) \/ q[n + 1] - 1 > Upon(p, n))
  <2>1. \A n \in p..Len(q) : n < last => n \notin L(p)
    BY <1>2, <1>4, <1>9
  <2> QED
    BY <1>9, <2>1
<1> HIDE DEF L
<1>11. PICK x : x = Upon(p, last)
  OBVIOUS
<1>12. /\ x \in Nat /\ a <= x /\ x <= top /\ \A k \in p..last : q[k] <= x
       /\ x = a \/ \E k \in p..last : x = q[k]
  BY <1>6, <1>10, <1>11
<1>13. ASSUME NEW j \in a + 1..x, j \notin ToSet(q) PROVE FALSE
  <2> DEFINE M == {n \in p..last : q[n] > j}
  <2>1. PICK k \in p..last : x = q[k]
    BY <1>12, <1>13
  <2>2. k \in 1..Len(q) /\ q[k] # j
    BY <1>2, <1>4, <1>10, <1>13
  <2>3. k \in M
    BY <1>12, <2>1, <2>2
  <2>4. M \subseteq Nat
    BY <1>4, <1>10, <1>2
  <2>5. PICK n \in M : \A m \in M : n <= m
    BY <2>3, <2>4, LeastNatural
  <2>6. n \in p..last /\ n \in 1..Len(q) /\ q[n] > j
    BY <1>2, <1>4, <1>10, <2>5
  <2>7. i < j
    <3>1. i \in ToSet(q)
      BY <1>2, <1>4
    <3> QED
      BY <1>13, <3>1
  <2>8. n # p
    BY <1>4, <2>6, <2>7
  <2>9. /\ n - 1 \in p..Len(q) /\ n - 1 \in p..last /\ n - 1 < last /\ n - 1 \in 1..Len(q)
        /\ n - 1 + 1 = n /\ ~(n <= n - 1)
    BY <1>2, <1>4, <1>10, <2>6, <2>8
  <2>10. ~(q[n] - 1 > Upon(p, n - 1))
    BY <1>10, <2>9
  <2>11. n - 1 \notin M
    BY <2>5, <2>9
  <2>12. ~(q[n - 1] > j) /\ q[n - 1] \in Nat /\ q[n - 1] # j
    BY <1>2, <1>13, <2>9, <2>11
  <2>13. \A m \in p..n - 1 : q[m] <= q[n - 1]
    <3> TAKE m \in p..n - 1
    <3>1. m \in 1..Len(q) /\ (m = n - 1 \/ m < n - 1)
      BY <1>2, <1>4, <2>6, <2>9
    <3>2. q[m] \in Nat /\ q[n - 1] \in Nat
      BY <1>2, <2>9, <3>1
    <3>3. m = n - 1 \/ q[m] < q[n - 1]
      BY <1>1, <2>9, <3>1
    <3> QED
      BY <3>2, <3>3
  <2>14. /\ Upon(p, n - 1) \in Nat
         /\ Upon(p, n - 1) = a \/ \E m \in p..n - 1 : Upon(p, n - 1) = q[m]
    BY <1>6, <2>9
  <2>15. Upon(p, n - 1) = a \/ Upon(p, n - 1) <= q[n - 1]
    BY <2>13, <2>14
  <2>16. Upon(p, n - 1) < j
    BY <2>12, <2>14, <2>15
  <2>17. q[n] \in Nat
    BY <1>2, <2>6
  <2> QED
    BY <2>6, <2>10, <2>14, <2>16, <2>17
<1>14. x + 1 \notin ToSet(q)
  <2> SUFFICES ASSUME NEW m \in 1..Len(q), q[m] = x + 1 PROVE FALSE
    BY <1>1, Elements
  <2>1. CASE m < p
    <3>1. q[m] < i
      BY <1>1, <1>4, <2>1
    <3> QED
      BY <1>12, <3>1
  <2>2. CASE m \in p..last
    BY <1>12, <2>2
  <2>3. CASE m > last
    <3>1. last # Len(q) /\ last + 1 \in 1..Len(q) /\ (m = last + 1 \/ last + 1 < m)
      BY <1>2, <1>4, <1>10, <2>3
    <3>2. q[last + 1] - 1 > x /\ q[last + 1] \in Nat
      BY <1>2, <1>10, <1>11, <3>1
    <3>3. m = last + 1 \/ q[last + 1] < q[m]
      BY <1>1, <3>1
    <3> QED
      BY <1>12, <3>2, <3>3
  <2> QED
    BY <1>2, <1>4, <1>10, <2>1, <2>2, <2>3
<1>15. \A j \in a + 1..x : j \in ToSet(q)
  BY <1>13
<1>16. AckedTo(a, q, i) = x
  BY <1>5, <1>8, <1>11
<1> QED
  BY <1>12, <1>14, <1>15, <1>16

\* The queue without its head.
LEMMA WithoutSorted ==
    ASSUME NEW q, Sorted(q), NEW n \in 0..Len(q)
    PROVE  /\ Sorted(Without(q, n)) /\ ToSet(Without(q, n)) \subseteq ToSet(q)
           /\ \A i \in ToSet(q) : i \in ToSet(Without(q, n)) \/ \E m \in 1..n : i = q[m]
<1>1. q \in Seq(Nat) /\ \A b, c \in 1..Len(q) : b < c => q[b] < q[c]
  BY DEF Sorted
<1>2. Len(q) \in Nat
  BY <1>1
<1>3. PICK s : s = Without(q, n)
  OBVIOUS
<1>4. s \in Seq(Nat) /\ Len(s) = Len(q) - n /\ \A k \in 1..Len(q) - n : s[k] = q[k + n]
  BY <1>1, <1>2, <1>3 DEF Without
<1>5. ASSUME NEW b \in 1..Len(s), NEW c \in 1..Len(s), b < c PROVE s[b] < s[c]
  <2>1. b + n \in 1..Len(q) /\ c + n \in 1..Len(q) /\ b + n < c + n
    BY <1>2, <1>4, <1>5
  <2>2. s[b] = q[b + n] /\ s[c] = q[c + n]
    BY <1>4
  <2> QED
    BY <1>1, <2>1, <2>2
<1>6. ASSUME NEW i \in ToSet(s) PROVE i \in ToSet(q)
  <2>1. PICK k \in 1..Len(s) : i = s[k]
    BY <1>4, Elements
  <2>2. k \in 1..Len(q) - n /\ k + n \in 1..Len(q)
    BY <1>2, <1>4
  <2>3. i = q[k + n]
    BY <1>4, <2>1, <2>2
  <2> QED
    BY <1>1, <2>2, <2>3, Elements
<1>7. ASSUME NEW i \in ToSet(q) PROVE i \in ToSet(s) \/ \E m \in 1..n : i = q[m]
  <2>1. PICK k \in 1..Len(q) : i = q[k]
    BY <1>1, Elements
  <2>2. CASE k <= n
    BY <1>2, <2>1, <2>2
  <2>3. CASE k > n
    <3>1. k - n \in 1..Len(s) /\ k - n \in 1..Len(q) - n /\ k - n + n = k
      BY <1>2, <1>4, <2>3
    <3>2. s[k - n] = i
      BY <1>4, <2>1, <3>1
    <3> QED
      BY <1>4, <3>1, <3>2, Elements
  <2> QED
    BY <1>2, <2>2, <2>3
<1> QED
  BY <1>3, <1>4, <1>5, <1>6, <1>7 DEF Sorted

\* "Don't throw out something that has been acked."
LEMMA DiscardKeeps ==
    ASSUME NEW q, Sorted(q), NEW a \in Nat
    PROVE  /\ Sorted(Discard(q, a)) /\ ToSet(Discard(q, a)) \subseteq ToSet(q)
           /\ \A i \in ToSet(q) : i <= a => i \in ToSet(Discard(q, a))
<1> DEFINE S == {n \in 0..Len(q) : \/ n = Len(q) \/ Rspace(Len(q) - n) >= Mtu
                                   \/ q[n + 1] <= a}
<1>1. Len(q) \in Nat /\ \A n \in 1..Len(q) : q[n] \in Nat
  BY Elements DEF Sorted
<1>2. S \subseteq Nat /\ Len(q) \in S
  BY <1>1
<1>3. PICK d : d = LeastOf(S)
  OBVIOUS
<1>4. d \in S /\ \A n \in S : d <= n
  BY <1>2, <1>3, LeastNatural
<1>5. d \in 0..Len(q)
  BY <1>4
<1>6. Discard(q, a) = Without(q, d)
  BY <1>3 DEF Discard
<1>7. ASSUME NEW m \in 1..d PROVE ~(q[m] <= a)
  <2>1. m - 1 \in 0..Len(q) /\ m - 1 < d /\ m - 1 + 1 = m /\ d \in Nat
    BY <1>1, <1>5
  <2>2. m - 1 \notin S
    <3> HIDE DEF S
    <3> SUFFICES ASSUME m - 1 \in S PROVE FALSE
      OBVIOUS
    <3>1. d <= m - 1
      BY <1>4
    <3> QED
      BY <2>1, <3>1
  <2>3. q[m - 1 + 1] <= a => m - 1 \in S
    BY <2>1
  <2> QED
    BY <2>1, <2>2, <2>3
<1> HIDE DEF S
<1>8. /\ Sorted(Without(q, d)) /\ ToSet(Without(q, d)) \subseteq ToSet(q)
      /\ \A i \in ToSet(q) : i \in ToSet(Without(q, d)) \/ \E m \in 1..d : i = q[m]
  BY <1>5, WithoutSorted
<1> QED
  BY <1>6, <1>7, <1>8

\* The reader passes over what it has read, up to what it has not.
LEMMA PassedOver ==
    ASSUME NEW q \in Seq(Nat), NEW c \in Nat
    PROVE  /\ Passed(q, c) \in 0..Len(q) /\ \A m \in 1..Passed(q, c) : q[m] <= c
           /\ Passed(q, c) < Len(q) => q[Passed(q, c) + 1] > c
<1> DEFINE S == {n \in 0..Len(q) : n = Len(q) \/ q[n + 1] > c}
<1>1. Len(q) \in Nat /\ \A n \in 1..Len(q) : q[n] \in Nat
  BY Elements
<1>2. S \subseteq Nat /\ Len(q) \in S
  BY <1>1
<1>3. PICK d : d = LeastOf(S)
  OBVIOUS
<1>4. d \in S /\ \A n \in S : d <= n
  BY <1>2, <1>3, LeastNatural
<1>5. d \in 0..Len(q) /\ (d < Len(q) => q[d + 1] > c)
  BY <1>1, <1>4
<1>6. ASSUME NEW m \in 1..d PROVE q[m] <= c
  <2>1. m - 1 \in 0..Len(q) /\ m - 1 < d /\ m - 1 + 1 = m /\ m \in 1..Len(q) /\ d \in Nat
    BY <1>1, <1>5
  <2>2. m - 1 \notin S
    <3> HIDE DEF S
    <3> SUFFICES ASSUME m - 1 \in S PROVE FALSE
      OBVIOUS
    <3>1. d <= m - 1
      BY <1>4
    <3> QED
      BY <2>1, <3>1
  <2>3. q[m - 1 + 1] > c => m - 1 \in S
    BY <2>1
  <2>4. q[m] \in Nat
    BY <1>1, <2>1
  <2> QED
    BY <2>1, <2>2, <2>3, <2>4
<1>7. Passed(q, c) = d
  BY <1>3 DEF Passed
<1> QED
  BY <1>5, <1>6, <1>7

\* Behind it, the segments of a sorted queue that has them all are in a row.
LEMMA RowInQueue ==
    ASSUME NEW q, Sorted(q), NEW c \in Nat, NEW a \in Nat,
           \A j \in c + 1..a : j \in ToSet(q), NEW i \in c + 1..a
    PROVE  Passed(q, c) + i - c <= Len(q) /\ q[Passed(q, c) + i - c] = i
<1> DEFINE B == {j \in c + 1..a : ~(Passed(q, c) + j - c <= Len(q) /\ q[Passed(q, c) + j - c] = j)}
<1> SUFFICES ASSUME B # {} PROVE FALSE
  OBVIOUS
<1>1. q \in Seq(Nat) /\ \A b, d \in 1..Len(q) : b < d => q[b] < q[d]
  BY DEF Sorted
<1>2. Len(q) \in Nat /\ \A n \in 1..Len(q) : q[n] \in Nat
  BY <1>1, Elements
<1>3. PICK p : p = Passed(q, c)
  OBVIOUS
<1>4. /\ p \in 0..Len(q) /\ \A m \in 1..p : q[m] <= c
      /\ p < Len(q) => q[p + 1] > c
  BY <1>1, <1>3, PassedOver
<1>5. B \subseteq Nat
  OBVIOUS
<1>6. PICK j \in B : \A k \in B : j <= k
  BY <1>5, LeastNatural
<1>7. j \in c + 1..a /\ ~(p + j - c <= Len(q) /\ q[p + j - c] = j)
  BY <1>3, <1>6
<1>8. PICK m \in 1..Len(q) : q[m] = j
  BY <1>1, <1>7, Elements
<1>9. m > p
  BY <1>2, <1>4, <1>7, <1>8
<1>10. CASE j = c + 1
  <2>1. p + 1 \in 1..Len(q) /\ p + j - c = p + 1 /\ p < Len(q)
    BY <1>2, <1>4, <1>9, <1>10
  <2>2. q[p + 1] > c /\ q[p + 1] \in Nat /\ q[p + 1] # j
    BY <1>2, <1>4, <1>7, <2>1
  <2>3. m = p + 1 \/ q[p + 1] < q[m]
    BY <1>1, <1>4, <1>9, <2>1
  <2> QED
    BY <1>8, <1>10, <2>2, <2>3
<1>11. CASE j > c + 1
  <2> DEFINE n == p + (j - 1) - c
  <2>1. j - 1 \in c + 1..a /\ j - 1 \notin B
    BY <1>6, <1>7, <1>11
  <2>2. n <= Len(q) /\ q[n] = j - 1
    BY <1>3, <2>1
  <2>3. n \in 1..Len(q) /\ p + j - c = n + 1 /\ n \in Nat
    BY <1>2, <1>4, <1>7, <1>11, <2>2
  <2> HIDE DEF n
  <2>4. n < m
    <3>1. ~(m < n)
      BY <1>1, <1>7, <1>8, <2>2, <2>3
    <3>2. m # n
      BY <1>7, <1>8, <2>2
    <3> QED
      BY <3>1, <3>2, <2>3
  <2>5. n + 1 \in 1..Len(q)
    BY <1>2, <2>3, <2>4
  <2>6. q[n] < q[n + 1] /\ (m = n + 1 \/ q[n + 1] < q[m]) /\ q[n + 1] \in Nat
    BY <1>1, <1>2, <2>3, <2>4, <2>5
  <2>7. q[n + 1] # j
    BY <1>7, <2>3, <2>5
  <2> QED
    BY <1>7, <1>8, <2>2, <2>6, <2>7
<1> QED
  BY <1>7, <1>10, <1>11

-----------------------------------------------------------------------------
(* The receiver.                                                           *)

\* The receiving socket may go from r to t: nothing is lost, and neither the
\* acknowledged number nor the edge of the window goes back.
Onward(r, t, top) ==
    /\ ReceiverOK(t, top) /\ r.acked_seq <= t.acked_seq
    /\ r.acked_seq + r.window <= t.acked_seq + t.window

\* The offered window does not get smaller.
LEMMA SelectWindow ==
    ASSUME NEW r \in RcvType, NEW n \in Nat
    PROVE  tcp_select_window(r, n) \in Int /\ tcp_select_window(r, n) >= r.window
<1>1. r.window \in Int
  BY DEF RcvType
<1>2. Rspace(n) \in Int
  BY RspaceType
<1> QED
  BY <1>1, <1>2 DEF tcp_select_window

LEMMA AcknowledgingOK ==
    ASSUME NEW top \in Nat, NEW r, ReceiverOK(r, top), NEW n \in Nat
    PROVE  /\ Onward(r, Acknowledging(r, n), top)
           /\ Acknowledging(r, n).acked_seq = r.acked_seq
           /\ Acknowledging(r, n).copied = r.copied
<1> DEFINE w == tcp_select_window(r, n)
<1>1. r \in RcvType
  BY DEF ReceiverOK
<1>2. w \in Int /\ w >= r.window
  BY <1>1, SelectWindow
<1> HIDE DEF w
<1>3. Acknowledging(r, n) = [r EXCEPT !.window = w, !.ack_backlog = FALSE, !.timer = FALSE]
  BY DEF Acknowledging, w
<1>4. /\ Acknowledging(r, n) \in RcvType
      /\ Acknowledging(r, n).acked_seq = r.acked_seq /\ Acknowledging(r, n).window = w
      /\ Acknowledging(r, n).copied = r.copied /\ Acknowledging(r, n).rqueue = r.rqueue
  BY <1>1, <1>2, <1>3 DEF RcvType
<1>5. r.acked_seq \in Nat /\ r.window \in Int
  BY <1>1 DEF RcvType
<1> QED
  BY <1>2, <1>4, <1>5 DEF Onward, ReceiverOK, NoneLost

\* Two steps make one.
LEMMA OnwardTwice ==
    ASSUME NEW top \in Nat, NEW r \in RcvType, NEW s, NEW t,
           Onward(r, s, top), Onward(s, t, top)
    PROVE  Onward(r, t, top)
<1>1. /\ r.acked_seq \in Nat /\ r.window \in Int /\ s.acked_seq \in Nat /\ s.window \in Int
      /\ t.acked_seq \in Nat /\ t.window \in Int
  BY DEF Onward, ReceiverOK, RcvType
<1> QED
  BY <1>1 DEF Onward

\* Flags of the socket do not matter.
LEMMA FlagsOK ==
    ASSUME NEW top \in Nat, NEW r, ReceiverOK(r, top), NEW t \in RcvType,
           t.acked_seq = r.acked_seq, t.copied = r.copied,
           t.window = r.window, t.rqueue = r.rqueue
    PROVE  Onward(r, t, top)
<1>1. r.acked_seq \in Nat /\ r.window \in Int
  BY DEF ReceiverOK, RcvType
<1> QED
  BY <1>1 DEF Onward, ReceiverOK, NoneLost

\* An acknowledgement is put into the network.
LEMMA AckSent ==
    ASSUME NEW a \in Nat, NEW b \in Nat, a <= b, NEW w \in Int, Acks(toS, a)
    PROVE  Acks(Sent(toS, Ack(b, w)), b)
<1>1. Ack(b, w) \in [ack : Nat, window : Int] /\ Ack(b, w).ack = b
  BY DEF Ack
<1>2. Sent(toS, Ack(b, w)) \subseteq toS \cup {Ack(b, w)}
  BY SentAdds
<1>3. \A m \in toS : m \in [ack : Nat, window : Int] /\ m.ack <= b
  <2> TAKE m \in toS
  <2>1. m \in [ack : Nat, window : Int] /\ m.ack <= a
    BY DEF Acks
  <2> QED
    BY <2>1
<1> QED
  BY <1>1, <1>2, <1>3 DEF Acks

LEMMA SendAckOK ==
    ASSUME NEW top \in Nat, NEW r, ReceiverOK(r, top), NEW n \in Nat,
           Acks(toS, rcv.acked_seq), rcv \in RcvType, rcv.acked_seq <= r.acked_seq,
           tcp_send_ack(r, n)
    PROVE  Onward(r, rcv', top) /\ rcv'.copied = r.copied /\ Acks(toS', rcv'.acked_seq)
<1> DEFINE q == Acknowledging(r, n)
<1>1. Onward(r, q, top) /\ q.acked_seq = r.acked_seq /\ q.copied = r.copied
  BY AcknowledgingOK
<1>2. rcv' = q /\ toS' = Sent(toS, Ack(q.acked_seq, q.window))
  BY DEF tcp_send_ack
<1> HIDE DEF q
<1>3. q.acked_seq \in Nat /\ q.window \in Int /\ rcv.acked_seq \in Nat
  BY <1>1 DEF Onward, ReceiverOK, RcvType
<1>4. Acks(toS', q.acked_seq)
  BY <1>1, <1>2, <1>3, AckSent
<1> QED
  BY <1>1, <1>2, <1>4

LEMMA ReadWakeupOK ==
    ASSUME NEW top \in Nat, NEW r, ReceiverOK(r, top),
           Acks(toS, rcv.acked_seq), rcv \in RcvType, rcv.acked_seq <= r.acked_seq,
           tcp_read_wakeup(r)
    PROVE  Onward(r, rcv', top) /\ rcv'.copied = r.copied /\ Acks(toS', rcv'.acked_seq)
<1> DEFINE p == Acknowledging(r, Len(r.rqueue))
           q == [p EXCEPT !.timer = r.timer]
<1>1. Onward(r, p, top) /\ p.acked_seq = r.acked_seq /\ p.copied = r.copied
  <2>1. Len(r.rqueue) \in Nat
    BY DEF ReceiverOK, RcvType
  <2> QED
    BY <2>1, AcknowledgingOK
<1>2. rcv' = q /\ toS' = Sent(toS, Ack(q.acked_seq, q.window))
  BY DEF tcp_read_wakeup
<1> HIDE DEF p
<1>3. p \in RcvType /\ r \in RcvType /\ ReceiverOK(p, top)
  BY <1>1 DEF Onward, ReceiverOK
<1>4. /\ q \in RcvType /\ q.acked_seq = p.acked_seq /\ q.copied = p.copied
      /\ q.window = p.window /\ q.rqueue = p.rqueue
  BY <1>3 DEF RcvType
<1> HIDE DEF q
<1>5. Onward(p, q, top)
  BY <1>3, <1>4, FlagsOK
<1>6. Onward(r, q, top)
  BY <1>1, <1>3, <1>5, OnwardTwice
<1>7. q.acked_seq \in Nat /\ q.window \in Int /\ rcv.acked_seq \in Nat
  BY <1>6 DEF Onward, ReceiverOK, RcvType
<1>8. Acks(toS', q.acked_seq)
  BY <1>1, <1>2, <1>4, <1>7, AckSent
<1> QED
  BY <1>1, <1>2, <1>4, <1>6, <1>8

\* A segment joins the queue.
LEMMA DataOK ==
    ASSUME NEW top \in 0..MaxSeq, NEW r, ReceiverOK(r, top), NEW i \in 1..top,
           Acks(toS, rcv.acked_seq), rcv \in RcvType, rcv.acked_seq = r.acked_seq,
           tcp_data(r, i)
    PROVE  Onward(r, rcv', top) /\ rcv'.copied = r.copied /\ Acks(toS', rcv'.acked_seq)
<1> DEFINE queue == Insert(r.rqueue, i)
           acked == AckedTo(r.acked_seq, queue, i)
           less  == r.window - (acked - r.acked_seq)
<1>0. top \in Nat /\ top <= MaxSeq /\ MaxSeq \in Nat
  BY Constants
<1>1. /\ r \in RcvType /\ r.acked_seq \in Nat /\ r.window \in Int /\ r.copied \in Nat
      /\ r.acked_seq <= top /\ Sorted(r.rqueue) /\ ToSet(r.rqueue) \subseteq 1..top
      /\ r.acked_seq + 1 \notin ToSet(r.rqueue)
  BY DEF ReceiverOK, RcvType, QueueOf
<1>2. /\ Sorted(queue) /\ ToSet(queue) = ToSet(r.rqueue) \cup {i}
      /\ Place(queue, i) \in 1..Len(queue) /\ queue[Place(queue, i)] = i
  BY <1>0, <1>1, InsertSorts
<1>2a. ToSet(queue) \subseteq 1..top /\ queue \in Seq(Nat) /\ Len(queue) \in Nat /\ i \in Nat
  BY <1>0, <1>1, <1>2 DEF Sorted
<1>3. CASE i - 1 <= r.acked_seq
  <2> DEFINE w == IF less < 0 THEN 0 ELSE less
             t == [r EXCEPT !.rqueue = queue, !.acked_seq = acked, !.window = w]
  <2>1. tcp_send_ack(t, Len(queue))
    BY <1>3 DEF tcp_data
  <2> HIDE DEF queue
  <2>2. /\ acked \in Nat /\ r.acked_seq <= acked /\ acked <= top
        /\ \A j \in r.acked_seq + 1..acked : j \in ToSet(queue)
        /\ acked + 1 \notin ToSet(queue)
    BY <1>0, <1>1, <1>2, <1>2a, <1>3, AckedToEnd
  <2> HIDE DEF acked
  <2>3. w \in Int /\ r.acked_seq + r.window <= acked + w
    BY <1>1, <2>2
  <2> HIDE DEF w
  <2>4. /\ t \in RcvType /\ t.acked_seq = acked /\ t.window = w /\ t.rqueue = queue
        /\ t.copied = r.copied
    BY <1>1, <1>2a, <2>2, <2>3 DEF RcvType
  <2> HIDE DEF t
  <2>5. NoneLost(t)
    <3> SUFFICES ASSUME NEW k \in 1..t.acked_seq PROVE k <= t.copied \/ k \in ToSet(t.rqueue)
      BY DEF NoneLost
    <3>1. CASE k <= r.acked_seq
      <4>1. k \in 1..r.acked_seq
        BY <1>1, <2>2, <2>4, <3>1
      <4>2. k <= r.copied \/ k \in ToSet(r.rqueue)
        BY <4>1 DEF ReceiverOK, NoneLost
      <4> QED
        BY <1>2, <4>2, <2>4
    <3>2. CASE k > r.acked_seq
      <4>1. k \in r.acked_seq + 1..acked
        BY <1>1, <2>2, <2>4, <3>2
      <4> QED
        BY <4>1, <2>2, <2>4
    <3> QED
      BY <3>1, <3>2, <1>1, <2>2, <2>4
  <2>6. Onward(r, t, top)
    BY <1>2, <1>2a, <2>2, <2>3, <2>4, <2>5 DEF Onward, ReceiverOK, QueueOf
  <2>7. ReceiverOK(t, top) /\ rcv.acked_seq <= t.acked_seq
    BY <2>2, <2>4, <2>6 DEF Onward
  <2>8. Onward(t, rcv', top) /\ rcv'.copied = t.copied /\ Acks(toS', rcv'.acked_seq)
    BY <1>0, <1>1, <1>2a, <2>1, <2>7, SendAckOK
  <2> QED
    BY <1>0, <1>1, <2>4, <2>6, <2>8, OnwardTwice
<1>4. CASE ~(i - 1 <= r.acked_seq)
  <2> DEFINE d == Discard(queue, r.acked_seq)
             t == [r EXCEPT !.rqueue = d]
             q == Acknowledging(t, Len(d))
             u == [q EXCEPT !.ack_backlog = TRUE, !.timer = TRUE]
  <2>1. rcv' = u /\ toS' = Sent(toS, Ack(q.acked_seq, q.window))
    BY <1>4 DEF tcp_data
  <2> HIDE DEF queue
  <2>2. /\ Sorted(d) /\ ToSet(d) \subseteq ToSet(queue)
        /\ \A k \in ToSet(queue) : k <= r.acked_seq => k \in ToSet(d)
    BY <1>1, <1>2, DiscardKeeps
  <2>2a. d \in Seq(Nat) /\ Len(d) \in Nat /\ r.acked_seq + 1 \notin ToSet(d)
    BY <1>1, <1>2, <1>2a, <1>4, <2>2 DEF Sorted
  <2> HIDE DEF d
  <2>3. /\ t \in RcvType /\ t.acked_seq = r.acked_seq /\ t.window = r.window /\ t.rqueue = d
        /\ t.copied = r.copied
    BY <1>1, <2>2a DEF RcvType
  <2> HIDE DEF t
  <2>4. NoneLost(t)
    <3> SUFFICES ASSUME NEW k \in 1..t.acked_seq PROVE k <= t.copied \/ k \in ToSet(t.rqueue)
      BY DEF NoneLost
    <3>1. k <= r.copied \/ k \in ToSet(r.rqueue)
      BY <2>3 DEF ReceiverOK, NoneLost
    <3>2. k <= r.acked_seq
      BY <2>3, <1>1
    <3> QED
      BY <1>2, <2>2, <2>3, <3>1, <3>2
  <2>5. Onward(r, t, top) /\ ReceiverOK(t, top)
    BY <1>1, <1>2a, <2>2, <2>2a, <2>3, <2>4 DEF Onward, ReceiverOK, QueueOf
  <2>6. Onward(t, q, top) /\ q.acked_seq = t.acked_seq /\ q.copied = t.copied
    BY <1>0, <2>2a, <2>5, AcknowledgingOK
  <2> HIDE DEF q
  <2>7. q \in RcvType /\ ReceiverOK(q, top) /\ q.acked_seq \in Nat /\ q.window \in Int
    BY <2>6 DEF Onward, ReceiverOK, RcvType
  <2>8. /\ u \in RcvType /\ u.acked_seq = q.acked_seq /\ u.copied = q.copied
        /\ u.window = q.window /\ u.rqueue = q.rqueue
    BY <2>7 DEF RcvType
  <2> HIDE DEF u
  <2>9. Onward(q, u, top)
    BY <1>0, <2>7, <2>8, FlagsOK
  <2>10. Onward(r, u, top)
    BY <1>0, <1>1, <2>3, <2>5, <2>6, <2>9, OnwardTwice
  <2>11. Acks(toS', u.acked_seq)
    BY <1>1, <2>1, <2>3, <2>6, <2>7, <2>8, AckSent
  <2> QED
    BY <2>1, <2>3, <2>6, <2>8, <2>10, <2>11
<1> QED
  BY <1>3, <1>4

\* A packet arrives at the receiver.
LEMMA RcvOK ==
    ASSUME NEW top \in 0..MaxSeq, ReceiverOK(rcv, top), Acks(toS, rcv.acked_seq),
           NEW m \in [kind : {"data", "probe"}, h : Nat], m.kind = "data" => m.h \in 1..top,
           tcp_rcv(m)
    PROVE  Onward(rcv, rcv', top) /\ rcv'.copied = rcv.copied /\ Acks(toS', rcv'.acked_seq)
<1> DEFINE next == IF m.kind = "data" THEN m.h ELSE m.h - 1
           r == AckSeen(rcv)
           charged == Len(rcv.rqueue) + 1
<1>0. top \in Nat
  BY Constants
<1>1. rcv \in RcvType /\ rcv.acked_seq \in Nat /\ rcv.window \in Int /\ charged \in Nat
  BY DEF ReceiverOK, RcvType
<1>2. /\ r \in RcvType /\ r.acked_seq = rcv.acked_seq /\ r.copied = rcv.copied
      /\ r.window = rcv.window /\ r.rqueue = rcv.rqueue
  BY <1>1 DEF RcvType, AckSeen
<1> HIDE DEF r, charged
<1>3. Onward(rcv, r, top) /\ ReceiverOK(r, top)
  BY <1>0, <1>2, FlagsOK DEF Onward
<1>4. CASE UNCHANGED <<rcv, toS>>
  BY <1>1, <1>4 DEF Onward
<1>5. CASE tcp_send_ack(rcv, charged)
  <2>1. rcv.acked_seq <= rcv.acked_seq
    BY <1>1
  <2> QED
    BY <1>0, <1>1, <1>5, <2>1, SendAckOK
<1>6. CASE rcv' = r /\ UNCHANGED toS
  BY <1>2, <1>3, <1>6
<1>7. CASE m.kind # "probe" /\ tcp_data(r, m.h)
  <2>1. m.h \in 1..top
    BY <1>7
  <2>2. Onward(r, rcv', top) /\ rcv'.copied = r.copied /\ Acks(toS', rcv'.acked_seq)
    BY <1>1, <1>2, <1>3, <1>7, <2>1, DataOK
  <2> QED
    BY <1>0, <1>1, <1>2, <1>3, <2>2, OnwardTwice
<1> QED
  BY <1>4, <1>5, <1>6, <1>7 DEF tcp_rcv, r, charged

\* What has been read leaves the queue.
LEMMA CleanupOK ==
    ASSUME NEW top \in Nat, NEW r, ReceiverOK(r, top), Acks(toS, rcv.acked_seq),
           rcv \in RcvType, rcv.acked_seq = r.acked_seq, NEW used \in 0..Len(r.rqueue),
           \A m \in 1..used : r.rqueue[m] <= r.copied, cleanup_rbuf(r, used)
    PROVE  Onward(r, rcv', top) /\ rcv'.copied = r.copied /\ Acks(toS', rcv'.acked_seq)
<1> DEFINE left == Without(r.rqueue, used)
           q == [r EXCEPT !.rqueue = left]
           u == [q EXCEPT !.ack_backlog = TRUE, !.timer = TRUE]
<1>1. /\ r \in RcvType /\ r.acked_seq \in Nat /\ r.copied \in Nat /\ r.window \in Int
      /\ Sorted(r.rqueue) /\ ToSet(r.rqueue) \subseteq 1..top
      /\ r.acked_seq + 1 \notin ToSet(r.rqueue)
  BY DEF ReceiverOK, RcvType, QueueOf
<1>1a. /\ Sorted(left) /\ ToSet(left) \subseteq ToSet(r.rqueue)
       /\ \A i \in ToSet(r.rqueue) : i \in ToSet(left) \/ i <= r.copied
  <2>1. /\ Sorted(left) /\ ToSet(left) \subseteq ToSet(r.rqueue)
        /\ \A i \in ToSet(r.rqueue) : i \in ToSet(left) \/ \E m \in 1..used : i = r.rqueue[m]
    BY <1>1, WithoutSorted
  <2> QED
    BY <2>1
<1>1b. left \in Seq(Nat)
  BY <1>1a DEF Sorted
<1>2. /\ q \in RcvType /\ q.acked_seq = r.acked_seq /\ q.copied = r.copied
      /\ q.window = r.window /\ q.rqueue = left
  BY <1>1, <1>1b DEF RcvType
<1>3. /\ u \in RcvType /\ u.acked_seq = q.acked_seq /\ u.copied = q.copied
      /\ u.window = q.window /\ u.rqueue = q.rqueue
  BY <1>2 DEF RcvType
<1>4. \/ rcv' = q /\ UNCHANGED toS
      \/ tcp_read_wakeup(q)
      \/ rcv' = u /\ UNCHANGED toS
  BY DEF cleanup_rbuf
<1> HIDE DEF q, u, left
<1>5. NoneLost(q)
  <2> SUFFICES ASSUME NEW k \in 1..q.acked_seq PROVE k <= q.copied \/ k \in ToSet(q.rqueue)
    BY DEF NoneLost
  <2>1. k <= r.copied \/ k \in ToSet(r.rqueue)
    BY <1>2 DEF ReceiverOK, NoneLost
  <2> QED
    BY <1>1, <1>1a, <1>2, <2>1
<1>6. Onward(r, q, top) /\ ReceiverOK(q, top)
  BY <1>1, <1>1a, <1>2, <1>5 DEF Onward, ReceiverOK, QueueOf
<1>7. CASE rcv' = q /\ UNCHANGED toS
  BY <1>2, <1>6, <1>7
<1>8. CASE tcp_read_wakeup(q)
  <2>1. rcv.acked_seq <= q.acked_seq
    BY <1>1, <1>2
  <2>2. Onward(q, rcv', top) /\ rcv'.copied = q.copied /\ Acks(toS', rcv'.acked_seq)
    BY <1>6, <1>8, <2>1, ReadWakeupOK
  <2> QED
    BY <1>1, <1>2, <1>6, <2>2, OnwardTwice
<1>9. CASE rcv' = u /\ UNCHANGED toS
  <2>1. Onward(q, u, top)
    BY <1>3, <1>6, FlagsOK
  <2> QED
    BY <1>1, <1>2, <1>3, <1>6, <1>9, <2>1, OnwardTwice
<1> QED
  BY <1>4, <1>7, <1>8, <1>9

-----------------------------------------------------------------------------
(* Steps of the receiver.                                                  *)

\* The sender does not mind that more is acknowledged.
LEMMA SenderStays ==
    ASSUME NEW a \in Nat, NEW b \in Nat, a <= b, NEW s, SenderOK(s, a)
    PROVE  SenderOK(s, b)
<1>1. s.rcv_ack_seq \in Nat
  BY DEF SenderOK, SndType
<1>2. InARow(s, b)
  BY DEF SenderOK, InARow
<1> QED
  BY <1>1, <1>2 DEF SenderOK

\* What is known when the receiving socket has made a step.
LEMMA ReceiverStep ==
    ASSUME IInv, Onward(rcv, rcv', snd.write_seq), Acks(toS', rcv'.acked_seq),
           UNCHANGED snd, toR' \subseteq toR
    PROVE  IInv'
<1>1. rcv.acked_seq \in Nat /\ rcv'.acked_seq \in Nat /\ rcv.acked_seq <= rcv'.acked_seq
  BY DEF IInv, Onward, ReceiverOK, RcvType
<1>2. SenderOK(snd, rcv'.acked_seq)
  BY <1>1, SenderStays DEF IInv
<1>3. Packets(toR', snd.write_seq)
  BY DEF IInv, Packets
<1> QED
  BY <1>2, <1>3 DEF IInv, Onward

LEMMA ArriveRStep ==
    ASSUME IInv, NEW m \in toR, ArriveR(m)
    PROVE  IInv' /\ Onward(rcv, rcv', snd.write_seq)
<1>1. /\ snd.write_seq \in 0..MaxSeq /\ ReceiverOK(rcv, snd.write_seq)
      /\ Acks(toS, rcv.acked_seq)
  BY DEF IInv, SenderOK, SndType
<1>2. m \in [kind : {"data", "probe"}, h : Nat] /\ (m.kind = "data" => m.h \in 1..snd.write_seq)
  BY DEF IInv, Packets
<1>3. tcp_rcv(m) /\ toR' \subseteq toR /\ UNCHANGED snd
  BY DEF ArriveR
<1>4. /\ Onward(rcv, rcv', snd.write_seq) /\ rcv'.copied = rcv.copied
      /\ Acks(toS', rcv'.acked_seq)
  BY <1>1, <1>2, <1>3, RcvOK
<1> QED
  BY <1>3, <1>4, ReceiverStep

LEMMA AckTimerStep ==
    ASSUME IInv, AckTimer
    PROVE  IInv' /\ Onward(rcv, rcv', snd.write_seq)
<1> DEFINE r == [rcv EXCEPT !.timer = FALSE]
           top == snd.write_seq
<1>1. top \in Nat /\ ReceiverOK(rcv, top) /\ Acks(toS, rcv.acked_seq)
  BY Constants DEF IInv, SenderOK, SndType
<1>2. rcv \in RcvType /\ rcv.acked_seq \in Nat
  BY <1>1 DEF ReceiverOK, RcvType
<1>3. /\ r \in RcvType /\ r.acked_seq = rcv.acked_seq /\ r.copied = rcv.copied
      /\ r.window = rcv.window /\ r.rqueue = rcv.rqueue
  BY <1>2 DEF RcvType
<1>4. \/ tcp_read_wakeup(r)
      \/ rcv' = r /\ UNCHANGED toS
  BY DEF AckTimer
<1>5. UNCHANGED <<snd, toR>>
  BY DEF AckTimer
<1> HIDE DEF r, top
<1>6. Onward(rcv, r, top) /\ ReceiverOK(r, top)
  BY <1>1, <1>3, FlagsOK DEF Onward
<1>7. Onward(rcv, rcv', top) /\ rcv'.copied = rcv.copied /\ Acks(toS', rcv'.acked_seq)
  <2>1. CASE tcp_read_wakeup(r)
    <3>1. rcv.acked_seq <= r.acked_seq
      BY <1>2, <1>3
    <3>2. Onward(r, rcv', top) /\ rcv'.copied = r.copied /\ Acks(toS', rcv'.acked_seq)
      BY <1>1, <1>2, <1>6, <2>1, <3>1, ReadWakeupOK
    <3> QED
      BY <1>1, <1>2, <1>3, <1>6, <3>2, OnwardTwice
  <2>2. CASE rcv' = r /\ UNCHANGED toS
    BY <1>1, <1>3, <1>6, <2>2
  <2> QED
    BY <1>4, <2>1, <2>2
<1> QED
  BY <1>5, <1>7, ReceiverStep DEF top

\* The application reads one segment, the next one, or none.
LEMMA ReadStep ==
    ASSUME IInv, tcp_read
    PROVE  IInv' /\ Onward(rcv, rcv', snd.write_seq)
<1> DEFINE old   == Passed(rcv.rqueue, rcv.copied)
           found == old < Len(rcv.rqueue) /\ rcv.rqueue[old + 1] = rcv.copied + 1
           new   == IF found THEN 1 ELSE 0
           r     == [rcv EXCEPT !.copied = @ + new]
           top   == snd.write_seq
<1>1. top \in Nat /\ ReceiverOK(rcv, top) /\ Acks(toS, rcv.acked_seq)
  BY Constants DEF IInv, SenderOK, SndType
<1>2. /\ rcv \in RcvType /\ rcv.acked_seq \in Nat /\ rcv.copied \in Nat /\ rcv.window \in Int
      /\ rcv.rqueue \in Seq(Nat) /\ Len(rcv.rqueue) \in Nat
      /\ \A n \in 1..Len(rcv.rqueue) : rcv.rqueue[n] \in Nat
  BY <1>1, Elements DEF ReceiverOK, RcvType
<1>3. cleanup_rbuf(r, old + new) /\ UNCHANGED <<snd, toR>>
  BY DEF tcp_read
<1>4. old \in 0..Len(rcv.rqueue) /\ \A m \in 1..old : rcv.rqueue[m] <= rcv.copied
  BY <1>2, PassedOver
<1> HIDE DEF old
<1>5. new \in {0, 1} /\ (new = 1 => found)
  OBVIOUS
<1>6. /\ old + new \in 0..Len(rcv.rqueue)
      /\ \A m \in 1..old + new : rcv.rqueue[m] <= rcv.copied + new
  <2>1. CASE new = 0
    BY <1>2, <1>4, <2>1
  <2>2. CASE new = 1
    <3>1. old + 1 \in 0..Len(rcv.rqueue) /\ rcv.rqueue[old + 1] = rcv.copied + 1
      BY <1>2, <1>4, <1>5, <2>2
    <3>2. ASSUME NEW m \in 1..old + 1 PROVE rcv.rqueue[m] <= rcv.copied + 1
      <4>1. m \in 1..old \/ m = old + 1
        BY <1>4
      <4>2. m \in 1..Len(rcv.rqueue)
        BY <1>2, <1>4, <3>1
      <4>3. rcv.rqueue[m] \in Nat
        BY <1>2, <4>2
      <4>4. m \in 1..old => rcv.rqueue[m] <= rcv.copied
        BY <1>4
      <4> QED
        BY <1>2, <3>1, <4>1, <4>3, <4>4
    <3> QED
      BY <2>2, <3>1, <3>2
  <2> QED
    BY <1>5, <2>1, <2>2
<1> HIDE DEF new
<1>7. /\ r \in RcvType /\ r.acked_seq = rcv.acked_seq /\ r.copied = rcv.copied + new
      /\ r.window = rcv.window /\ r.rqueue = rcv.rqueue
  BY <1>2, <1>5 DEF RcvType
<1> HIDE DEF r, top
<1>8. NoneLost(r)
  <2> SUFFICES ASSUME NEW k \in 1..r.acked_seq PROVE k <= r.copied \/ k \in ToSet(r.rqueue)
    BY DEF NoneLost
  <2>1. k <= rcv.copied \/ k \in ToSet(rcv.rqueue)
    BY <1>1, <1>7 DEF ReceiverOK, NoneLost
  <2> QED
    BY <1>2, <1>5, <1>7, <2>1
<1>9. ReceiverOK(r, top) /\ Onward(rcv, r, top)
  BY <1>1, <1>2, <1>7, <1>8 DEF ReceiverOK, Onward
<1>10. Onward(r, rcv', top) /\ Acks(toS', rcv'.acked_seq)
  <2>1. old + new \in 0..Len(r.rqueue) /\ \A m \in 1..old + new : r.rqueue[m] <= r.copied
    BY <1>6, <1>7
  <2> QED
    BY <1>1, <1>2, <1>3, <1>7, <1>9, <2>1, CleanupOK
<1>11. Onward(rcv, rcv', top)
  BY <1>1, <1>2, <1>9, <1>10, OnwardTwice
<1> QED
  BY <1>3, <1>10, <1>11, ReceiverStep DEF top

-----------------------------------------------------------------------------
(* The sender.                                                             *)

LEMMA SndFields ==
    ASSUME NEW s \in SndType
    PROVE  /\ s.write_seq \in Nat /\ s.write_seq <= MaxSeq /\ s.sent_seq \in Nat
           /\ s.rcv_ack_seq \in Nat /\ s.window_seq \in Int /\ s.send_head \in Seq(Nat)
           /\ s.wfront \in Seq(Nat) /\ s.cong_window \in Nat \ {0}
           /\ s.retransmits \in BOOLEAN /\ s.timer \in BOOLEAN
           /\ s.timeout \in {"none", "TIME_WRITE", "TIME_PROBE0"}
  BY Constants DEF SndType

\* Setting the timer changes two fields only.
LEMMA ResetTimer ==
    ASSUME NEW s \in SndType, NEW why \in {"TIME_WRITE", "TIME_PROBE0"}
    PROVE  LET t == reset_timer(s, why)
           IN  /\ t \in SndType /\ t.timeout = why /\ t.timer
               /\ t.write_seq = s.write_seq /\ t.sent_seq = s.sent_seq
               /\ t.rcv_ack_seq = s.rcv_ack_seq /\ t.window_seq = s.window_seq
               /\ t.send_head = s.send_head /\ t.wfront = s.wfront
               /\ t.cong_window = s.cong_window /\ t.retransmits = s.retransmits
  BY DEF reset_timer, SndType

\* The segments of the send queue are ones that were written.
LEMMA SentWereWritten ==
    ASSUME NEW s \in SndType, NEW lo, NEW mid, Rows(s, lo, mid)
    PROVE  \A n \in 1..Len(s.send_head) : s.send_head[n] \in 1..s.write_seq
<1>1. s.write_seq \in Nat
  BY SndFields
<1> QED
  BY <1>1, SMTT(20) DEF Rows, Run

\* Segments are put into the network.
LEMMA DataSent ==
    ASSUME NEW net, NEW top \in Nat, Packets(net, top), NEW q \in Seq(Nat),
           \A n \in 1..Len(q) : q[n] \in 1..top
    PROVE  Packets(SentAll(net, [n \in DOMAIN q |-> Data(q[n])]), top)
<1> DEFINE d == [n \in DOMAIN q |-> Data(q[n])]
<1>1. DOMAIN d = 1..Len(q) /\ \A n \in 1..Len(q) : d[n] = Data(q[n])
  OBVIOUS
<1>2. SentAll(net, d) \subseteq net \cup {d[n] : n \in DOMAIN d}
  BY SentAllAdds
<1> HIDE DEF d
<1>3. ASSUME NEW m \in {d[n] : n \in DOMAIN d}
      PROVE  m \in [kind : {"data", "probe"}, h : Nat] /\ m.h \in 1..top
  BY <1>1 DEF Data
<1>4. Packets(SentAll(net, d), top)
  BY <1>2, <1>3 DEF Packets
<1> QED
  BY <1>4 DEF d

\* The same for a single packet.
LEMMA OneSent ==
    ASSUME NEW net, NEW top \in Nat, Packets(net, top), NEW m,
           m \in [kind : {"data", "probe"}, h : Nat],
           m.kind = "data" => m.h \in 1..top
    PROVE  Packets(Sent(net, m), top)
  BY SentAdds DEF Packets

\* What is known when the sending socket has made a step.
LEMMA SenderStep ==
    ASSUME IInv, SenderOK(snd', rcv.acked_seq), snd'.write_seq >= snd.write_seq,
           Packets(toR', snd'.write_seq), toS' \subseteq toS, UNCHANGED rcv
    PROVE  IInv'
<1>1. snd.write_seq \in Nat /\ snd'.write_seq \in Nat
  BY SndFields DEF IInv, SenderOK
<1>2. ReceiverOK(rcv', snd'.write_seq)
  <2>1. /\ rcv' \in RcvType /\ NoneLost(rcv') /\ rcv'.acked_seq <= snd.write_seq
        /\ QueueOf(rcv'.rqueue, rcv'.acked_seq, snd.write_seq) /\ rcv'.acked_seq \in Nat
    BY DEF IInv, ReceiverOK, RcvType
  <2> QED
    BY <1>1, <2>1 DEF ReceiverOK, QueueOf
<1>3. Acks(toS', rcv'.acked_seq)
  BY DEF IInv, Acks
<1>4. SenderOK(snd', rcv'.acked_seq)
  OBVIOUS
<1> QED
  BY <1>2, <1>3, <1>4 DEF IInv

\* A new segment is queued, or sent if nothing waits in front of it.
LEMMA WriteStep == ASSUME IInv, tcp_write PROVE IInv'
<1> DEFINE i == snd.write_seq + 1
           s == [snd EXCEPT !.write_seq = i]
           q == [s EXCEPT !.wfront = Append(@, i)]
           acked == rcv.acked_seq
           Later == i > s.window_seq \/ Retransmitting(s) \/ packets_out(s) >= s.cong_window
<1>1. /\ snd \in SndType /\ snd.rcv_ack_seq <= acked /\ Blocked(snd)
      /\ SomethingToRepeat(snd) /\ TimerOf(snd)
  BY DEF IInv, SenderOK
<1>2. /\ snd.write_seq \in Nat /\ snd.write_seq < MaxSeq /\ MaxSeq \in Nat
      /\ snd.window_seq \in Int /\ snd.send_head \in Seq(Nat) /\ snd.wfront \in Seq(Nat)
      /\ snd.cong_window \in Nat \ {0} /\ acked \in Nat
  BY <1>1, SndFields, Constants DEF tcp_write, IInv, ReceiverOK, RcvType
<1>3. PICK lo \in Nat, mid \in Nat : Rows(snd, lo, mid) /\ lo <= acked
  BY DEF IInv, SenderOK, InARow
<1>4. /\ lo <= mid /\ mid <= snd.write_seq
      /\ Run(snd.send_head, lo, mid) /\ Run(snd.wfront, mid, snd.write_seq)
  BY <1>3 DEF Rows
<1>5. \/ Later /\ snd' = (IF ProbeNeeded(q) THEN reset_timer(q, "TIME_PROBE0") ELSE q) /\ UNCHANGED toR
      \/ ~Later /\ snd' = ip_queue_xmit(s, i) /\ toR' = Sent(toR, Data(i))
  BY DEF tcp_write
<1>6. UNCHANGED <<rcv, toS>>
  BY DEF tcp_write
<1>7. /\ s \in SndType /\ s.write_seq = i /\ s.window_seq = snd.window_seq
      /\ s.send_head = snd.send_head /\ s.wfront = snd.wfront
      /\ s.cong_window = snd.cong_window /\ s.retransmits = snd.retransmits
      /\ s.timeout = snd.timeout /\ s.timer = snd.timer /\ s.rcv_ack_seq = snd.rcv_ack_seq
      /\ s.sent_seq = snd.sent_seq
  <2>1. i \in 0..MaxSeq
    BY <1>2
  <2> HIDE DEF i
  <2> QED
    BY <1>1, <2>1 DEF SndType
<1> HIDE DEF s
<1>8. CASE Later /\ snd' = (IF ProbeNeeded(q) THEN reset_timer(q, "TIME_PROBE0") ELSE q) /\ UNCHANGED toR
  <2> DEFINE wf == Append(snd.wfront, i)
  <2>1. Run(wf, mid, i) /\ wf \in Seq(Nat) /\ wf # <<>> /\ wf[1] = mid + 1
    <3>1. Run(wf, mid, i)
      BY <1>2, <1>4, RunAppend
    <3>2. wf \in Seq(Nat) /\ mid < i /\ i \in Nat /\ mid # i
      BY <1>2, <1>4
    <3> HIDE DEF wf, i
    <3>3. (wf = <<>> <=> mid = i) /\ (wf # <<>> => wf[1] = mid + 1)
      BY <3>1, <3>2, RunEmpty
    <3> QED
      BY <3>1, <3>2, <3>3
  <2> HIDE DEF wf
  <2>2. /\ q \in SndType /\ q.write_seq = i /\ q.window_seq = snd.window_seq
        /\ q.send_head = snd.send_head /\ q.wfront = wf
        /\ q.cong_window = snd.cong_window /\ q.retransmits = snd.retransmits
        /\ q.timeout = snd.timeout /\ q.timer = snd.timer /\ q.rcv_ack_seq = snd.rcv_ack_seq
    BY <1>7, <2>1 DEF SndType, wf
  <2> HIDE DEF q
  <2>3. /\ snd' \in SndType /\ snd'.write_seq = i /\ snd'.window_seq = snd.window_seq
        /\ snd'.send_head = snd.send_head /\ snd'.wfront = wf
        /\ snd'.cong_window = snd.cong_window /\ snd'.retransmits = snd.retransmits
        /\ snd'.rcv_ack_seq = snd.rcv_ack_seq
        /\ IF ProbeNeeded(q) THEN snd'.timeout = "TIME_PROBE0" /\ snd'.timer
           ELSE snd'.timeout = snd.timeout /\ snd'.timer = snd.timer
    BY <1>8, <2>2, ResetTimer
  <2>4. ProbeNeeded(q) <=> snd.send_head = <<>> /\ snd.window_seq < mid + 1
    BY <2>1, <2>2 DEF ProbeNeeded
  <2>5. snd.wfront = <<>> => mid = snd.write_seq
    BY <1>2, <1>4, RunEmpty
  <2>6. snd.wfront # <<>> => snd.wfront[1] = mid + 1
    BY <1>2, <1>4, RunEmpty
  <2>7. InARow(snd', acked)
    BY <1>3, <1>4, <2>1, <2>3, <1>2 DEF InARow, Rows
  <2>8. \/ mid + 1 > snd.window_seq
        \/ Retransmitting(snd)
        \/ packets_out(snd) >= snd.cong_window
    <3>1. CASE snd.wfront = <<>>
      BY <1>7, <1>8, <2>5, <3>1 DEF Retransmitting, packets_out
    <3>2. CASE snd.wfront # <<>>
      BY <1>1, <2>6, <3>2 DEF Blocked
    <3> QED
      BY <3>1, <3>2
  <2>9. Blocked(snd')
    <3>1. CASE ProbeNeeded(q)
      BY <1>2, <1>4, <2>1, <2>3, <2>4, <3>1 DEF Blocked
    <3>2. CASE ~ProbeNeeded(q)
      BY <2>1, <2>3, <2>8, <3>2 DEF Blocked, Retransmitting, packets_out
    <3> QED
      BY <3>1, <3>2
  <2>10. SomethingToRepeat(snd')
    BY <1>1, <2>3 DEF SomethingToRepeat, Retransmitting
  <2>11. TimerOf(snd')
    <3>1. CASE ProbeNeeded(q)
      BY <2>3, <2>4, <3>1 DEF TimerOf
    <3>2. CASE ~ProbeNeeded(q) /\ snd.send_head # <<>>
      BY <1>1, <2>3, <3>2 DEF TimerOf
    <3>3. CASE ~ProbeNeeded(q) /\ snd.send_head = <<>>
      <4>1. ~Retransmitting(snd)
        BY <1>1, <3>3 DEF SomethingToRepeat
      <4>2. packets_out(snd) = 0
        BY <3>3 DEF packets_out
      <4>3. snd.wfront # <<>>
        BY <1>2, <1>7, <1>8, <2>4, <2>5, <3>3, <4>1, <4>2 DEF Retransmitting, packets_out
      <4> QED
        BY <1>1, <2>3, <3>3, <4>3 DEF TimerOf
    <3> QED
      BY <3>1, <3>2, <3>3
  <2>12. SenderOK(snd', acked)
    BY <1>1, <2>3, <2>7, <2>9, <2>10, <2>11 DEF SenderOK
  <2>13. Packets(toR', snd'.write_seq) /\ snd'.write_seq >= snd.write_seq
    BY <1>2, <1>8, <2>3 DEF IInv, Packets
  <2> QED
    BY <1>6, <2>12, <2>13, SenderStep
<1>9. CASE ~Later /\ snd' = ip_queue_xmit(s, i) /\ toR' = Sent(toR, Data(i))
  <2> DEFINE sh == Append(snd.send_head, i)
             t == [s EXCEPT !.send_head = Append(@, i), !.sent_seq = i]
  <2>1. snd.wfront = <<>> /\ mid = snd.write_seq
    <3>1. snd.wfront # <<>> => snd.wfront[1] = mid + 1 /\ mid < snd.write_seq
      BY <1>2, <1>4, RunEmpty
    <3>2. /\ ~(i > snd.window_seq) /\ ~Retransmitting(snd)
          /\ ~(packets_out(snd) >= snd.cong_window)
      BY <1>7, <1>9 DEF Retransmitting, packets_out
    <3>3. snd.wfront = <<>>
      BY <1>1, <1>2, <1>4, <3>1, <3>2 DEF Blocked
    <3> QED
      BY <1>2, <1>4, <3>3, RunEmpty
  <2>2. Run(sh, lo, i) /\ sh \in Seq(Nat) /\ sh # <<>>
    <3>1. Run(sh, lo, i)
      BY <1>2, <1>4, <2>1, RunAppend
    <3>2. sh \in Seq(Nat) /\ lo < i /\ i \in Nat /\ lo # i
      BY <1>2, <1>4
    <3> HIDE DEF sh, i
    <3>3. sh = <<>> <=> lo = i
      BY <3>1, <3>2, RunEmpty
    <3> QED
      BY <3>1, <3>2, <3>3
  <2> HIDE DEF sh
  <2>3. /\ t \in SndType /\ t.write_seq = i /\ t.window_seq = snd.window_seq
        /\ t.send_head = sh /\ t.wfront = snd.wfront
        /\ t.rcv_ack_seq = snd.rcv_ack_seq
    <3>1. i \in Nat
      BY <1>2
    <3> HIDE DEF i
    <3> QED
      BY <1>7, <2>2, <3>1 DEF SndType, sh
  <2>4. snd' = reset_timer(t, "TIME_WRITE")
    BY <1>9 DEF ip_queue_xmit
  <2> HIDE DEF t
  <2>5. /\ snd' \in SndType /\ snd'.write_seq = i
        /\ snd'.send_head = sh /\ snd'.wfront = snd.wfront
        /\ snd'.rcv_ack_seq = snd.rcv_ack_seq
        /\ snd'.timeout = "TIME_WRITE" /\ snd'.timer
    BY <2>3, <2>4, ResetTimer
  <2>6. Run(snd.wfront, i, i)
    BY <1>2, <2>1 DEF Run
  <2>7. InARow(snd', acked)
    BY <1>2, <1>3, <1>4, <2>1, <2>2, <2>5, <2>6 DEF InARow, Rows
  <2>8. SenderOK(snd', acked)
    BY <1>1, <2>1, <2>2, <2>5, <2>7 DEF SenderOK, Blocked, SomethingToRepeat, TimerOf
  <2>9. Packets(toR, i)
    BY <1>2 DEF IInv, Packets
  <2>10. Data(i) \in [kind : {"data", "probe"}, h : Nat] /\ Data(i).h \in 1..i
    BY <1>2 DEF Data
  <2>11. Packets(toR', snd'.write_seq) /\ snd'.write_seq >= snd.write_seq
    BY <1>2, <1>9, <2>5, <2>9, <2>10, OneSent
  <2> QED
    BY <1>6, <2>8, <2>11, SenderStep
<1> QED
  BY <1>5, <1>8, <1>9

\* The timer fires.
LEMMA TimerStep == ASSUME IInv, net_timer PROVE IInv'
<1> DEFINE s == IF ProbeNeeded(snd) THEN reset_timer(snd, "TIME_PROBE0")
                ELSE [snd EXCEPT !.timer = FALSE]
           acked == rcv.acked_seq
           Same(t) == /\ t \in SndType /\ t.write_seq = snd.write_seq
                      /\ t.sent_seq = snd.sent_seq /\ t.rcv_ack_seq = snd.rcv_ack_seq
                      /\ t.window_seq = snd.window_seq /\ t.send_head = snd.send_head
                      /\ t.wfront = snd.wfront
<1>1. /\ snd \in SndType /\ snd.rcv_ack_seq <= acked /\ Blocked(snd)
      /\ SomethingToRepeat(snd) /\ TimerOf(snd) /\ InARow(snd, acked)
  BY DEF IInv, SenderOK
<1>2. /\ snd.write_seq \in Nat /\ snd.window_seq \in Int /\ snd.send_head \in Seq(Nat)
      /\ snd.wfront \in Seq(Nat) /\ snd.cong_window \in Nat \ {0} /\ snd.sent_seq \in Nat
  BY <1>1, SndFields
<1>3. UNCHANGED <<rcv, toS>>
  BY DEF net_timer
<1>4. \/ snd.timeout = "TIME_PROBE0" /\ tcp_send_probe0(s)
      \/ snd.timeout = "TIME_WRITE" /\ snd.send_head # <<>> /\ tcp_retransmit(s)
      \/ /\ snd.timeout # "TIME_PROBE0"
         /\ ~(snd.timeout = "TIME_WRITE" /\ snd.send_head # <<>>)
         /\ snd' = s /\ UNCHANGED toR
  BY DEF net_timer
<1>5. /\ Same(s) /\ s.cong_window = snd.cong_window /\ s.retransmits = snd.retransmits
      /\ IF ProbeNeeded(snd) THEN s.timeout = "TIME_PROBE0" /\ s.timer
         ELSE s.timeout = snd.timeout /\ ~s.timer
  <2>1. CASE ProbeNeeded(snd)
    BY <1>1, <2>1, ResetTimer
  <2>2. CASE ~ProbeNeeded(snd)
    BY <1>1, <2>2 DEF SndType
  <2> QED
    BY <2>1, <2>2
<1> HIDE DEF s
<1>6. snd.send_head = <<>> => packets_out(snd) = 0 /\ ~Retransmitting(snd)
  BY <1>1 DEF packets_out, SomethingToRepeat
<1>7. SUFFICES /\ Same(snd') /\ Blocked(snd') /\ SomethingToRepeat(snd') /\ TimerOf(snd')
               /\ Packets(toR', snd.write_seq)
  <2>1. InARow(snd', acked)
    BY <1>1, <1>7 DEF InARow, Rows
  <2>2. SenderOK(snd', acked) /\ snd'.write_seq >= snd.write_seq
    BY <1>1, <1>2, <1>7, <2>1 DEF SenderOK
  <2>3. toS' \subseteq toS /\ Packets(toR', snd'.write_seq)
    BY <1>3, <1>7
  <2> QED
    BY <1>3, <2>2, <2>3, SenderStep
<1>8. CASE snd.timeout = "TIME_PROBE0" /\ tcp_send_probe0(s)
  <2> DEFINE t == reset_timer(s, "TIME_PROBE0")
  <2>1. snd' = [t EXCEPT !.retransmits = TRUE] /\ toR' = Sent(toR, Probe(s.sent_seq))
    BY <1>8 DEF tcp_send_probe0
  <2>2. Same(t) /\ t.timeout = "TIME_PROBE0" /\ t.timer /\ t.cong_window = snd.cong_window
    BY <1>5, ResetTimer
  <2> HIDE DEF t
  <2>3. /\ Same(snd') /\ snd'.timeout = "TIME_PROBE0" /\ snd'.timer
        /\ snd'.cong_window = snd.cong_window
    BY <2>1, <2>2 DEF SndType
  <2>4. snd.send_head = <<>>
    BY <1>1, <1>8 DEF TimerOf
  <2>5. Blocked(snd')
    BY <1>1, <1>2, <1>6, <2>3, <2>4 DEF Blocked
  <2>6. SomethingToRepeat(snd') /\ TimerOf(snd')
    BY <2>3, <2>4 DEF SomethingToRepeat, Retransmitting, TimerOf
  <2>7. Packets(toR', snd.write_seq)
    <3>1. Probe(s.sent_seq) \in [kind : {"data", "probe"}, h : Nat] /\ Probe(s.sent_seq).kind = "probe"
      BY <1>2, <1>5 DEF Probe
    <3> QED
      BY <1>2, <2>1, <3>1, OneSent DEF IInv
  <2> QED
    BY <2>3, <2>5, <2>6, <2>7
<1>9. CASE snd.timeout = "TIME_WRITE" /\ snd.send_head # <<>> /\ tcp_retransmit(s)
  <2> DEFINE t == reset_timer(s, "TIME_WRITE")
  <2>1. /\ snd' = [t EXCEPT !.retransmits = TRUE, !.cong_window = 1]
        /\ toR' = Sent(toR, Data(s.send_head[1]))
    BY <1>9 DEF tcp_retransmit
  <2>2. Same(t) /\ t.timeout = "TIME_WRITE" /\ t.timer
    BY <1>5, ResetTimer
  <2> HIDE DEF t
  <2>3. Same(snd') /\ snd'.timeout = "TIME_WRITE" /\ snd'.timer /\ snd'.retransmits
    <3>1. 1 \in Nat \ {0}
      OBVIOUS
    <3>2. snd' \in SndType
      BY <2>1, <2>2, <3>1 DEF SndType
    <3>3. snd'.timeout = "TIME_WRITE" /\ snd'.timer = t.timer /\ snd'.retransmits = TRUE
      BY <2>1, <2>2 DEF SndType
    <3> QED
      BY <2>1, <2>2, <3>2, <3>3 DEF SndType
  <2>4. Blocked(snd') /\ SomethingToRepeat(snd') /\ TimerOf(snd')
    BY <1>9, <2>3 DEF Blocked, Retransmitting, SomethingToRepeat, TimerOf
  <2>5. Packets(toR', snd.write_seq)
    <3>1. PICK lo \in Nat, mid \in Nat : Rows(snd, lo, mid)
      BY <1>1 DEF InARow
    <3>2. snd.send_head[1] \in 1..snd.write_seq
      <4>1. 1 \in 1..Len(snd.send_head)
        BY <1>2, <1>9
      <4> QED
        BY <1>1, <3>1, <4>1, SentWereWritten
    <3>3. /\ Data(s.send_head[1]) \in [kind : {"data", "probe"}, h : Nat]
          /\ Data(s.send_head[1]).h \in 1..snd.write_seq
      BY <1>2, <1>5, <3>2 DEF Data
    <3> QED
      BY <1>2, <2>1, <3>3, OneSent DEF IInv
  <2> QED
    BY <2>3, <2>4, <2>5
<1>10. CASE /\ snd.timeout # "TIME_PROBE0"
            /\ ~(snd.timeout = "TIME_WRITE" /\ snd.send_head # <<>>)
            /\ snd' = s /\ UNCHANGED toR
  <2>1. snd.send_head = <<>>
    BY <1>1, <1>10 DEF TimerOf
  <2>2. snd.wfront # <<>> => ProbeNeeded(snd)
    <3>1. ASSUME snd.wfront # <<>> PROVE snd.wfront[1] > snd.window_seq /\ snd.wfront[1] \in Nat
      <4>1. 1 \in 1..Len(snd.wfront)
        BY <1>2, <3>1
      <4> QED
        BY <1>1, <1>2, <1>6, <2>1, <3>1, <4>1 DEF Blocked
    <3> QED
      BY <1>2, <2>1, <3>1 DEF ProbeNeeded
  <2>3. Blocked(snd')
    <3>1. snd.wfront # <<>> => snd.wfront[1] > snd.window_seq
      BY <1>1, <1>2, <1>6, <2>1 DEF Blocked
    <3> QED
      BY <1>5, <1>10, <3>1 DEF Blocked
  <2>4. SomethingToRepeat(snd')
    <3>1. ~Retransmitting(snd)
      BY <1>6, <2>1
    <3>2. ~Retransmitting(snd')
      BY <1>5, <1>10, <3>1 DEF Retransmitting
    <3> QED
      BY <3>2 DEF SomethingToRepeat
  <2>5. TimerOf(snd')
    BY <1>5, <1>10, <2>1, <2>2 DEF TimerOf
  <2> QED
    BY <1>5, <1>10, <2>3, <2>4, <2>5 DEF IInv
<1> QED
  BY <1>4, <1>8, <1>9, <1>10

-----------------------------------------------------------------------------
(* tcp_ack.                                                                *)

\* The sending socket while tcp_ack is at work on it: its timer is as it was,
\* and if nothing is out any more nothing is sent again, except that the
\* window may have been shrunk to nothing.
Loose(s, acked) ==
    /\ s \in SndType /\ s.rcv_ack_seq <= acked /\ InARow(s, acked)
    /\ s.send_head # <<>> => s.timer /\ s.timeout = "TIME_WRITE"
    /\ s.wfront # <<>> => s.timer
    /\ s.send_head = <<>> /\ Retransmitting(s) =>
            s.wfront # <<>> /\ s.wfront[1] > s.window_seq

\* The same when the acknowledged segments are gone.
Ready(s, acked) ==
    /\ Loose(s, acked)
    /\ s.send_head # <<>> => s.rcv_ack_seq < s.send_head[1]

\* The socket after n rounds of tcp_write_xmit.
LEMMA Rounds ==
    ASSUME NEW acked \in Nat, NEW s, Ready(s, acked), NEW n \in 0..Len(s.wfront)
    PROVE  LET x == Xmit(s, n)
           IN  /\ x \in SndType /\ x.write_seq = s.write_seq
               /\ x.window_seq = s.window_seq /\ x.rcv_ack_seq = s.rcv_ack_seq
               /\ x.cong_window = s.cong_window
               /\ Len(x.wfront) = Len(s.wfront) - n
               /\ InARow(x, acked) /\ TimerOf(x)
               /\ n # 0 => SomethingToRepeat(x)
               /\ n = 0 /\ MayXmit(s) => MayXmit(x)
<1> DEFINE a == s.rcv_ack_seq
           w == s.write_seq
           wf == s.wfront
           q == SubSeq(wf, 1, n)
           out == Beyond(q, a)
           rest == SubSeq(wf, n + 1, Len(wf))
           sh == s.send_head \o out
           t == [s EXCEPT !.wfront = rest, !.send_head = sh, !.retransmits = @ /\ out = q]
           u == [t EXCEPT !.sent_seq = out[Len(out)]]
           x == Xmit(s, n)
<1>1. s \in SndType /\ InARow(s, acked) /\ a <= acked
  BY DEF Ready, Loose
<1>2. /\ w \in Nat /\ a \in Nat /\ wf \in Seq(Nat) /\ s.send_head \in Seq(Nat)
      /\ s.retransmits \in BOOLEAN /\ s.window_seq \in Int /\ s.cong_window \in Nat
  BY <1>1, SndFields
<1>3. PICK lo \in Nat, mid \in Nat : Rows(s, lo, mid) /\ lo <= acked
  BY <1>1 DEF InARow
<1>4. lo <= mid /\ mid <= w /\ Run(s.send_head, lo, mid) /\ Run(wf, mid, w) /\ Len(wf) = w - mid
  BY <1>3 DEF Rows, Run
<1>5. x = IF out = <<>> THEN t ELSE reset_timer(u, "TIME_WRITE")
  BY DEF Xmit
<1> HIDE DEF x, a, w
<1>6. n \in 0..w - mid /\ n \in Nat /\ mid + n \in Nat /\ mid + n <= w
  BY <1>2, <1>4
<1>7. Run(q, mid, mid + n) /\ Run(rest, mid + n, w)
  BY <1>2, <1>4, <1>6, RunParts
<1> HIDE DEF q, rest
<1>8. PICK c \in Nat : /\ mid <= c /\ c <= mid + n /\ (c <= a \/ c = mid)
                       /\ Run(out, c, mid + n)
  BY <1>2, <1>6, <1>7, RunCut
<1> HIDE DEF out
<1>9. PICK l \in Nat : l <= c /\ l <= acked /\ Run(s.send_head, l, c)
  <2>1. CASE s.send_head # <<>>
    <3>1. s.send_head[1] = lo + 1
      BY <1>4, <2>1, RunEmpty
    <3>2. a < lo + 1
      BY <2>1, <3>1 DEF Ready, a
    <3>3. c = mid
      BY <1>2, <1>4, <1>8, <3>2
    <3> QED
      BY <1>3, <1>4, <3>3
  <2>2. CASE s.send_head = <<>>
    <3>1. lo = mid
      BY <1>4, <2>2, RunEmpty
    <3>2. Run(s.send_head, c, c)
      BY <1>2, <2>2 DEF Run
    <3>3. c <= acked
      BY <1>1, <1>2, <1>3, <1>8, <3>1
    <3> QED
      BY <3>2, <3>3
  <2> QED
    BY <2>1, <2>2
<1>10. Run(sh, l, mid + n)
  BY <1>6, <1>8, <1>9, RunConcat
<1>11. /\ sh \in Seq(Nat) /\ Len(sh) = Len(s.send_head) + Len(out)
       /\ out \in Seq(Nat) /\ rest \in Seq(Nat) /\ q \in Seq(Nat)
       /\ Len(rest) = Len(wf) - n
  <2>1. /\ out \in Seq(Nat) /\ rest \in Seq(Nat) /\ q \in Seq(Nat) 
        /\ Len(rest) = w - (mid + n)
    BY <1>7, <1>8 DEF Run
  <2>2. Len(rest) = Len(wf) - n
    BY <1>2, <1>4, <1>6, <2>1
  <2> QED
    BY <1>2, <2>1, <2>2, ConcatProperties
<1> HIDE DEF sh, wf
<1>12. s.send_head # <<>> => sh # <<>>
  BY <1>2, <1>11
<1>13. sh # <<>> => s.send_head # <<>> \/ out # <<>>
  BY <1>2, <1>11
<1>14. (out = q) \in BOOLEAN
  OBVIOUS
<1>15. /\ t \in SndType /\ t.write_seq = w /\ t.window_seq = s.window_seq
       /\ t.rcv_ack_seq = a /\ t.cong_window = s.cong_window /\ t.wfront = rest
       /\ t.send_head = sh /\ t.timer = s.timer /\ t.timeout = s.timeout
       /\ t.retransmits = (s.retransmits /\ out = q)
  BY <1>1, <1>2, <1>11, <1>14 DEF SndType, w, a
<1> HIDE DEF t
<1>16. out # <<>> => out[Len(out)] \in Nat
  <2>1. \A z \in Seq(Nat) : z # <<>> => z[Len(z)] \in Nat
    OBVIOUS
  <2> QED
    BY <1>11, <2>1, Zenon
<1>17. out # <<>> =>
       /\ u \in SndType /\ u.write_seq = w /\ u.window_seq = s.window_seq
       /\ u.rcv_ack_seq = a /\ u.cong_window = s.cong_window /\ u.wfront = rest
       /\ u.send_head = sh /\ u.retransmits = t.retransmits
  BY <1>15, <1>16 DEF SndType
<1> HIDE DEF u
<1>18. /\ x \in SndType /\ x.write_seq = w /\ x.window_seq = s.window_seq
       /\ x.rcv_ack_seq = a /\ x.cong_window = s.cong_window /\ x.wfront = rest
       /\ x.send_head = sh /\ x.retransmits = t.retransmits
       /\ IF out = <<>> THEN x.timer = s.timer /\ x.timeout = s.timeout
          ELSE x.timer /\ x.timeout = "TIME_WRITE"
  <2>1. CASE out = <<>>
    BY <1>5, <1>15, <2>1
  <2>2. CASE out # <<>>
    BY <1>5, <1>17, <2>2, ResetTimer
  <2> QED
    BY <2>1, <2>2
<1>19. InARow(x, acked)
  BY <1>6, <1>7, <1>8, <1>9, <1>10, <1>18 DEF InARow, Rows
<1>20. TimerOf(x)
  <2>1. rest # <<>> => wf # <<>>
    BY <1>2, <1>11 DEF wf
  <2>2. /\ s.send_head # <<>> => s.timer /\ s.timeout = "TIME_WRITE"
        /\ wf # <<>> => s.timer
    BY DEF Ready, Loose, wf
  <2> QED
    BY <1>13, <1>18, <2>1, <2>2 DEF TimerOf
<1>21. n # 0 => SomethingToRepeat(x)
  <2> SUFFICES ASSUME n # 0, sh = <<>> PROVE ~x.retransmits
    BY <1>18 DEF SomethingToRepeat, Retransmitting
  <2>1. out = <<>>
    BY <1>2, <1>11
  <2>2. q # <<>>
    <3>1. mid # mid + n /\ mid <= mid + n
      BY <1>6
    <3> QED
      BY <1>6, <1>7, <3>1, RunEmpty
  <2> QED
    BY <1>15, <1>18, <2>1, <2>2
<1>22. n = 0 /\ MayXmit(s) => MayXmit(x)
  <2> SUFFICES ASSUME n = 0, MayXmit(s) PROVE MayXmit(x)
    OBVIOUS
  <2>1. mid + n = mid /\ c = mid
    BY <1>8
  <2>2. q = <<>> /\ out = <<>>
    BY <1>6, <1>7, <1>8, <2>1, RunEmpty
  <2>3. rest # <<>> /\ rest[1] = wf[1]
    <3>1. wf # <<>>
      BY DEF MayXmit, wf
    <3>2. wf[1] = mid + 1 /\ mid # w
      BY <1>2, <1>4, <3>1, RunEmpty DEF wf
    <3> QED
      BY <1>2, <1>4, <1>7, <2>1, <3>2, RunEmpty
  <2>4. Len(sh) = Len(s.send_head)
    BY <1>2, <1>11, <2>2
  <2>5. Retransmitting(x) => Retransmitting(s)
    BY <1>15, <1>18, <2>2 DEF Retransmitting
  <2> QED
    BY <1>18, <2>3, <2>4, <2>5 DEF MayXmit, packets_out, wf, a
<1> QED
  BY <1>11, <1>18, <1>19, <1>20, <1>21, <1>22 DEF x, a, w, wf

\* tcp_write_xmit goes on until nothing more may be sent.
LEMMA WriteXmitOK ==
    ASSUME NEW acked \in Nat, NEW s, Ready(s, acked), MayXmit(s)
    PROVE  SenderOK(tcp_write_xmit(s), acked) /\ tcp_write_xmit(s).write_seq = s.write_seq
<1> DEFINE N == {n \in 0..Len(s.wfront) : ~MayXmit(Xmit(s, n))}
           k == LeastOf(N)
           x == Xmit(s, k)
<1>1. s \in SndType /\ s.wfront \in Seq(Nat) /\ s.rcv_ack_seq <= acked
  BY SndFields DEF Ready, Loose
<1>2. Len(s.wfront) \in N
  <2> DEFINE e == Xmit(s, Len(s.wfront))
  <2>1. Len(s.wfront) \in 0..Len(s.wfront)
    BY <1>1
  <2>2. e \in SndType /\ Len(e.wfront) = Len(s.wfront) - Len(s.wfront)
    BY <2>1, Rounds
  <2> HIDE DEF e
  <2>3. e.wfront = <<>>
    BY <1>1, <2>2, SndFields
  <2>4. ~MayXmit(e)
    BY <2>3 DEF MayXmit
  <2> QED
    BY <2>1, <2>4 DEF e
<1>3. k \in N
  <2>1. N \subseteq Nat
    BY <1>1
  <2> HIDE DEF N
  <2> QED
    BY <1>2, <2>1, LeastNatural
<1>4. k \in 0..Len(s.wfront) /\ ~MayXmit(x)
  BY <1>3
<1>5. tcp_write_xmit(s) = x
  BY DEF tcp_write_xmit
<1> HIDE DEF N, k
<1>6. /\ x \in SndType /\ x.write_seq = s.write_seq
      /\ x.window_seq = s.window_seq /\ x.rcv_ack_seq = s.rcv_ack_seq
      /\ InARow(x, acked) /\ TimerOf(x)
      /\ k # 0 => SomethingToRepeat(x)
      /\ k = 0 /\ MayXmit(s) => MayXmit(x)
  BY <1>4, Rounds
<1> HIDE DEF x
<1>7. SomethingToRepeat(x)
  BY <1>4, <1>6
<1>8. Blocked(x)
  <2> SUFFICES ASSUME x.wfront # <<>>
               PROVE  \/ x.wfront[1] > x.window_seq
                      \/ Retransmitting(x)
                      \/ packets_out(x) >= x.cong_window
    BY DEF Blocked
  <2>1. /\ x.wfront[1] \in Nat /\ x.window_seq \in Int /\ x.cong_window \in Nat
        /\ packets_out(x) \in Nat
    BY <1>6, SndFields DEF packets_out
  <2> QED
    BY <1>4, <2>1 DEF MayXmit
<1> QED
  BY <1>1, <1>5, <1>6, <1>7, <1>8 DEF SenderOK

\* The last part of tcp_ack leaves the socket in order.
LEMMA GoOnOK ==
    ASSUME NEW acked \in Nat, NEW s, Ready(s, acked)
    PROVE  SenderOK(GoOn(s), acked) /\ GoOn(s).write_seq = s.write_seq
<1> DEFINE g == GoOn(s)
<1>1. /\ Loose(s, acked) /\ s \in SndType /\ s.rcv_ack_seq <= acked /\ InARow(s, acked)
      /\ s.wfront \in Seq(Nat) /\ s.window_seq \in Int
      /\ s.cong_window \in Nat \ {0} /\ packets_out(s) \in Nat
  BY SndFields DEF Ready, Loose, packets_out
<1>2. CASE MayXmit(s)
  BY <1>2, WriteXmitOK DEF GoOn
<1>3. CASE ~MayXmit(s) /\ s.wfront # <<>>
  <2>1. s.wfront[1] \in Nat
    BY <1>1, <1>3
  <2>2. s.wfront[1] > s.window_seq \/ Retransmitting(s) \/ packets_out(s) >= s.cong_window
    BY <1>1, <1>3, <2>1 DEF MayXmit
  <2>3. CASE ProbeNeeded(s)
    <3>1. g = reset_timer(s, "TIME_PROBE0")
      BY <1>3, <2>3 DEF GoOn
    <3> HIDE DEF g
    <3>2. /\ g \in SndType /\ g.timeout = "TIME_PROBE0" /\ g.timer
          /\ g.write_seq = s.write_seq /\ g.rcv_ack_seq = s.rcv_ack_seq
          /\ g.window_seq = s.window_seq
          /\ g.send_head = s.send_head /\ g.wfront = s.wfront
      BY <1>1, <3>1, ResetTimer
    <3>3. s.send_head = <<>> /\ s.wfront[1] > s.window_seq
      BY <1>1, <2>1, <2>3 DEF ProbeNeeded
    <3>4. InARow(g, acked)
      BY <1>1, <3>2 DEF InARow, Rows
    <3>5. SenderOK(g, acked)
      BY <1>1, <3>2, <3>3, <3>4
         DEF SenderOK, Blocked, SomethingToRepeat, Retransmitting, TimerOf
    <3> QED
      BY <3>2, <3>5 DEF g
  <2>4. CASE ~ProbeNeeded(s)
    <3>1. g = s
      BY <1>3, <2>4 DEF GoOn
    <3>2. Blocked(s)
      BY <2>2 DEF Blocked
    <3>3. TimerOf(s)
      BY <1>1 DEF Loose, TimerOf
    <3>4. SomethingToRepeat(s)
      <4>1. s.send_head = <<>> => ~(s.wfront[1] > s.window_seq)
        BY <1>1, <1>3, <2>1, <2>4 DEF ProbeNeeded
      <4> QED
        BY <1>1, <4>1 DEF Loose, SomethingToRepeat
    <3> QED
      BY <1>1, <3>1, <3>2, <3>3, <3>4 DEF SenderOK
  <2> QED
    BY <2>3, <2>4
<1>4. CASE ~MayXmit(s) /\ s.wfront = <<>> /\ s.send_head = <<>>
  <2>1. g = delete_timer(s)
    BY <1>4 DEF GoOn
  <2> HIDE DEF g
  <2>2. /\ g \in SndType /\ g.timeout = "none" /\ ~g.timer
        /\ g.write_seq = s.write_seq /\ g.rcv_ack_seq = s.rcv_ack_seq
        /\ g.send_head = s.send_head /\ g.wfront = s.wfront
    BY <1>1, <2>1 DEF SndType, delete_timer
  <2>3. InARow(g, acked)
    BY <1>1, <2>2 DEF InARow, Rows
  <2>4. SenderOK(g, acked)
    BY <1>1, <1>4, <2>2, <2>3
       DEF SenderOK, Blocked, SomethingToRepeat, Retransmitting, TimerOf
  <2> QED
    BY <2>2, <2>4 DEF g
<1>5. CASE ~MayXmit(s) /\ s.wfront = <<>> /\ s.send_head # <<>>
  <2>1. g = reset_timer(s, "TIME_WRITE")
    BY <1>5 DEF GoOn
  <2> HIDE DEF g
  <2>2. /\ g \in SndType /\ g.timeout = "TIME_WRITE" /\ g.timer
        /\ g.write_seq = s.write_seq /\ g.rcv_ack_seq = s.rcv_ack_seq
        /\ g.send_head = s.send_head /\ g.wfront = s.wfront
    BY <1>1, <2>1, ResetTimer
  <2>3. InARow(g, acked)
    BY <1>1, <2>2 DEF InARow, Rows
  <2>4. SenderOK(g, acked)
    BY <1>1, <1>5, <2>2, <2>3 DEF SenderOK, Blocked, SomethingToRepeat, TimerOf
  <2> QED
    BY <2>2, <2>4 DEF g
<1> QED
  BY <1>2, <1>3, <1>4, <1>5

\* Acknowledged segments leave the retransmit queue.
LEMMA CleanOK ==
    ASSUME NEW acked \in Nat, NEW s, Loose(s, acked)
    PROVE  Ready(Clean(s, s.rcv_ack_seq), acked)
           /\ Clean(s, s.rcv_ack_seq).write_seq = s.write_seq
<1> DEFINE a == s.rcv_ack_seq
           left == Beyond(s.send_head, a)
           t == [s EXCEPT !.send_head = left, !.retransmits = @ /\ left # <<>>]
           x == Clean(s, a)
<1>1. s \in SndType /\ InARow(s, acked) /\ a <= acked
  BY DEF Loose
<1>2. /\ s.write_seq \in Nat /\ a \in Nat /\ s.wfront \in Seq(Nat)
      /\ s.send_head \in Seq(Nat) /\ s.retransmits \in BOOLEAN
  BY <1>1, SndFields
<1>3. PICK lo \in Nat, mid \in Nat : Rows(s, lo, mid) /\ lo <= acked
  BY <1>1 DEF InARow
<1>4. /\ lo <= mid /\ mid <= s.write_seq /\ Run(s.send_head, lo, mid)
      /\ Run(s.wfront, mid, s.write_seq) /\ Len(s.send_head) = mid - lo
  BY <1>3 DEF Rows, Run
<1> HIDE DEF a
<1>5. PICK c \in Nat : /\ lo <= c /\ c <= mid /\ (c <= a \/ c = lo) /\ (c < mid => a <= c)
                       /\ Run(left, c, mid)
  <2>1. a \in Int
    BY <1>2
  <2> QED
    BY <1>4, <2>1, RunCut
<1>6. x = IF Len(left) = Len(s.send_head) THEN s ELSE t
  BY DEF Clean
<1> HIDE DEF left, x
<1>7. left \in Seq(Nat) /\ Len(left) = mid - c
  BY <1>5 DEF Run
<1>8. left # <<>> => left[1] = c + 1 /\ a <= c
  <2>1. (left = <<>> <=> c = mid) /\ (left # <<>> => left[1] = c + 1)
    BY <1>5, RunEmpty
  <2> QED
    BY <1>5, <2>1
<1>9. CASE Len(left) = Len(s.send_head)
  <2>1. c = lo /\ x = s
    BY <1>4, <1>5, <1>6, <1>7, <1>9
  <2>2. s.send_head # <<>> => s.send_head[1] = lo + 1 /\ lo < mid
    BY <1>4, RunEmpty
  <2>3. s.send_head # <<>> => a < s.send_head[1]
    BY <1>2, <1>5, <2>1, <2>2
  <2> QED
    BY <2>1, <2>3 DEF Ready, a, x
<1>10. CASE Len(left) # Len(s.send_head)
  <2>1. x = t /\ c # lo
    BY <1>4, <1>6, <1>7, <1>10
  <2>2. s.send_head # <<>>
    BY <1>2, <1>4, <1>5, <2>1, RunEmpty
  <2>3. (left # <<>>) \in BOOLEAN
    OBVIOUS
  <2>4. /\ t \in SndType /\ t.write_seq = s.write_seq /\ t.rcv_ack_seq = a
        /\ t.window_seq = s.window_seq /\ t.send_head = left /\ t.wfront = s.wfront
        /\ t.timer = s.timer /\ t.timeout = s.timeout
        /\ t.retransmits = (s.retransmits /\ left # <<>>)
    BY <1>1, <1>2, <1>7, <2>3 DEF SndType, a
  <2> HIDE DEF t
  <2>5. InARow(t, acked)
    <3>1. c <= acked
      BY <1>1, <1>2, <1>3, <1>5
    <3> QED
      BY <1>4, <1>5, <2>4, <3>1 DEF InARow, Rows
  <2>6. s.timer /\ s.timeout = "TIME_WRITE"
    BY <2>2 DEF Loose
  <2>7. left = <<>> => ~Retransmitting(t)
    BY <2>4 DEF Retransmitting
  <2>8. Loose(t, acked)
    BY <1>1, <2>4, <2>5, <2>6, <2>7 DEF Loose
  <2>9. Ready(t, acked)
    BY <1>2, <1>8, <2>4, <2>8 DEF Ready
  <2> QED
    BY <2>1, <2>4, <2>9 DEF x, a
<1> QED
  BY <1>9, <1>10

\* The window has been shrunk, or not, and the numbers are taken over.
LEMMA UpdateOK ==
    ASSUME NEW acked \in Nat, NEW s, SenderOK(s, acked), NEW a \in Nat, a <= acked,
           NEW edge \in Int, NEW cw \in Nat \ {0}
    PROVE  LET s1 == IF s.window_seq > edge THEN Shrink(s, edge) ELSE s
               s2 == Update(s1, a, edge, cw)
           IN  Loose(s2, acked) /\ s2.rcv_ack_seq = a /\ s2.write_seq = s.write_seq
<1> DEFINE s1 == IF s.window_seq > edge THEN Shrink(s, edge) ELSE s
           s2 == Update(s1, a, edge, cw)
           t == [s1 EXCEPT !.window_seq = edge, !.rcv_ack_seq = a, !.cong_window = cw]
           keep == Upto(s.send_head, edge)
           back == Beyond(s.send_head, edge)
<1>1. s \in SndType /\ InARow(s, acked) /\ SomethingToRepeat(s) /\ TimerOf(s)
  BY DEF SenderOK
<1>2. /\ s.write_seq \in Nat /\ s.wfront \in Seq(Nat) /\ s.window_seq \in Int
      /\ s.send_head \in Seq(Nat)
  BY <1>1, SndFields
<1>3. PICK lo \in Nat, mid \in Nat : Rows(s, lo, mid) /\ lo <= acked
  BY <1>1 DEF InARow
<1>4. /\ lo <= mid /\ mid <= s.write_seq /\ Run(s.send_head, lo, mid)
      /\ Run(s.wfront, mid, s.write_seq)
  BY <1>3 DEF Rows
\* What the step looks like from here on.
<1> DEFINE Fine(u) == /\ u \in SndType /\ u.write_seq = s.write_seq
                      /\ u.timer = s.timer /\ u.timeout = s.timeout
                      /\ u.retransmits \in BOOLEAN /\ (u.retransmits => s.retransmits)
                      /\ InARow(u, acked)
                      /\ u.send_head # <<>> => s.send_head # <<>>
                      /\ u.wfront # <<>> => s.send_head # <<>> \/ s.wfront # <<>>
                      /\ u.send_head = <<>> /\ s.send_head # <<>> =>
                             u.wfront # <<>> /\ u.wfront[1] > edge
<1>5. Fine(s1)
  <2>1. CASE ~(s.window_seq > edge)
    BY <1>1, <2>1, SndFields
  <2>2. CASE s.window_seq > edge
    <3>1. PICK c \in Nat : /\ lo <= c /\ c <= mid /\ (c < mid => edge <= c)
                           /\ Run(keep, lo, c) /\ Run(back, c, mid)
      BY <1>4, RunCut
    <3>2. s1 = [s EXCEPT !.send_head = keep, !.wfront = back \o @]
      BY <2>2 DEF Shrink
    <3> HIDE DEF keep, back
    <3> DEFINE wf == back \o s.wfront
    <3>3. Run(wf, c, s.write_seq)
      BY <1>2, <1>4, <3>1, RunConcat
    <3>4. keep \in Seq(Nat) /\ wf \in Seq(Nat)
      BY <3>1, <3>3 DEF Run
    <3>5. /\ keep = <<>> <=> lo = c
          /\ s.send_head = <<>> <=> lo = mid
          /\ s.wfront = <<>> <=> mid = s.write_seq
          /\ wf = <<>> <=> c = s.write_seq
          /\ wf # <<>> => wf[1] = c + 1
      <4>1. c <= s.write_seq
        BY <1>2, <1>4, <3>1
      <4> HIDE DEF wf
      <4>2. keep = <<>> <=> lo = c
        BY <3>1, RunEmpty
      <4>3. s.send_head = <<>> <=> lo = mid
        BY <1>4, RunEmpty
      <4>4. s.wfront = <<>> <=> mid = s.write_seq
        BY <1>2, <1>4, RunEmpty
      <4>5. (wf = <<>> <=> c = s.write_seq) /\ (wf # <<>> => wf[1] = c + 1)
        BY <1>2, <3>3, <4>1, RunEmpty
      <4> QED
        BY <4>2, <4>3, <4>4, <4>5
    <3> HIDE DEF s1
    <3>6. /\ s1 \in SndType /\ s1.write_seq = s.write_seq
          /\ s1.timer = s.timer /\ s1.timeout = s.timeout /\ s1.retransmits = s.retransmits
          /\ s1.send_head = keep /\ s1.wfront = wf
      BY <1>1, <3>2, <3>4 DEF SndType
    <3> HIDE DEF wf
    <3>7. InARow(s1, acked)
      <4>1. c <= s.write_seq
        BY <1>2, <1>4, <3>1
      <4> QED
        BY <1>3, <3>1, <3>3, <3>6, <4>1 DEF InARow, Rows
    <3>8. s1.send_head # <<>> => s.send_head # <<>>
      BY <3>1, <3>5, <3>6
    <3>9. s1.wfront # <<>> => s.send_head # <<>> \/ s.wfront # <<>>
      BY <1>4, <3>1, <3>5, <3>6
    <3>10. s1.send_head = <<>> /\ s.send_head # <<>> =>
             s1.wfront # <<>> /\ s1.wfront[1] > edge
      <4> SUFFICES ASSUME keep = <<>>, s.send_head # <<>>
                   PROVE  wf # <<>> /\ wf[1] > edge
        BY <3>6
      <4>1. lo = c /\ c < mid
        BY <3>1, <3>5
      <4>2. c # s.write_seq /\ c + 1 > edge
        BY <1>2, <1>4, <3>1, <4>1
      <4> QED
        BY <3>5, <4>2
    <3>11. s1.retransmits \in BOOLEAN
      BY <1>1, <3>6, SndFields
    <3> QED
      BY <3>6, <3>7, <3>8, <3>9, <3>10, <3>11
  <2> QED
    BY <2>1, <2>2
<1>6. s2 = t \/ s2 = [t EXCEPT !.retransmits = FALSE]
  BY DEF Update
<1> HIDE DEF s1, s2
<1>7. /\ t \in SndType /\ t.write_seq = s1.write_seq /\ t.timer = s1.timer
      /\ t.timeout = s1.timeout /\ t.retransmits = s1.retransmits
      /\ t.send_head = s1.send_head /\ t.wfront = s1.wfront
      /\ t.window_seq = edge /\ t.rcv_ack_seq = a
  BY <1>5 DEF SndType
<1> HIDE DEF t
<1>8. /\ s2 \in SndType /\ s2.write_seq = s1.write_seq /\ s2.timer = s1.timer
      /\ s2.timeout = s1.timeout
      /\ s2.send_head = s1.send_head /\ s2.wfront = s1.wfront
      /\ s2.window_seq = edge /\ s2.rcv_ack_seq = a
      /\ s2.retransmits => s1.retransmits
  <2>1. CASE s2 = t
    BY <1>7, <2>1
  <2>2. CASE s2 = [t EXCEPT !.retransmits = FALSE]
    BY <1>7, <2>2 DEF SndType
  <2> QED
    BY <1>6, <2>1, <2>2
<1>9. InARow(s2, acked)
  BY <1>5, <1>8 DEF InARow, Rows
<1>10. s2.send_head # <<>> => s2.timer /\ s2.timeout = "TIME_WRITE"
  BY <1>1, <1>5, <1>8 DEF TimerOf
<1>11. s2.wfront # <<>> => s2.timer
  BY <1>1, <1>5, <1>8 DEF TimerOf
<1>12. s2.send_head = <<>> /\ Retransmitting(s2) =>
           s2.wfront # <<>> /\ s2.wfront[1] > s2.window_seq
  <2> SUFFICES ASSUME s2.send_head = <<>>, Retransmitting(s2)
               PROVE  s2.wfront # <<>> /\ s2.wfront[1] > s2.window_seq
    OBVIOUS
  <2>1. Retransmitting(s)
    BY <1>5, <1>8 DEF Retransmitting
  <2>2. s.send_head # <<>>
    BY <1>1, <2>1 DEF SomethingToRepeat
  <2> QED
    BY <1>5, <1>8, <2>2
<1>13. Loose(s2, acked) /\ s2.rcv_ack_seq = a /\ s2.write_seq = s.write_seq
  BY <1>5, <1>8, <1>9, <1>10, <1>11, <1>12 DEF Loose
<1> QED
  BY <1>13 DEF s1, s2

\* An acknowledgement arrives.
LEMMA AckStep == ASSUME IInv, NEW m \in toS, ArriveS(m) PROVE IInv'
<1> DEFINE acked == rcv.acked_seq
           top == snd.write_seq
<1>1. SenderOK(snd, acked) /\ snd \in SndType /\ Packets(toR, top) /\ acked \in Nat
  BY DEF IInv, SenderOK, ReceiverOK, RcvType
<1>2. /\ top \in Nat /\ snd.cong_window \in Nat \ {0}
  BY <1>1, SndFields
<1>3. m.ack \in Nat /\ m.window \in Int /\ m.ack <= acked
  BY DEF IInv, Acks
<1>4. toS' \subseteq toS /\ UNCHANGED rcv
  BY DEF ArriveS
<1>5. CASE UNCHANGED <<snd, toR, shrunk>>
  <2>1. SenderOK(snd', acked) /\ snd'.write_seq >= top /\ Packets(toR', snd'.write_seq)
    BY <1>1, <1>2, <1>5
  <2> QED
    BY <1>4, <2>1, SenderStep
<1>6. ASSUME NEW late \in BOOLEAN, tcp_ack(m, late) PROVE IInv'
  <2> DEFINE edge == m.ack + m.window
             s1   == IF snd.window_seq > edge THEN Shrink(snd, edge) ELSE snd
  <2>1. PICK cw \in CongWindows(m.ack) :
            LET s2      == Update(s1, m.ack, edge, cw)
                s3      == Clean(s2, m.ack)
                s4      == GoOn(s3)
                cleaned == s3 # s2
                new     == NewlySent(s3, s4)
                first   == SentAll(toR, [n \in DOMAIN new |-> Data(new[n])])
            IN  \/ /\ s4.send_head # <<>>
                   /\ \E q \in Again(s4, cleaned) :
                            /\ snd' = reset_timer(s4, "TIME_WRITE")
                            /\ toR' = SentAll(first, [n \in DOMAIN q |-> Data(q[n])])
                \/ snd' = s4 /\ toR' = first
    BY <1>6, Zenon DEF tcp_ack
  <2> DEFINE s2      == Update(s1, m.ack, edge, cw)
             s3      == Clean(s2, m.ack)
             s4      == GoOn(s3)
             cleaned == s3 # s2
             new     == NewlySent(s3, s4)
             first   == SentAll(toR, [n \in DOMAIN new |-> Data(new[n])])
  <2>2. cw \in Nat \ {0}
    BY <1>2 DEF CongWindows
  <2>3. edge \in Int
    BY <1>3
  <2> HIDE DEF edge
  <2>4. Loose(s2, acked) /\ s2.rcv_ack_seq = m.ack /\ s2.write_seq = top
    BY <1>1, <1>3, <2>2, <2>3, UpdateOK
  <2>5. \/ s4.send_head # <<>> /\ \E q \in Again(s4, cleaned) :
                            /\ snd' = reset_timer(s4, "TIME_WRITE")
                            /\ toR' = SentAll(first, [n \in DOMAIN q |-> Data(q[n])])
        \/ snd' = s4 /\ toR' = first
    BY <2>1
  <2> HIDE DEF s2
  <2>6. Ready(s3, acked) /\ s3.write_seq = top
    BY <1>1, <2>4, CleanOK
  <2> HIDE DEF s3
  <2>7. SenderOK(s4, acked) /\ s4.write_seq = top
    BY <1>1, <2>6, GoOnOK
  <2> HIDE DEF s4, cleaned
  <2>8. s4 \in SndType /\ s4.send_head \in Seq(Nat)
    BY <2>7, SndFields DEF SenderOK
  <2>9. \A n \in 1..Len(s4.send_head) : s4.send_head[n] \in 1..top
    <3>1. PICK lo \in Nat, mid \in Nat : Rows(s4, lo, mid)
      BY <2>7 DEF SenderOK, InARow
    <3> QED
      BY <2>7, <2>8, <3>1, SentWereWritten
  <2>10. Packets(first, top)
    <3> DEFINE k == Len(s3.send_head)
    <3>1. k \in Nat
      BY <2>6, SndFields DEF Ready, Loose
    <3>2. new = SubSeq(s4.send_head, k + 1, Len(s4.send_head))
      BY DEF NewlySent
    <3> HIDE DEF k, new
    <3>3. /\ new \in Seq(Nat)
          /\ \A n \in 1..Len(new) : n + k \in 1..Len(s4.send_head) /\ new[n] = s4.send_head[n + k]
      <4> DEFINE h == s4.send_head
      <4>1. h \in Seq(Nat)
        BY <2>8
      <4> HIDE DEF h
      <4>2. /\ SubSeq(h, k + 1, Len(h)) \in Seq(Nat)
            /\ \A n \in 1..Len(SubSeq(h, k + 1, Len(h))) :
                  n + k \in 1..Len(h) /\ SubSeq(h, k + 1, Len(h))[n] = h[n + k]
        <5>1. CASE k <= Len(h)
          BY <3>1, <4>1, <5>1
        <5>2. CASE k > Len(h)
          <6>1. SubSeq(h, k + 1, Len(h)) = <<>>
            <7>1. k + 1 \in Int /\ Len(h) \in Int /\ Len(h) < k + 1
              BY <3>1, <4>1, <5>2
            <7> QED
              BY <7>1, SubSeqEmpty
          <6>2. <<>> \in Seq(Nat) /\ 1..Len(<<>>) = {}
            OBVIOUS
          <6> QED
            BY <6>1, <6>2
        <5> QED
          BY <3>1, <4>1, <5>1, <5>2
      <4> QED
        BY <3>2, <4>2 DEF h
    <3>4. \A n \in 1..Len(new) : new[n] \in 1..top
      BY <2>9, <3>3
    <3> QED
      BY <1>1, <1>2, <3>3, <3>4, DataSent
  <2> HIDE DEF first
  <2>11. CASE snd' = s4 /\ toR' = first
    <3>1. SenderOK(snd', acked) /\ snd'.write_seq >= top /\ Packets(toR', snd'.write_seq)
      BY <1>2, <2>7, <2>10, <2>11
    <3> QED
      BY <1>4, <3>1, SenderStep
  <2>12. CASE s4.send_head # <<>> /\ \E q \in Again(s4, cleaned) :
                            /\ snd' = reset_timer(s4, "TIME_WRITE")
                            /\ toR' = SentAll(first, [n \in DOMAIN q |-> Data(q[n])])
    <3>1. PICK q \in Again(s4, cleaned) :
                            /\ snd' = reset_timer(s4, "TIME_WRITE")
                            /\ toR' = SentAll(first, [n \in DOMAIN q |-> Data(q[n])])
      BY <2>12
    <3>2. q \in Seq(Nat) /\ \A n \in 1..Len(q) : q[n] \in 1..top
      <4>1. CASE q = s4.send_head
        BY <2>8, <2>9, <4>1
      <4>2. CASE q = SubSeq(s4.send_head, 1, 1)
        <5>1. 1 \in 1..Len(s4.send_head)
          BY <2>8, <2>12
        <5>2. q \in Seq(Nat) /\ Len(q) = 1 /\ q[1] = s4.send_head[1]
          BY <2>8, <4>2, <5>1
        <5> QED
          BY <2>9, <5>1, <5>2
      <4> QED
        BY <4>1, <4>2 DEF Again
    <3>3. Packets(toR', top)
      BY <1>2, <2>10, <3>1, <3>2, DataSent
    <3>4. s4.timer /\ s4.timeout = "TIME_WRITE"
      BY <2>7, <2>12 DEF SenderOK, TimerOf
    <3>5. /\ snd' \in SndType /\ snd'.timeout = "TIME_WRITE" /\ snd'.timer
          /\ snd'.write_seq = s4.write_seq /\ snd'.rcv_ack_seq = s4.rcv_ack_seq
          /\ snd'.window_seq = s4.window_seq
          /\ snd'.send_head = s4.send_head /\ snd'.wfront = s4.wfront
          /\ snd'.cong_window = s4.cong_window /\ snd'.retransmits = s4.retransmits
      BY <2>8, <3>1, ResetTimer
    <3>6. InARow(snd', acked)
      BY <2>7, <3>5 DEF SenderOK, InARow, Rows
    <3>7. Blocked(snd') /\ SomethingToRepeat(snd') /\ TimerOf(snd')
      BY <2>7, <2>12, <3>4, <3>5
         DEF SenderOK, Blocked, SomethingToRepeat, Retransmitting, packets_out, TimerOf
    <3>8. SenderOK(snd', acked)
      BY <2>7, <3>5, <3>6, <3>7 DEF SenderOK
    <3>9. snd'.write_seq >= top /\ Packets(toR', snd'.write_seq)
      BY <1>2, <2>7, <3>3, <3>5
    <3> QED
      BY <1>4, <3>8, <3>9, SenderStep
  <2> QED
    BY <2>5, <2>11, <2>12
<1> QED
  BY <1>5, <1>6 DEF ArriveS

-----------------------------------------------------------------------------
(* The theorems.                                                           *)

LEMMA InitOK == Init => IInv
<1> SUFFICES ASSUME Init PROVE IInv
  OBVIOUS
<1>1. Rspace(0) \in Int
  BY RspaceType
<1>2. /\ rcv \in RcvType /\ rcv.acked_seq = 0 /\ rcv.copied = 0 /\ rcv.rqueue = <<>>
  BY <1>1 DEF Init, RcvType
<1>3. /\ snd \in SndType /\ snd.write_seq = 0 /\ snd.rcv_ack_seq = 0 /\ snd.send_head = <<>>
      /\ snd.wfront = <<>> /\ snd.retransmits = FALSE /\ snd.timeout = "none"
  BY <1>1, Constants DEF Init, SndType
<1>4. ReceiverOK(rcv, snd.write_seq)
  <2>1. QueueOf(<<>>, 0, 0)
    BY DEF QueueOf, Sorted, ToSet
  <2> QED
    BY <1>2, <1>3, <2>1 DEF ReceiverOK, NoneLost
<1>5. InARow(snd, rcv.acked_seq)
  <2>1. Run(<<>>, 0, 0)
    BY DEF Run
  <2>2. Rows(snd, 0, 0)
    BY <1>3, <2>1 DEF Rows
  <2> QED
    BY <1>2, <2>2 DEF InARow
<1>6. SenderOK(snd, rcv.acked_seq)
  BY <1>2, <1>3, <1>5 DEF SenderOK, Blocked, SomethingToRepeat, Retransmitting, TimerOf
<1>7. Packets(toR, snd.write_seq) /\ Acks(toS, rcv.acked_seq)
  BY <1>2 DEF Init, Packets, Acks
<1> QED
  BY <1>4, <1>6, <1>7 DEF IInv

LEMMA NextOK ==
    ASSUME IInv, [Next]_vars
    PROVE  IInv' /\ rcv.acked_seq + rcv.window <= rcv'.acked_seq + rcv'.window
<1>0. rcv.acked_seq \in Nat /\ rcv.window \in Int
  BY DEF IInv, ReceiverOK, RcvType
<1>1. CASE tcp_write
  <2>1. rcv' = rcv
    BY <1>1, Zenon DEF tcp_write
  <2> QED
    BY <1>0, <1>1, <2>1, WriteStep
<1>2. CASE tcp_read
  BY <1>2, ReadStep DEF Onward
<1>3. CASE net_timer
  BY <1>0, <1>3, TimerStep DEF net_timer
<1>4. CASE AckTimer
  BY <1>4, AckTimerStep DEF Onward
<1>5. CASE \E m \in toR : ArriveR(m)
  BY <1>5, ArriveRStep DEF Onward
<1>6. CASE \E m \in toS : ArriveS(m)
  BY <1>0, <1>6, AckStep DEF ArriveS
<1>7. CASE Lose
  <2>1. toR' \subseteq toR /\ toS' \subseteq toS /\ UNCHANGED <<snd, rcv>>
    BY <1>7 DEF Lose
  <2>2. SenderOK(snd', rcv.acked_seq) /\ Packets(toR', snd'.write_seq)
    BY <2>1 DEF IInv, Packets
  <2>3. snd'.write_seq >= snd.write_seq
    BY <2>1, SndFields DEF IInv, SenderOK
  <2> QED
    BY <1>0, <2>1, <2>2, <2>3, SenderStep
<1>8. CASE UNCHANGED vars
  BY <1>0, <1>8 DEF vars, IInv
<1> QED
  BY <1>1, <1>2, <1>3, <1>4, <1>5, <1>6, <1>7, <1>8 DEF Next

\* The inductive invariant holds always.
THEOREM StreamInvariant == Spec => []IInv
<1>1. Init => IInv
  BY InitOK
<1>2. IInv /\ [Next]_vars => IInv'
  BY NextOK
<1> QED
  BY <1>1, <1>2, PTL DEF Spec

\* However segments arrive, tcp_data keeps the receive queue in order, the
\* walk of tcp_read finds in it one behind the other all that was
\* acknowledged and is not read, and no segment of it that can be
\* acknowledged is overlooked.
THEOREM QueueStaysReadable == Spec => []QueueReadable
<1>1. IInv => QueueReadable
  <2> SUFFICES ASSUME IInv PROVE QueueReadable
    OBVIOUS
  <2> DEFINE q == rcv.rqueue
             c == rcv.copied
             a == rcv.acked_seq
  <2>1. /\ rcv \in RcvType /\ Sorted(q) /\ a + 1 \notin ToSet(q)
        /\ \A i \in 1..a : i <= c \/ i \in ToSet(q)
    BY DEF IInv, ReceiverOK, QueueOf, NoneLost
  <2>2. c \in Nat /\ a \in Nat /\ q \in Seq(Nat) /\ Len(q) \in Nat
    BY <2>1 DEF RcvType
  <2> HIDE DEF q, c, a
  <2>3. ASSUME NEW n \in 1..Len(q) - 1 PROVE q[n] < q[n + 1]
    <3>1. n \in 1..Len(q) /\ n + 1 \in 1..Len(q) /\ n < n + 1
      BY <2>2
    <3> QED
      BY <2>1, <3>1 DEF Sorted
  <2>4. \A j \in c + 1..a : j \in ToSet(q)
    BY <2>1, <2>2
  <2>5. ASSUME NEW i \in c + 1..a PROVE Passed(q, c) + i - c <= Len(q) /\ q[Passed(q, c) + i - c] = i
    BY <2>1, <2>2, <2>4, RowInQueue
  <2> QED
    BY <2>1, <2>3, <2>5 DEF QueueReadable, q, c, a
<1> QED
  BY <1>1, StreamInvariant, PTL

\* No segment is gone before it has arrived: what the sender has dropped
\* (tcp_ack) the receiver has not discarded (tcp_data), and the two queues of
\* the sender hold the rest once and in order, however the window moves.
THEOREM NothingIsForgotten == Spec => []NothingForgotten
<1>1. IInv => NothingForgotten
  <2> SUFFICES ASSUME IInv PROVE NothingForgotten
    OBVIOUS
  <2> DEFINE kept == snd.send_head \o snd.wfront
             w == snd.write_seq
  <2>1. \A i \in 1..rcv.acked_seq : i <= rcv.copied \/ i \in ToSet(rcv.rqueue)
    BY DEF IInv, ReceiverOK, NoneLost
  <2>2. w \in Nat /\ rcv.acked_seq \in Nat
    BY SndFields DEF IInv, SenderOK, ReceiverOK, RcvType
  <2>3. PICK lo \in Nat, mid \in Nat : Rows(snd, lo, mid) /\ lo <= rcv.acked_seq
    BY DEF IInv, SenderOK, InARow
  <2>4. lo <= w /\ Run(kept, lo, w)
    BY <2>2, <2>3, RunConcat DEF Rows
  <2> HIDE DEF kept, w
  <2>5. /\ kept \in Seq(Nat) /\ Len(kept) = w - lo /\ DOMAIN kept = 1..w - lo
        /\ \A n \in 1..w - lo : kept[n] = lo + n
    BY <2>2, <2>4 DEF Run
  <2>6. ASSUME NEW i \in rcv.acked_seq + 1..w PROVE i \in ToSet(kept)
    <3>1. i - lo \in 1..w - lo
      BY <2>2, <2>3
    <3>2. kept[i - lo] = i
      BY <2>5, <3>1
    <3> QED
      BY <2>5, <3>1, <3>2 DEF ToSet
  <2>7. ASSUME NEW n \in 1..Len(kept) - 1 PROVE kept[n] < kept[n + 1]
    <3>1. n \in 1..w - lo /\ n + 1 \in 1..w - lo
      BY <2>2, <2>4, <2>5
    <3> QED
      BY <2>5, <3>1
  <2> QED
    BY <2>1, <2>6, <2>7 DEF NothingForgotten, kept, w
<1> QED
  BY <1>1, StreamInvariant, PTL

\* A socket with something left to send, or to be acknowledged, never waits
\* without a timer, and waits for a retransmission if anything is out: no
\* handler that sets the one timer of the socket takes it away from another.
THEOREM TimerStaysSet == Spec => []TimerSet
<1>1. IInv => TimerSet
  BY DEF IInv, SenderOK, TimerOf, TimerSet
<1> QED
  BY <1>1, StreamInvariant, PTL

\* The right edge of the offered window (tcp_select_window) never moves back.
THEOREM WindowIsKept == Spec => WindowKept
<1>1. IInv /\ [Next]_vars =>
        [rcv'.acked_seq + rcv'.window >= rcv.acked_seq + rcv.window]_vars
  <2> SUFFICES ASSUME IInv, [Next]_vars
               PROVE  rcv'.acked_seq + rcv'.window >= rcv.acked_seq + rcv.window
    OBVIOUS
  <2>1. /\ rcv.acked_seq \in Nat /\ rcv.window \in Int
        /\ rcv'.acked_seq \in Nat /\ rcv'.window \in Int
    BY NextOK DEF IInv, ReceiverOK, RcvType
  <2> QED
    BY <2>1, NextOK
<1> QED
  BY <1>1, StreamInvariant, PTL DEF Spec, WindowKept

=============================================================================
