-------------------------- MODULE SchedulerProofs --------------------------
(***************************************************************************)
(* Proofs about Scheduler: type correctness and the timing of interval     *)
(* timers, for every number of tasks and every value of the bounds.        *)
(* At the end, proofs about TimerList, the kernel timers of the same       *)
(* source file: it implements Alarms for every set of timers.              *)
(***************************************************************************)
EXTENDS Scheduler, TimerList, SequenceTheorems, WellFoundedInduction, TLAPS

\* How many ticks schedule() can have missed: while a task runs that need not
\* give up the processor, each tick that is missed is paid by its slice.
SliceBound ==
  /\ pc = "run" =>
       /\ itimer_ticks <= MaxDelay + MaxCounter
       /\ current = Idle /\ ~need_resched => itimer_ticks <= MaxDelay
       /\ current # Idle /\ ~need_resched => itimer_ticks + counter[current] <= MaxDelay + MaxCounter
  /\ pc # "run" => itimer_ticks <= MaxDelay
  /\ ticks <= MaxDelay + MaxCounter

\* The inductive invariant.
IInv == TypeOK /\ AlarmExact /\ SliceBound

USE SchedulerAssumption DEF Tasks, Idle

\* The largest counter that a refill in schedule() can produce.
LEMMA MaxCounterType == MaxCounter \in Nat /\ MaxCounter >= 2 /\ MaxPriority \in 0..MaxCounter
  BY DEF MaxCounter

\* No timeout is not a number of ticks.
LEMMA NoneType == None \in Int /\ None < 0
  BY DEF None

-----------------------------------------------------------------------------
(* The minima and maxima that schedule() computes.                         *)

\* Every nonempty set of naturals has a least element: schedule() takes such minima.
LEMMA LeastNat ==
  ASSUME NEW T, T \subseteq Nat, T # {}
  PROVE  \E x \in T : \A y \in T : x <= y
<1>1. IsWellFoundedOn(OpToRel(<, Nat), Nat)
  BY NatLessThanWellFounded
<1>2. PICK x \in T : \A y \in T : ~(<<y, x>> \in OpToRel(<, Nat))
  BY <1>1, WFMin
<1>3. ASSUME NEW y \in T PROVE x <= y
  <2>1. y \in Nat /\ x \in Nat
    OBVIOUS
  <2>2. y < x => <<y, x>> \in OpToRel(<, Nat)
    BY <2>1 DEF OpToRel
  <2>3. ~(y < x)
    BY <1>2, <2>2, Zenon
  <2> QED
    BY <2>1, <2>3
<1> QED
  BY <1>3

\* The do-while loop ends, and ends beyond ticks.
LEMMA ReloadsBound ==
  ASSUME NEW v \in Nat, NEW i \in Nat \ {0}, NEW n \in Nat
  PROVE  \E k \in 1..(n + 1) : /\ v + k * i > n
                               /\ \A j \in 1..(k - 1) : v + j * i <= n
<1> DEFINE T == {k \in 1..(n + 1) : v + k * i > n}
<1>1. (n + 1) * i >= n + 1
  OBVIOUS
<1>2. n + 1 \in T
  BY <1>1
<1>3. T \subseteq 1..(n + 1)
  BY Zenon
<1>4. T \subseteq Nat /\ T # {}
  <2> HIDE DEF T
  <2> QED
    BY <1>2, <1>3
<1>5. PICK k \in T : \A y \in T : k <= y
  BY <1>4, LeastNat
<1>6. ASSUME NEW j \in 1..(k - 1) PROVE v + j * i <= n
  <2>1. j \in 1..(n + 1) /\ ~(k <= j)
    BY <1>3
  <2>2. j \notin T
    BY <1>5, <2>1, Zenon
  <2>3. ~(v + j * i > n)
    BY <2>1, <2>2, Zenon
  <2>4. j * i \in Nat
    BY <2>1
  <2> QED
    BY <2>3, <2>4
<1>7. k \in 1..(n + 1) /\ v + k * i > n
  BY Zenon
<1> QED
  BY <1>6, <1>7, Zenon

\* Reloading a periodic timer in the walk puts it beyond the ticks that have passed.
LEMMA ReloadType ==
  ASSUME TypeOK, NEW t \in Tasks
  PROVE  /\ Reload(t) \in Nat
         /\ Alarm(t) /\ it_real_incr[t] > 0 => it_real_value[t] + Reload(t) > ticks
<1>1. it_real_value[t] \in Nat /\ it_real_incr[t] \in Nat /\ ticks \in Nat
  BY DEF TypeOK
<1>2. CASE Alarm(t) /\ it_real_incr[t] > 0
  <2>1. \E k \in 1..(ticks + 1) :
          /\ it_real_value[t] + k * it_real_incr[t] > ticks
          /\ \A j \in 1..(k - 1) : it_real_value[t] + j * it_real_incr[t] <= ticks
    <3>1. it_real_incr[t] \in Nat \ {0}
      BY <1>1, <1>2
    <3> QED
      BY <1>1, <3>1, ReloadsBound, Zenon
  <2>2. /\ Reloads(t) \in 1..(ticks + 1)
        /\ it_real_value[t] + Reloads(t) * it_real_incr[t] > ticks
    BY <2>1 DEF Reloads
  <2>3. Reloads(t) * it_real_incr[t] \in Nat
    BY <1>1, <2>2
  <2> QED
    BY <1>2, <2>2, <2>3 DEF Reload
<1>3. CASE ~(Alarm(t) /\ it_real_incr[t] > 0)
  BY <1>3 DEF Reload
<1> QED
  BY <1>2, <1>3

\* The walk leaves no timer negative.
LEMMA WalkedType ==
  ASSUME TypeOK, NEW t \in Tasks
  PROVE  Walked(t) \in Nat
<1>1. it_real_value[t] \in Nat /\ it_real_incr[t] \in Nat /\ ticks \in Nat
  BY DEF TypeOK
<1>2. /\ Reload(t) \in Nat
      /\ Alarm(t) /\ it_real_incr[t] > 0 => it_real_value[t] + Reload(t) > ticks
  BY ReloadType
<1> QED
  BY <1>1, <1>2 DEF Walked, Alarm

\* The first task with the largest counter exists.
LEMMA BestType ==
  ASSUME TypeOK, Runnable # {}
  PROVE  Best \in Runnable
<1>1. \A u \in Runnable : counter[u] \in 0..MaxCounter /\ u \in Nat
  BY DEF Runnable, TypeOK
<1> DEFINE T == {MaxCounter - counter[u] : u \in Runnable}
<1>2. MaxCounter \in Nat
  BY DEF MaxCounter
<1>3. T \subseteq Nat /\ T # {}
  BY <1>1, <1>2
<1>4. PICK x \in T : \A y \in T : x <= y
  BY <1>3, LeastNat
<1>5. PICK m \in Runnable : x = MaxCounter - counter[m]
  BY <1>4
<1>6. ASSUME NEW u \in Runnable PROVE counter[u] <= counter[m]
  <2>1. x <= MaxCounter - counter[u]
    BY <1>4
  <2>2. counter[u] \in Nat /\ counter[m] \in Nat
    BY <1>1
  <2> HIDE DEF T
  <2> QED
    BY <1>2, <1>5, <2>1, <2>2
<1> DEFINE S == {u \in Runnable : counter[u] = counter[m]}
<1>7. S \subseteq Nat /\ S # {}
  BY <1>1
<1>8. PICK t \in S : \A y \in S : t <= y
  BY <1>7, LeastNat
<1>9. /\ t \in Runnable
      /\ \A u \in Runnable : counter[u] <= counter[t]
      /\ \A u \in Runnable : counter[u] = counter[t] => t <= u
  BY <1>6, <1>8
<1> QED
  BY <1>9 DEF Best

-----------------------------------------------------------------------------
(* Every step preserves the invariant.                                     *)

\* The state at boot satisfies the invariant.
LEMMA InitInv == Init => IInv
<1> SUFFICES ASSUME Init PROVE IInv
  OBVIOUS
<1>1. TypeOK
  <2>1. MaxPriority \in 0..MaxCounter /\ MaxPriority \in 1..MaxPriority /\ None \in None..MaxTimeout
    BY MaxCounterType, NoneType
  <2>2. /\ priority \in [Tasks -> 1..MaxPriority] /\ counter \in [Tasks -> 0..MaxCounter]
        /\ timeout \in [Tasks -> None..MaxTimeout]
    BY <2>1 DEF Init
  <2>3. /\ state \in [Tasks -> {"running", "interruptible", "uninterruptible"}]
        /\ signal \in [Tasks -> BOOLEAN]
    BY DEF Init
  <2>4. /\ it_real_value \in [Tasks -> Nat] /\ it_real_incr \in [Tasks -> 0..MaxInterval]
        /\ left \in [Tasks -> Int]
    BY DEF Init
  <2>5. /\ current \in Tasks \union {Idle} /\ need_resched \in BOOLEAN /\ itimer_ticks \in Nat
        /\ itimer_next \in Nat /\ pc \in {"run", "clear", "walk", "pick"} /\ ticks \in Nat
    BY DEF Init
  <2> QED
    BY <2>2, <2>3, <2>4, <2>5 DEF TypeOK
<1>2. AlarmExact
  BY DEF Init, AlarmExact
<1>3. SliceBound
  BY DEF Init, SliceBound, MaxCounter
<1> QED
  BY <1>1, <1>2, <1>3 DEF IInv

\* The walk charges the fetched ticks to every timer that is on.
LEMMA WalkInv == IInv /\ Walk => IInv'
<1> SUFFICES ASSUME IInv, Walk PROVE IInv'
  OBVIOUS
<1> USE DEF IInv
<1>1. \A t \in Tasks : Walked(t) \in Nat /\ Reload(t) \in Nat
  BY WalkedType, ReloadType
<1>2. itimer_next' \in Nat
  <2> DEFINE T == {Never} \union {Walked(t) : t \in Armed}
  <2>1. T \subseteq Nat /\ T # {} /\ \A t \in Armed : Walked(t) \in T
    BY <1>1 DEF Armed
  <2>2. PICK n \in T : \A y \in T : n <= y
    BY <2>1, LeastNat
  <2>3. \E m \in T : \A t \in Armed : m <= Walked(t)
    BY <2>1, <2>2
  <2>4. itimer_next' \in T
    BY <2>3 DEF Walk
  <2> QED
    BY <2>1, <2>4
<1>3. TypeOK'
  <2>1. /\ it_real_value' \in [Tasks -> Nat] /\ left' \in [Tasks -> Int]
    <3>1. ASSUME NEW t \in Tasks PROVE left[t] + Reload(t) \in Int
      <4>1. left[t] \in Int
        BY DEF TypeOK
      <4> QED
        BY <1>1, <4>1
    <3> QED
      BY <1>1, <3>1 DEF Walk
  <2>2. signal' \in [Tasks -> BOOLEAN]
    BY DEF TypeOK, Walk, Signalled, Alarm
  <2>3. state' \in [Tasks -> {"running", "interruptible", "uninterruptible"}]
    BY DEF TypeOK, Walk
  <2>4. timeout' \in [Tasks -> None..MaxTimeout]
    <3>1. None \in None..MaxTimeout
      BY NoneType
    <3> QED
      BY <3>1 DEF TypeOK, Walk
  <2>5. /\ pc' = "pick" /\ ticks' = 0
        /\ UNCHANGED <<counter, priority, it_real_incr, current, need_resched, itimer_ticks>>
    BY DEF Walk
  <2> QED
    BY <1>2, <2>1, <2>2, <2>3, <2>4, <2>5 DEF TypeOK
<1>4. AlarmExact'
  <2> SUFFICES ASSUME NEW t \in Tasks, it_real_value'[t] > 0
               PROVE  it_real_value'[t] - itimer_ticks' - Fetched' = left'[t] + 1
    BY DEF AlarmExact
  <2>1. /\ it_real_value'[t] = Walked(t) /\ left'[t] = left[t] + Reload(t)
        /\ itimer_ticks' = itimer_ticks /\ Fetched' = 0 /\ Fetched = ticks
    BY DEF Walk, Fetched
  <2>2. /\ it_real_value[t] \in Nat /\ left[t] \in Int /\ ticks \in Nat
        /\ itimer_ticks \in Nat /\ it_real_incr[t] \in Nat
    BY DEF TypeOK
  <2>3. it_real_value[t] > 0 => it_real_value[t] - itimer_ticks - ticks = left[t] + 1
    BY <2>1 DEF AlarmExact
  <2>4. CASE ticks = 0 \/ it_real_value[t] = 0
    <3>1. Walked(t) = it_real_value[t] /\ Reload(t) = 0
      BY <2>2, <2>4 DEF Walked, Reload, Alarm
    <3> QED
      BY <2>1, <2>2, <2>3, <2>4, <3>1
  <2>5. CASE ticks # 0 /\ it_real_value[t] # 0
    <3>1. Walked(t) = it_real_value[t] + Reload(t) - ticks
      BY <2>1, <2>2, <2>5 DEF Walked
    <3> QED
      BY <1>1, <2>1, <2>2, <2>3, <2>5, <3>1
  <2> QED
    BY <2>4, <2>5
<1>5. SliceBound'
  BY DEF SliceBound, Walk, TypeOK, MaxCounter
<1> QED
  BY <1>3, <1>4, <1>5

\* The choice of the next task starts a slice of at most MaxCounter ticks.
LEMMA PickInv == IInv /\ Pick => IInv'
<1> SUFFICES ASSUME IInv, Pick PROVE IInv'
  OBVIOUS
<1> USE DEF IInv
<1>1. Runnable # {} => Best \in Tasks
  BY BestType DEF Runnable
<1>2. ASSUME NEW t \in Tasks PROVE Refilled(t) \in 0..MaxCounter
  <2>1. counter[t] \in 0..MaxCounter /\ priority[t] \in 1..MaxPriority
    BY DEF TypeOK
  <2> QED
    BY <2>1 DEF Refilled, MaxCounter
<1>3. TypeOK'
  BY <1>1, <1>2 DEF TypeOK, Pick
<1>4. AlarmExact'
  BY DEF TypeOK, AlarmExact, Fetched, Pick
<1>5. SliceBound'
  <2>1. current' # Idle => counter'[current'] \in 0..MaxCounter
    BY <1>3 DEF TypeOK
  <2>2. /\ pc' = "run" /\ itimer_ticks' = itimer_ticks /\ itimer_ticks \in Nat
        /\ ticks' = ticks
    BY DEF Pick, TypeOK
  <2>3. itimer_ticks <= MaxDelay /\ ticks <= MaxDelay + MaxCounter
    BY DEF Pick, SliceBound
  <2> QED
    BY <2>1, <2>2, <2>3, MaxCounterType DEF SliceBound
<1> QED
  BY <1>3, <1>4, <1>5

\* The steps that begin schedule() move the ticks from itimer_ticks to ticks.
LEMMA EnterInv ==
  ASSUME IInv, pc = "run", EnterSchedule,
         UNCHANGED <<it_real_value, left, counter, current, need_resched>>
  PROVE  AlarmExact' /\ SliceBound'
<1>1. AlarmExact'
  BY DEF IInv, TypeOK, AlarmExact, Fetched, EnterSchedule
<1>2. SliceBound'
  BY DEF IInv, TypeOK, SliceBound, EnterSchedule, MaxCounter
<1> QED
  BY <1>1, <1>2

\* A clock tick is noted once for the timers and once for the slice.
LEMMA TimerInv == IInv /\ do_timer => IInv'
<1> SUFFICES ASSUME IInv, do_timer PROVE IInv'
  OBVIOUS
<1> USE DEF IInv
<1>1. ASSUME NEW t \in Tasks PROVE Charged(counter[t]) \in 0..MaxCounter
  <2>1. counter[t] \in 0..MaxCounter
    BY DEF TypeOK
  <2> QED
    BY <2>1, MaxCounterType DEF Charged
<1>2. TypeOK'
  <2>1. timeout' \in [Tasks -> None..MaxTimeout]
    <3>1. ASSUME NEW t \in Tasks
          PROVE  (IF timeout[t] > 0 THEN timeout[t] - 1 ELSE timeout[t]) \in None..MaxTimeout
      <4>1. timeout[t] \in None..MaxTimeout
        BY DEF TypeOK
      <4> QED
        BY <4>1, NoneType
    <3> QED
      BY <3>1 DEF do_timer
  <2>2. need_resched' \in BOOLEAN
    BY DEF TypeOK, do_timer
  <2>3. counter' \in [Tasks -> 0..MaxCounter]
    BY <1>1 DEF TypeOK, do_timer
  <2>4. left' \in [Tasks -> Int] /\ itimer_ticks' \in Nat
    <3>1. ASSUME NEW t \in Tasks PROVE (IF it_real_value[t] > 0 THEN left[t] - 1 ELSE left[t]) \in Int
      <4>1. left[t] \in Int
        BY DEF TypeOK
      <4> QED
        BY <4>1
    <3>2. itimer_ticks \in Nat
      BY DEF TypeOK
    <3> QED
      BY <3>1, <3>2 DEF do_timer
  <2> QED
    BY <2>1, <2>2, <2>3, <2>4 DEF TypeOK, do_timer
<1>3. AlarmExact'
  <2> SUFFICES ASSUME NEW t \in Tasks, it_real_value'[t] > 0
               PROVE  it_real_value'[t] - itimer_ticks' - Fetched' = left'[t] + 1
    BY DEF AlarmExact
  <2>1. /\ it_real_value'[t] = it_real_value[t] /\ itimer_ticks' = itimer_ticks + 1
        /\ Fetched' = Fetched /\ left'[t] = left[t] - 1
    BY DEF do_timer, Fetched
  <2>2. /\ it_real_value[t] \in Nat /\ itimer_ticks \in Nat
        /\ Fetched \in Nat /\ left[t] \in Int
    BY DEF TypeOK, Fetched
  <2>3. it_real_value[t] - itimer_ticks - Fetched = left[t] + 1
    BY <2>1 DEF AlarmExact
  <2> QED
    BY <2>1, <2>2, <2>3
<1>4. SliceBound'
  <2>1. CASE pc # "run"
    BY <2>1, MaxCounterType DEF SliceBound, TypeOK, do_timer
  <2>2. CASE pc = "run" /\ current = Idle
    BY <2>2, MaxCounterType DEF SliceBound, TypeOK, do_timer, MustReschedule
  <2>3. CASE pc = "run" /\ current # Idle
    <3>1. current \in Tasks /\ counter[current] \in 0..MaxCounter /\ MaxCounter \in Nat
      BY <2>3, MaxCounterType DEF TypeOK
    <3>2. /\ pc' = "run" /\ current' = current /\ ticks' = ticks
          /\ itimer_ticks' = itimer_ticks + 1 /\ itimer_ticks \in Nat
          /\ counter'[current] = Charged(counter[current])
          /\ need_resched \/ counter[current] = 0 => itimer_ticks < MaxDelay
          /\ ~need_resched' => ~need_resched /\ Charged(counter[current]) # 0
      BY <2>3, <3>1 DEF TypeOK, do_timer, MustReschedule, CurrentCounter
    <3>3. /\ itimer_ticks <= MaxDelay + MaxCounter
          /\ ~need_resched => itimer_ticks + counter[current] <= MaxDelay + MaxCounter
          /\ ticks <= MaxDelay + MaxCounter
      BY <2>3 DEF SliceBound
    <3>4. itimer_ticks' <= MaxDelay + MaxCounter
      BY <3>1, <3>2, <3>3
    <3>5. ~need_resched' => itimer_ticks' + counter'[current'] <= MaxDelay + MaxCounter
      BY <3>1, <3>2, <3>3 DEF Charged
    <3> QED
      BY <2>3, <3>2, <3>3, <3>4, <3>5 DEF SliceBound
  <2> QED
    BY <2>1, <2>2, <2>3
<1> QED
  BY <1>2, <1>3, <1>4

\* Every step of the scheduler preserves the invariant.
LEMMA NextInv == IInv /\ [Next]_vars => IInv'
<1> SUFFICES ASSUME IInv, [Next]_vars PROVE IInv'
  OBVIOUS
<1> USE DEF IInv
<1>1. CASE ClearResched
  BY <1>1 DEF TypeOK, AlarmExact, SliceBound, Fetched, ClearResched
<1>2. CASE Walk
  BY <1>2, WalkInv
<1>3. CASE Pick
  BY <1>3, PickInv
<1>4. ASSUME NEW how \in {"interruptible", "uninterruptible"}, NEW n \in None..MaxTimeout,
             Sleep(how, n)
      PROVE  IInv'
  <2>1. TypeOK'
    BY <1>4 DEF TypeOK, Sleep, EnterSchedule
  <2>2. AlarmExact' /\ SliceBound'
    BY <1>4, EnterInv DEF Sleep
  <2> QED
    BY <2>1, <2>2
<1>5. CASE ret_from_sys_call
  <2>1. TypeOK'
    BY <1>5 DEF TypeOK, ret_from_sys_call, EnterSchedule
  <2>2. AlarmExact' /\ SliceBound'
    BY <1>5, EnterInv DEF ret_from_sys_call
  <2> QED
    BY <2>1, <2>2
<1>6. CASE do_signal
  BY <1>6 DEF TypeOK, AlarmExact, SliceBound, Fetched, do_signal
<1>7. CASE sys_idle
  BY <1>7 DEF TypeOK, AlarmExact, SliceBound, Fetched, sys_idle
<1>8. ASSUME NEW j \in 0..MaxInterval, NEW i \in 0..MaxInterval, setitimer(j, i)
      PROVE  IInv'
  <2>1. ItimerValue(j) \in Nat /\ (j = 0 => ItimerValue(j) = 0)
        /\ (j > 0 => ItimerValue(j) = j + 1 + itimer_ticks)
    BY DEF TypeOK, ItimerValue
  <2>2. TypeOK'
    <3>1. it_real_value' \in [Tasks -> Nat]
      BY <1>8, <2>1 DEF TypeOK, setitimer
    <3>2. it_real_incr' \in [Tasks -> 0..MaxInterval] /\ left' \in [Tasks -> Int]
      <4>1. it_real_incr \in [Tasks -> 0..MaxInterval] /\ left \in [Tasks -> Int]
        BY DEF TypeOK
      <4> HIDE DEF IInv
      <4>2. j \in Int
        OBVIOUS
      <4>3. /\ it_real_incr' = [it_real_incr EXCEPT ![current] = i]
            /\ left' = [left EXCEPT ![current] = j]
        BY <1>8 DEF setitimer
      <4>4. it_real_incr' \in [Tasks -> 0..MaxInterval]
        BY <4>1, <4>3
      <4>5. left' \in [Tasks -> Int]
        BY <4>1, <4>2, <4>3
      <4> QED
        BY <4>4, <4>5
    <3>3. itimer_next' \in Nat
      BY <1>8, <2>1 DEF TypeOK, setitimer
    <3>4. UNCHANGED <<state, counter, priority, timeout, signal, current, need_resched,
                      itimer_ticks, pc, ticks>>
      BY <1>8 DEF setitimer
    <3> QED
      BY <3>1, <3>2, <3>3, <3>4 DEF TypeOK
  <2>3. AlarmExact'
    <3> SUFFICES ASSUME NEW t \in Tasks, it_real_value'[t] > 0
                 PROVE  it_real_value'[t] - itimer_ticks' - Fetched' = left'[t] + 1
      BY DEF AlarmExact
    <3>1. Fetched' = Fetched /\ Fetched = 0 /\ itimer_ticks' = itimer_ticks
      BY <1>8 DEF setitimer, Fetched
    <3>2. it_real_value \in [Tasks -> Nat] /\ left \in [Tasks -> Int] /\ itimer_ticks \in Nat
      BY DEF TypeOK
    <3>3. CASE t = current
      <4>1. it_real_value'[t] = ItimerValue(j) /\ left'[t] = j
        BY <1>8, <3>2, <3>3 DEF setitimer
      <4> QED
        BY <2>1, <3>1, <3>2, <4>1
    <3>4. CASE t # current
      <4>1. it_real_value'[t] = it_real_value[t] /\ left'[t] = left[t]
        BY <1>8, <3>2, <3>4 DEF setitimer
      <4>2. it_real_value[t] - itimer_ticks - Fetched = left[t] + 1
        BY <4>1 DEF AlarmExact
      <4> QED
        BY <3>1, <4>1, <4>2
    <3> QED
      BY <3>3, <3>4
  <2>4. SliceBound'
    BY <1>8 DEF SliceBound, setitimer
  <2> QED
    BY <2>2, <2>3, <2>4
<1>9. ASSUME NEW p \in 1..MaxPriority, sys_nice(p)
      PROVE  IInv'
  BY <1>9 DEF TypeOK, AlarmExact, SliceBound, Fetched, sys_nice
<1>10. ASSUME NEW t \in Tasks, wake_up(t)
       PROVE  IInv'
  <2>1. TypeOK'
    BY <1>10 DEF TypeOK, wake_up
  <2>2. AlarmExact' /\ SliceBound'
    BY <1>10 DEF TypeOK, AlarmExact, SliceBound, Fetched, wake_up
  <2> QED
    BY <2>1, <2>2
<1>11. ASSUME NEW t \in Tasks, send_sig(t)
       PROVE  IInv'
  BY <1>11 DEF TypeOK, AlarmExact, SliceBound, Fetched, send_sig
<1>12. CASE do_timer
  BY <1>12, TimerInv
<1>13. CASE UNCHANGED vars
  BY <1>13 DEF TypeOK, AlarmExact, SliceBound, Fetched, vars
<1>14. ASSUME NEW n \in None..MaxTimeout, Sleep("interruptible", n) PROVE IInv'
  BY <1>4, <1>14
<1>15. CASE Sleep("uninterruptible", None)
  <2>1. None \in None..MaxTimeout
    BY NoneType
  <2> QED
    BY <1>4, <1>15, <2>1
<1> HIDE DEF IInv
<1> QED
  BY <1>1, <1>2, <1>3, <1>5, <1>6, <1>7, <1>8, <1>9, <1>10, <1>11, <1>12, <1>13, <1>14, <1>15
     DEF Next, schedule

\* IInv holds in every state of every behaviour of the scheduler.
THEOREM Invariance == Spec => []IInv
  BY InitInv, NextInv, PTL DEF Spec

-----------------------------------------------------------------------------
(* The results.                                                            *)

\* Every variable of schedule(), do_timer and setitimer keeps its type: no
\* counter passes twice the priority, no interval timer becomes negative.
THEOREM TypeCorrect == Spec => []TypeOK
<1>1. IInv => TypeOK
  BY DEF IInv
<1> QED
  BY <1>1, Invariance, PTL

\* The ticks are accounted for exactly between do_timer, setitimer and schedule().
THEOREM AlarmsExact == Spec => []AlarmExact
<1>1. IInv => AlarmExact
  BY DEF IInv
<1> QED
  BY <1>1, Invariance, PTL

\* schedule() never sends SIGALRM before the time given to setitimer is over.
THEOREM AlarmsNotEarly == Spec => []AlarmNotEarly
<1>1. IInv => AlarmNotEarly
  <2> SUFFICES ASSUME IInv, pc = "walk", NEW t \in Tasks, Alarm(t) PROVE left[t] < 0
    BY DEF AlarmNotEarly
  <2>1. it_real_value[t] - itimer_ticks - ticks = left[t] + 1
    BY DEF IInv, AlarmExact, Alarm, Fetched
  <2>2. /\ it_real_value[t] <= ticks /\ it_real_value[t] \in Nat /\ ticks \in Nat
        /\ itimer_ticks \in Nat /\ left[t] \in Int
    BY DEF IInv, TypeOK, Alarm
  <2> QED
    BY <2>1, <2>2
<1> QED
  BY <1>1, Invariance, PTL

\* An alarm is late by no more than the slice of the running task and the
\* delay of schedule() itself, whatever happens to itimer_next.
THEOREM AlarmsPrompt == Spec => []AlarmPrompt
<1>1. IInv => AlarmPrompt
  <2> SUFFICES ASSUME IInv, NEW t \in Tasks, it_real_value[t] > 0
               PROVE  left[t] >= -(MaxCounter + 2 * MaxDelay)
    BY DEF AlarmPrompt
  <2>1. it_real_value[t] - itimer_ticks - Fetched = left[t] + 1
    BY DEF IInv, AlarmExact
  <2>2. itimer_ticks + Fetched <= MaxCounter + 2 * MaxDelay
    <3>1. itimer_ticks \in Nat /\ ticks \in Nat
      BY DEF IInv, TypeOK
    <3> QED
      BY <3>1, MaxCounterType DEF IInv, SliceBound, Fetched
  <2>3. it_real_value[t] \in Nat /\ left[t] \in Int /\ itimer_ticks \in Nat /\ Fetched \in Nat
    BY DEF IInv, TypeOK, Fetched
  <2> QED
    BY <2>1, <2>2, <2>3, MaxCounterType
<1> QED
  BY <1>1, Invariance, PTL

\* The walk of schedule() is the only step from its place to the next.
LEMMA WalkOnly ==
  ASSUME [Next]_vars, pc = "walk", pc' = "pick"
  PROVE  Walk
BY DEF Next, schedule, ClearResched, Pick, Sleep, EnterSchedule, ret_from_sys_call, do_signal,
       sys_idle, setitimer, sys_nice, wake_up, send_sig, do_timer, vars

\* No expiry is dropped: when schedule() switches a timer off or moves it on by
\* its interval, its task has SIGALRM (kernel/sched.c:242-255).
THEOREM AlarmsNotLost == Spec => AlarmNotLost
<1> DEFINE Moves(t) == it_real_value[t] > 0 /\ (it_real_value'[t] = 0 \/ left'[t] # left[t])
<1>1. IInv /\ [Next]_vars =>
        [pc = "walk" /\ pc' = "pick" => \A t \in Tasks : Moves(t) => signal'[t]]_vars
  <2> SUFFICES ASSUME IInv, [Next]_vars, pc = "walk", pc' = "pick", NEW t \in Tasks, Moves(t)
               PROVE  signal'[t]
    OBVIOUS
  <2>1. Walk
    BY WalkOnly
  <2>2. /\ it_real_value'[t] = Walked(t) /\ left'[t] = left[t] + Reload(t)
        /\ signal'[t] = Signalled(t)
    BY <2>1 DEF Walk
  <2>3. /\ it_real_value[t] \in Nat /\ it_real_incr[t] \in Nat /\ ticks \in Nat
        /\ left[t] \in Int
    BY DEF IInv, TypeOK
  <2>4. Alarm(t)
    <3> SUFFICES ASSUME ~Alarm(t) PROVE FALSE
      OBVIOUS
    <3>1. Reload(t) = 0
      BY DEF Reload
    <3>2. it_real_value'[t] # 0
      <4>1. ticks = 0 \/ it_real_value[t] > ticks
        BY <2>3 DEF Alarm
      <4>2. Walked(t) = it_real_value[t] \/ Walked(t) = it_real_value[t] + 0 - ticks
        BY <3>1 DEF Walked
      <4> QED
        BY <2>2, <2>3, <4>1, <4>2
    <3> QED
      BY <2>2, <2>3, <3>1, <3>2
  <2> QED
    BY <2>2, <2>4 DEF Signalled
<1> QED
  BY <1>1, Invariance, PTL DEF Spec, AlarmNotLost

-----------------------------------------------------------------------------
(* TimerList implements Alarms: the kernel timers of the same file.  First  *)
(* induction over the entries of a list, and the operations on sequences.  *)

HIDE SchedulerAssumption DEF Tasks, Idle

\* Induction over the places of a list.

LEMMA CountInduction ==
  ASSUME NEW Q, 0 \in Q, \A n \in Nat : n \in Q => n + 1 \in Q
  PROVE  Nat \subseteq Q
<1> SUFFICES ASSUME Nat \ Q # {} PROVE FALSE
  OBVIOUS
<1>1. PICK m \in Nat \ Q : \A y \in Nat \ Q : m <= y
  BY LeastNat
<1>2. m # 0 /\ m - 1 \in Nat /\ ~(m <= m - 1)
  BY <1>1
<1>3. m - 1 \in Q
  BY <1>1, <1>2
<1>4. (m - 1) + 1 \in Q
  BY <1>2, <1>3
<1> QED
  BY <1>1, <1>4

\* Sequence m is l with t in place i.
Spliced(m, l, i, t) ==
  /\ m \in Seq(Timers) /\ Len(m) = Len(l) + 1 /\ m[i] = t
  /\ \A j \in 1..(i - 1) : m[j] = l[j]
  /\ \A j \in (i + 1)..(Len(l) + 1) : m[j] = l[j - 1]

\* Sequence m is l without place k.
Dropped(m, l, k) ==
  /\ m \in Seq(Timers) /\ Len(m) = Len(l) - 1
  /\ \A j \in 1..(k - 1) : m[j] = l[j]
  /\ \A j \in k..(Len(l) - 1) : m[j] = l[j + 1]

\* Where the entries of two sequences are in one.
LEMMA TwoParts ==
  ASSUME NEW s \in Seq(Timers), NEW t \in Seq(Timers)
  PROVE  /\ s \o t \in Seq(Timers) /\ Len(s \o t) = Len(s) + Len(t)
         /\ Len(s) \in Nat /\ Len(t) \in Nat
         /\ \A i \in 1..Len(s) : (s \o t)[i] = s[i]
         /\ \A i \in (Len(s) + 1)..(Len(s) + Len(t)) : (s \o t)[i] = t[i - Len(s)]
  OBVIOUS

\* The two parts of a sequence, before and from place k.
LEMMA PartsOfSeq ==
  ASSUME NEW l \in Seq(Timers), NEW k \in 1..(Len(l) + 1)
  PROVE  /\ SubSeq(l, 1, k - 1) \in Seq(Timers) /\ Len(SubSeq(l, 1, k - 1)) = k - 1
         /\ \A i \in 1..(k - 1) : SubSeq(l, 1, k - 1)[i] = l[i]
         /\ SubSeq(l, k, Len(l)) \in Seq(Timers) /\ Len(SubSeq(l, k, Len(l))) = Len(l) - k + 1
         /\ \A i \in 1..(Len(l) - k + 1) : SubSeq(l, k, Len(l))[i] = l[k + i - 1]
<1>0. Len(l) \in Nat /\ k \in Int
  OBVIOUS
<1> QED
  BY <1>0, SMTT(20)

\* What add_timer does to the list.
LEMMA InsertSplices ==
  ASSUME NEW l \in Seq(Timers), NEW i \in 1..(Len(l) + 1), NEW t \in Timers
  PROVE  Spliced(InsertAt(l, i, t), l, i, t)
<1>0. Len(l) \in Nat /\ i \in Int /\ 1 <= i /\ i <= Len(l) + 1
  OBVIOUS
<1>1. PICK s, u, v : s = SubSeq(l, 1, i - 1) /\ u = SubSeq(l, i, Len(l)) /\ v = <<t>>
  OBVIOUS
<1>2. /\ s \in Seq(Timers) /\ Len(s) = i - 1 /\ \A j \in 1..(i - 1) : s[j] = l[j]
      /\ u \in Seq(Timers) /\ Len(u) = Len(l) - i + 1 /\ \A j \in 1..(Len(l) - i + 1) : u[j] = l[i + j - 1]
  BY <1>1, PartsOfSeq
<1>3. v \in Seq(Timers) /\ Len(v) = 1 /\ v[1] = t
  BY <1>1
<1>4. PICK w \in Seq(Timers) :
          /\ w = s \o v /\ Len(w) = i
          /\ (\A j \in 1..(i - 1) : w[j] = l[j]) /\ w[i] = t
  <2>1. /\ s \o v \in Seq(Timers) /\ Len(s \o v) = Len(s) + Len(v)
        /\ \A j \in 1..Len(s) : (s \o v)[j] = s[j]
        /\ \A j \in (Len(s) + 1)..(Len(s) + Len(v)) : (s \o v)[j] = v[j - Len(s)]
    BY <1>2, <1>3, TwoParts, Zenon
  <2>2. PICK w \in Seq(Timers) :
            /\ w = s \o v /\ Len(w) = Len(s) + Len(v)
            /\ \A j \in 1..Len(s) : w[j] = s[j]
            /\ \A j \in (Len(s) + 1)..(Len(s) + Len(v)) : w[j] = v[j - Len(s)]
    BY <2>1, Zenon
  <2>3. Len(w) = i /\ \A j \in 1..(i - 1) : w[j] = l[j]
    BY <1>0, <1>2, <1>3, <2>2
  <2>4. i \in (Len(s) + 1)..(Len(s) + Len(v)) /\ i - Len(s) = 1
    BY <1>0, <1>2, <1>3
  <2>5. w[i] = t
    BY <1>3, <2>2, <2>4
  <2> QED
    BY <2>2, <2>3, <2>5
<1>5. PICK m : m = w \o u
  OBVIOUS
<1>6. /\ m \in Seq(Timers) /\ Len(m) = i + (Len(l) - i + 1)
      /\ \A j \in 1..i : m[j] = w[j]
      /\ \A j \in (i + 1)..(i + (Len(l) - i + 1)) : m[j] = u[j - i]
  <2>1. /\ w \o u \in Seq(Timers) /\ Len(w \o u) = Len(w) + Len(u)
        /\ \A j \in 1..Len(w) : (w \o u)[j] = w[j]
        /\ \A j \in (Len(w) + 1)..(Len(w) + Len(u)) : (w \o u)[j] = u[j - Len(w)]
    BY <1>2, <1>4, TwoParts, Zenon
  <2>2. /\ m \in Seq(Timers) /\ Len(m) = Len(w) + Len(u)
        /\ \A j \in 1..Len(w) : m[j] = w[j]
        /\ \A j \in (Len(w) + 1)..(Len(w) + Len(u)) : m[j] = u[j - Len(w)]
    BY <1>5, <2>1, Zenon
  <2> QED
    BY <1>2, <1>4, <2>2
<1>7. Len(m) = Len(l) + 1 /\ m[i] = t /\ \A j \in 1..(i - 1) : m[j] = l[j]
  <2>1. Len(m) = Len(l) + 1
    BY <1>0, <1>6
  <2>2. i \in 1..i /\ \A j \in 1..(i - 1) : j \in 1..i
    BY <1>0
  <2> QED
    BY <1>4, <1>6, <2>1, <2>2, Zenon
<1>8. ASSUME NEW j \in (i + 1)..(Len(l) + 1) PROVE m[j] = l[j - 1]
  <2>1. j \in (i + 1)..(i + (Len(l) - i + 1)) /\ j - i \in 1..(Len(l) - i + 1) /\ i + (j - i) - 1 = j - 1
    BY <1>0
  <2>2. m[j] = u[j - i]
    BY <1>6, <2>1
  <2>3. u[j - i] = l[i + (j - i) - 1]
    BY <1>2, <2>1, Zenon
  <2> QED
    BY <2>1, <2>2, <2>3
<1>9. InsertAt(l, i, t) = m
  BY <1>1, <1>4, <1>5 DEF InsertAt
<1>10. Spliced(m, l, i, t)
  BY <1>6, <1>7, <1>8 DEF Spliced
<1> QED
  BY <1>9, <1>10

\* What del_timer does to the list.
LEMMA RemoveDrops ==
  ASSUME NEW l \in Seq(Timers), NEW k \in 1..Len(l)
  PROVE  Dropped(RemoveAt(l, k), l, k)
<1>0. Len(l) \in Nat /\ k \in Int /\ k \in 1..(Len(l) + 1) /\ k + 1 \in 1..(Len(l) + 1) /\ 1 <= k /\ k <= Len(l)
  OBVIOUS
<1>1. PICK s, u : s = SubSeq(l, 1, k - 1) /\ u = SubSeq(l, k + 1, Len(l))
  OBVIOUS
<1>2. s \in Seq(Timers) /\ Len(s) = k - 1 /\ \A j \in 1..(k - 1) : s[j] = l[j]
  BY <1>0, <1>1, PartsOfSeq
<1>3. PICK q \in 1..(Len(l) + 1) : q = k + 1
  BY <1>0
<1>4. u \in Seq(Timers) /\ Len(u) = Len(l) - q + 1 /\ \A j \in 1..(Len(l) - q + 1) : u[j] = l[q + j - 1]
  <2>1. u = SubSeq(l, q, Len(l))
    BY <1>1, <1>3
  <2> QED
    BY <2>1, PartsOfSeq
<1>5. PICK m : m = s \o u
  OBVIOUS
<1>6. /\ m \in Seq(Timers) /\ Len(m) = Len(s) + Len(u)
      /\ \A j \in 1..Len(s) : m[j] = s[j]
      /\ \A j \in (Len(s) + 1)..(Len(s) + Len(u)) : m[j] = u[j - Len(s)]
  BY <1>2, <1>4, <1>5, TwoParts
<1>7. Len(m) = Len(l) - 1 /\ \A j \in 1..(k - 1) : m[j] = l[j]
  BY <1>0, <1>2, <1>3, <1>4, <1>6
<1>8. ASSUME NEW j \in k..(Len(l) - 1) PROVE m[j] = l[j + 1]
  <2>1. /\ j \in (Len(s) + 1)..(Len(s) + Len(u)) /\ j - Len(s) \in 1..(Len(l) - q + 1)
        /\ q + (j - Len(s)) - 1 = j + 1
    BY <1>0, <1>2, <1>3, <1>4
  <2>2. m[j] = u[j - Len(s)]
    BY <1>6, <2>1
  <2>3. u[j - Len(s)] = l[q + (j - Len(s)) - 1]
    BY <1>4, <2>1, Zenon
  <2> QED
    BY <2>1, <2>2, <2>3
<1>9. RemoveAt(l, k) = m
  BY <1>1, <1>5 DEF RemoveAt
<1>10. Dropped(m, l, k)
  BY <1>6, <1>7, <1>8 DEF Dropped
<1> QED
  BY <1>9, <1>10

\* Every timer is in the sequence at most once.
Distinct(l) == \A i, j \in 1..Len(l) : l[i] = l[j] => i = j
Listed(l, t) == \E i \in 1..Len(l) : l[i] = t

\* The least place of a set of places.
LEMMA FirstOfSet ==
  ASSUME NEW S, S \subseteq Nat, S # {}
  PROVE  Min(S) \in S /\ \A y \in S : Min(S) <= y
<1>1. \E m \in S : \A y \in S : m <= y
  BY LeastNat
<1> QED
  BY <1>1 DEF Min

\* A timer that is in the sequence once is taken from its place.
LEMMA RemoveFirstIs ==
  ASSUME NEW l \in Seq(Timers), Distinct(l), NEW k \in 1..Len(l)
  PROVE  RemoveFirst(l, l[k]) = RemoveAt(l, k)
<1> DEFINE I == {i \in 1..Len(l) : l[i] = l[k]}
<1>1. k \in I /\ I \subseteq Nat /\ \A i \in I : i = k
  BY DEF Distinct
<1>2. SelectInSeq(l, LAMBDA v : v = l[k]) = k
  <2>1. SelectInSeq(l, LAMBDA v : v = l[k]) = IF I # {} THEN Min(I) ELSE 0
    BY DEF SelectInSeq
  <2>2. Min(I) \in I
    BY <1>1, FirstOfSet
  <2> QED
    BY <1>1, <2>1, <2>2
<1> QED
  BY <1>2 DEF RemoveFirst

-----------------------------------------------------------------------------
(* The ticks to go of every entry: S[j] is the sum of the first j entries. *)

Counted(S, l, e) ==
  /\ S \in [0..Len(l) -> Nat] /\ S[0] = 0
  /\ \A j \in 1..Len(l) : S[j] = S[j - 1] + e[l[j]]

\* SumTo, Position, Carry, Place and Remaining for any list and any expires.
SumOf(l, e, i) ==
  LET sum[j \in 0..Len(l)] == IF j = 0 THEN 0 ELSE sum[j - 1] + e[l[j]]
  IN sum[i]
PlaceOf(l, t) == CHOOSE i \in 1..Len(l) : l[i] = t
Ticks(l, e) == [t \in Timers |-> IF t \in ToSet(l) THEN SumOf(l, e, PlaceOf(l, t)) ELSE e[t]]

\* Remaining in one state and in the next.
LEMMA RemainingIsTicks == Remaining = Ticks(list, expires) /\ Remaining' = Ticks(list', expires')
  BY DEF Remaining, Ticks, SumTo, SumOf, Position, PlaceOf

\* The recursion of SumTo computes the sums S.
LEMMA SumOfIs ==
  ASSUME NEW l \in Seq(Timers), NEW e \in [Timers -> Nat], NEW S, Counted(S, l, e), NEW i \in 0..Len(l)
  PROVE  SumOf(l, e, i) = S[i]
<1> DEFINE F(s) == [j \in 0..Len(l) |-> IF j = 0 THEN 0 ELSE s[j - 1] + e[l[j]]]
           f == CHOOSE s : s = F(s)
<1>1. S = F(S)
  BY DEF Counted
<1>2. f = F(f)
  BY <1>1, Zenon
<1>3. SumOf(l, e, i) = f[i]
  BY DEF SumOf
<1> HIDE DEF f
<1>4. \A j \in 0..Len(l) : f[j] = IF j = 0 THEN 0 ELSE f[j - 1] + e[l[j]]
  BY <1>2, Zenon
<1> HIDE DEF F
<1>5. Len(l) \in Nat
  OBVIOUS
<1> DEFINE Q == {n \in Nat : n \in 0..Len(l) => f[n] = S[n]}
<1>6. 0 \in Q
  BY <1>4, <1>5 DEF Counted
<1>7. ASSUME NEW n \in Nat, n \in Q PROVE n + 1 \in Q
  <2>1. CASE n + 1 \in 0..Len(l)
    <3>1. n \in 0..Len(l) /\ n + 1 \in 1..Len(l) /\ n + 1 # 0 /\ n + 1 - 1 = n /\ n + 1 \in Nat
      BY <1>5, <2>1
    <3>2. f[n] = S[n]
      BY <1>7, <3>1
    <3>3. PICK k \in 1..Len(l) : k = n + 1 /\ k \in 0..Len(l) /\ k # 0 /\ k - 1 = n
      BY <3>1
    <3>4. f[k] = f[k - 1] + e[l[k]]
      BY <1>4, <3>3
    <3>5. S[k] = S[k - 1] + e[l[k]]
      BY DEF Counted
    <3>6. f[k] = S[k]
      BY <3>2, <3>3, <3>4, <3>5
    <3> QED
      BY <3>1, <3>3, <3>6
  <2>2. CASE n + 1 \notin 0..Len(l)
    BY <2>2
  <2> QED
    BY <2>1, <2>2
<1> HIDE DEF Q
<1>8. Nat \subseteq Q
  BY <1>6, <1>7, CountInduction
<1>9. i \in Nat
  BY <1>5
<1>10. i \in Q
  BY <1>8, <1>9, Zenon
<1> QED
  BY <1>3, <1>10 DEF Q

\* The sums of a list grow.
LEMMA SumsGrow ==
  ASSUME NEW l \in Seq(Timers), NEW e \in [Timers -> Nat], NEW S, Counted(S, l, e),
         NEW i \in 0..Len(l), NEW j \in i..Len(l)
  PROVE  S[i] <= S[j]
<1>1. Len(l) \in Nat /\ i \in Int /\ j \in Int /\ j - i \in Nat
  OBVIOUS
<1> DEFINE Q == {n \in Nat : i + n \in 0..Len(l) => S[i] <= S[i + n]}
<1>2. 0 \in Q
  <2>1. i + 0 = i /\ S[i] \in Nat
    BY <1>1 DEF Counted
  <2> QED
    BY <2>1
<1>3. ASSUME NEW n \in Nat, n \in Q PROVE n + 1 \in Q
  <2>1. CASE i + (n + 1) \in 0..Len(l)
    <3>1. PICK k \in 1..Len(l) : k = i + (n + 1)
      BY <1>1, <2>1
    <3>2. k - 1 = i + n /\ i + n \in 0..Len(l) /\ k \in 0..Len(l) /\ k - 1 \in 0..Len(l)
      BY <1>1, <3>1
    <3>3. S[i] <= S[k - 1]
      <4>1. S[i] <= S[i + n]
        BY <1>3, <3>2, Zenon
      <4> QED
        BY <3>2, <4>1, Zenon
    <3>4. S[k] = S[k - 1] + e[l[k]] /\ S[k] \in Nat /\ S[k - 1] \in Nat /\ S[i] \in Nat /\ e[l[k]] \in Nat
      <4>1. S[k] = S[k - 1] + e[l[k]]
        BY DEF Counted
      <4>2. S[k] \in Nat /\ S[k - 1] \in Nat /\ S[i] \in Nat
        BY <3>2 DEF Counted
      <4>3. e[l[k]] \in Nat
        OBVIOUS
      <4> QED
        BY <4>1, <4>2, <4>3
    <3>5. S[i] <= S[k]
      BY <3>3, <3>4
    <3> QED
      BY <3>1, <3>5
  <2>2. CASE i + (n + 1) \notin 0..Len(l)
    BY <2>2
  <2> QED
    BY <2>1, <2>2
<1> HIDE DEF Q
<1>4. Nat \subseteq Q
  BY <1>2, <1>3, CountInduction
<1>5. j - i \in Q /\ i + (j - i) = j /\ j \in 0..Len(l)
  BY <1>1, <1>4
<1> QED
  BY <1>5 DEF Q

\* What add_timer compares with the entry at i: the ticks less the sum before it.
LEMMA CarryIs ==
  ASSUME list \in Seq(Timers), expires \in [Timers -> Nat], NEW S, Counted(S, list, expires),
         NEW n \in Nat, NEW i \in 1..(Len(list) + 1)
  PROVE  Carry(n)[i] = n - S[i - 1]
<1>0. Len(list) \in Nat
  OBVIOUS
<1> DEFINE F(c) == [k \in 1..(Len(list) + 1) |-> IF k = 1 THEN n ELSE c[k - 1] - expires[list[k - 1]]]
           f == CHOOSE c : c = F(c)
           C == [k \in 1..(Len(list) + 1) |-> n - S[k - 1]]
<1>1. C = F(C)
  <2>1. ASSUME NEW k \in 1..(Len(list) + 1) PROVE C[k] = F(C)[k]
    <3>1. CASE k = 1
      <4>1. S[0] = 0 /\ k - 1 = 0 /\ n - 0 = n
        BY <3>1 DEF Counted
      <4> QED
        BY <3>1, <4>1
    <3>2. CASE k # 1
      <4>1. PICK j \in 1..Len(list) : j = k - 1 /\ j \in 1..(Len(list) + 1) /\ j - 1 \in 0..Len(list) /\ j \in 0..Len(list)
        BY <1>0, <3>2
      <4>2. S[j] = S[j - 1] + expires[list[j]]
        BY DEF Counted
      <4>3. S[j] \in Nat /\ S[j - 1] \in Nat
        BY <4>1 DEF Counted
      <4>4. expires[list[j]] \in Nat
        OBVIOUS
      <4>5. n - S[j] = (n - S[j - 1]) - expires[list[j]]
        <5>1. \A v, w \in Nat : n - (v + w) = (n - v) - w
          OBVIOUS
        <5>2. n - (S[j - 1] + expires[list[j]]) = (n - S[j - 1]) - expires[list[j]]
          BY <4>3, <4>4, <5>1, Zenon
        <5> QED
          BY <4>2, <5>2, Zenon
      <4>6. C[k] = n - S[j] /\ C[j] = n - S[j - 1]
        BY <4>1
      <4>7. F(C)[k] = C[j] - expires[list[j]]
        BY <3>2, <4>1
      <4> QED
        BY <4>5, <4>6, <4>7
    <3> QED
      BY <3>1, <3>2
  <2> HIDE DEF C
  <2>2. F(C) = [k \in 1..(Len(list) + 1) |-> F(C)[k]]
    BY Zenon
  <2>3. C = [k \in 1..(Len(list) + 1) |-> C[k]]
    BY Zenon DEF C
  <2> QED
    BY <2>1, <2>2, <2>3, Zenon
<1> HIDE DEF C
<1>2. f = F(f)
  BY <1>1, Zenon
<1>3. Carry(n)[i] = f[i]
  BY DEF Carry
<1> HIDE DEF f
<1>4. \A k \in 1..(Len(list) + 1) : f[k] = IF k = 1 THEN n ELSE f[k - 1] - expires[list[k - 1]]
  BY <1>2, Zenon
<1>5. \A k \in 1..(Len(list) + 1) : C[k] = IF k = 1 THEN n ELSE C[k - 1] - expires[list[k - 1]]
  BY <1>1, Zenon
<1> HIDE DEF F
<1> DEFINE Q == {k \in Nat : k + 1 \in 1..(Len(list) + 1) => f[k + 1] = C[k + 1]}
<1>6. 0 \in Q
  BY <1>0, <1>4, <1>5
<1>7. ASSUME NEW k \in Nat, k \in Q PROVE k + 1 \in Q
  <2>1. CASE (k + 1) + 1 \in 1..(Len(list) + 1)
    <3>1. PICK j \in 1..(Len(list) + 1) : j = (k + 1) + 1 /\ j # 1 /\ j - 1 = k + 1 /\ j - 1 \in 1..(Len(list) + 1)
      BY <1>0, <2>1
    <3>2. f[k + 1] = C[k + 1]
      BY <1>7, <3>1, Zenon
    <3>3. f[j - 1] = C[j - 1]
      BY <3>1, <3>2, Zenon
    <3>4. f[j] = f[j - 1] - expires[list[j - 1]]
      BY <1>4, <3>1
    <3>5. C[j] = C[j - 1] - expires[list[j - 1]]
      BY <1>5, <3>1
    <3>6. f[j] = C[j]
      BY <3>3, <3>4, <3>5, Zenon
    <3> QED
      BY <3>1, <3>6
  <2>2. CASE (k + 1) + 1 \notin 1..(Len(list) + 1)
    BY <2>2
  <2> QED
    BY <2>1, <2>2
<1> HIDE DEF Q
<1>8. Nat \subseteq Q
  BY <1>6, <1>7, CountInduction
<1>9. i - 1 \in Q /\ (i - 1) + 1 = i
  BY <1>0, <1>8
<1>10. f[i] = C[i]
  BY <1>9 DEF Q
<1>11. C[i] = n - S[i - 1]
  BY DEF C
<1> QED
  BY <1>3, <1>10, <1>11, Zenon

\* The entries before place i have at most n ticks to go, the one there more.
Fits(S, l, n, i) ==
  /\ i \in 1..(Len(l) + 1)
  /\ i <= Len(l) => S[i] > n
  /\ \A j \in 1..(i - 1) : S[j] <= n

\* add_timer finds the place that fits: behind every timer that ends no later.
LEMMA PlaceFits ==
  ASSUME list \in Seq(Timers), expires \in [Timers -> Nat], NEW S, Counted(S, list, expires), NEW n \in Nat
  PROVE  Fits(S, list, n, Place(n))
<1>0. Len(list) \in Nat
  OBVIOUS
<1>1. ASSUME NEW i \in 1..Len(list)
      PROVE  /\ expires[list[i]] > Carry(n)[i] <=> S[i] > n
             /\ expires[list[i]] <= Carry(n)[i] <=> S[i] <= n
  <2>1. i \in 1..(Len(list) + 1) /\ i - 1 \in 0..Len(list) /\ i \in 0..Len(list)
    BY <1>0
  <2>2. Carry(n)[i] = n - S[i - 1]
    BY <2>1, CarryIs, Zenon
  <2>3. S[i] = S[i - 1] + expires[list[i]]
    BY DEF Counted
  <2>4. S[i] \in Nat /\ S[i - 1] \in Nat
    BY <2>1 DEF Counted
  <2>5. expires[list[i]] \in Nat
    OBVIOUS
  <2>6. \A v, w \in Nat : (w > n - v <=> v + w > n) /\ (w <= n - v <=> v + w <= n)
    OBVIOUS
  <2> QED
    BY <2>2, <2>3, <2>4, <2>5, <2>6, Zenon
<1> DEFINE P(i) == /\ i <= Len(list) => expires[list[i]] > Carry(n)[i]
                   /\ \A j \in 1..(i - 1) : expires[list[j]] <= Carry(n)[j]
<1>2. ASSUME NEW i \in 1..(Len(list) + 1) PROVE P(i) <=> Fits(S, list, n, i)
  <2>1. i <= Len(list) => i \in 1..Len(list)
    BY <1>0
  <2>2. \A j \in 1..(i - 1) : j \in 1..Len(list)
    BY <1>0
  <2> QED
    BY <1>1, <2>1, <2>2, Zenon DEF Fits
<1>3. \E i \in 1..(Len(list) + 1) : Fits(S, list, n, i)
  <2> DEFINE T == {i \in 1..(Len(list) + 1) : i <= Len(list) => S[i] > n}
  <2>1. T \subseteq Nat /\ Len(list) + 1 \in T
    BY <1>0
  <2>2. PICK i \in T : \A y \in T : i <= y
    BY <2>1, LeastNat
  <2>3. ASSUME NEW j \in 1..(i - 1) PROVE S[j] <= n
    <3>1. j \in 1..(Len(list) + 1) /\ ~(i <= j) /\ j \in 0..Len(list)
      BY <1>0, <2>2
    <3>2. ~(S[j] > n)
      BY <2>2, <3>1
    <3>3. S[j] \in Nat
      BY <3>1 DEF Counted
    <3> QED
      BY <3>2, <3>3
  <2> QED
    BY <2>2, <2>3 DEF Fits
<1>4. Place(n) = CHOOSE i \in 1..(Len(list) + 1) : P(i)
  BY DEF Place
<1> HIDE DEF P
<1>5. \E i \in 1..(Len(list) + 1) : P(i)
  BY <1>2, <1>3, Zenon
<1>6. Place(n) \in 1..(Len(list) + 1) /\ P(Place(n))
  BY <1>4, <1>5, Zenon
<1> QED
  BY <1>2, <1>6, Zenon

-----------------------------------------------------------------------------
(* The invariant: the list and the order of the calls agree.               *)

\* Timer t was added before u.
Earlier(a, t, u) == \A p, q \in 1..Len(a) : a[p] = t /\ a[q] = u => p < q

\* Timers that end together are in the list in the order in which they were added.
InTurn(l, S, a) == \A i, j \in 1..Len(l) : i < j /\ S[i] = S[j] => Earlier(a, l[i], l[j])

Timing(l, e, a, S) ==
  /\ l \in Seq(Timers) /\ a \in Seq(Timers) /\ e \in [Timers -> Nat]
  /\ Distinct(l) /\ Distinct(a)
  /\ \A t \in Timers : Listed(a, t) <=> Listed(l, t)
  /\ Counted(S, l, e)
  /\ InTurn(l, S, a)

\* Function R tells the ticks that every timer has to go.
Tells(R, l, e, S) ==
  /\ R \in [Timers -> Nat]
  /\ \A j \in 1..Len(l) : R[l[j]] = S[j]
  /\ \A t \in Timers : ~Listed(l, t) => R[t] = e[t]

\* The two ways to say that a timer is in the list.
LEMMA ToSetListed ==
  ASSUME NEW l \in Seq(Timers)
  PROVE  \A t : t \in ToSet(l) <=> Listed(l, t)
<1>1. DOMAIN l = 1..Len(l)
  OBVIOUS
<1> QED
  BY <1>1 DEF ToSet, Listed

\* Remaining is the sum at the place of a timer, and its own expires outside the list.
LEMMA TicksTell ==
  ASSUME NEW l \in Seq(Timers), NEW e \in [Timers -> Nat], NEW S, Counted(S, l, e), Distinct(l)
  PROVE  Tells(Ticks(l, e), l, e, S)
<1>0. Len(l) \in Nat
  OBVIOUS
<1>1. ASSUME NEW j \in 1..Len(l) PROVE Ticks(l, e)[l[j]] = S[j] /\ S[j] \in Nat
  <2>1. Listed(l, l[j]) /\ l[j] \in Timers /\ j \in 0..Len(l)
    BY <1>0 DEF Listed
  <2>2. l[j] \in ToSet(l)
    BY <2>1, ToSetListed, Zenon
  <2>3. PlaceOf(l, l[j]) = j
    BY DEF PlaceOf, Distinct
  <2>4. Ticks(l, e)[l[j]] = SumOf(l, e, j)
    BY <2>1, <2>2, <2>3, Zenon DEF Ticks
  <2>5. SumOf(l, e, j) = S[j]
    BY <2>1, SumOfIs, Zenon
  <2>6. S[j] \in Nat
    BY <2>1 DEF Counted
  <2> QED
    BY <2>4, <2>5, <2>6, Zenon
<1>2. ASSUME NEW t \in Timers, ~Listed(l, t) PROVE Ticks(l, e)[t] = e[t] /\ e[t] \in Nat
  <2>1. t \notin ToSet(l)
    BY <1>2, ToSetListed, Zenon
  <2> QED
    BY <2>1 DEF Ticks
<1>3. ASSUME NEW t \in Timers PROVE Ticks(l, e)[t] \in Nat
  <2>1. CASE Listed(l, t)
    BY <1>1, <2>1, Zenon DEF Listed
  <2>2. CASE ~Listed(l, t)
    BY <1>2, <2>2, Zenon
  <2> QED
    BY <2>1, <2>2
<1>4. Ticks(l, e) \in [Timers -> Nat]
  <2>1. PICK R : R = Ticks(l, e)
    OBVIOUS
  <2>2. R = [t \in Timers |-> R[t]]
    BY <2>1, Zenon DEF Ticks
  <2>3. \A t \in Timers : R[t] \in Nat
    BY <1>3, <2>1, Zenon
  <2>4. R \in [Timers -> Nat]
    BY <2>2, <2>3, Zenon
  <2> QED
    BY <2>1, <2>4
<1> QED
  BY <1>1, <1>2, <1>4, Zenon DEF Tells

\* The ticks to go are determined by the list.
LEMMA TellsOne ==
  ASSUME NEW l, NEW e, NEW S, NEW R, NEW W, Tells(R, l, e, S), Tells(W, l, e, S)
  PROVE  R = W
<1>1. ASSUME NEW t \in Timers PROVE R[t] = W[t]
  <2>1. CASE Listed(l, t)
    <3>1. PICK j \in 1..Len(l) : l[j] = t
      BY <2>1 DEF Listed
    <3>2. R[l[j]] = S[j] /\ W[l[j]] = S[j]
      BY Zenon DEF Tells
    <3> QED
      BY <3>1, <3>2, Zenon
  <2>2. CASE ~Listed(l, t)
    BY <2>2, Zenon DEF Tells
  <2> QED
    BY <2>1, <2>2
<1>2. R \in [Timers -> Nat] /\ W \in [Timers -> Nat]
  BY DEF Tells
<1> QED
  BY <1>1, <1>2

\* Where the entries of a shortened sequence were before.
Shorter(m, l, k) ==
  /\ m \in Seq(Timers) /\ Len(m) = Len(l) - 1 /\ Len(l) \in Nat /\ Len(m) \in Nat
  /\ \A j \in 1..Len(m) : \E i \in 1..Len(l) : i = (IF j < k THEN j ELSE j + 1) /\ m[j] = l[i] /\ i # k
  /\ \A i \in 1..Len(l) : i # k =>
       \E j \in 1..Len(m) : i = (IF j < k THEN j ELSE j + 1) /\ m[j] = l[i]
  /\ Distinct(m)
  /\ \A t : Listed(m, t) <=> Listed(l, t) /\ t # l[k]

\* Taking one entry out keeps the others, in their order.
LEMMA DropParts ==
  ASSUME NEW l \in Seq(Timers), Distinct(l), NEW k \in 1..Len(l), NEW m, Dropped(m, l, k)
  PROVE  Shorter(m, l, k)
<1>1. m \in Seq(Timers) /\ Len(m) = Len(l) - 1 /\ Len(l) \in Nat /\ Len(m) \in Nat
  <2>1. m \in Seq(Timers) /\ Len(m) = Len(l) - 1
    BY DEF Dropped
  <2> QED
    BY <2>1
<1>2. ASSUME NEW j \in 1..Len(m)
      PROVE  \E i \in 1..Len(l) : i = (IF j < k THEN j ELSE j + 1) /\ m[j] = l[i] /\ i # k
  <2>1. CASE j < k
    <3>1. j \in 1..(k - 1) /\ j \in 1..Len(l) /\ j # k
      BY <1>1, <2>1
    <3>2. m[j] = l[j]
      BY <3>1 DEF Dropped
    <3> QED
      BY <2>1, <3>1, <3>2
  <2>2. CASE ~(j < k)
    <3>1. PICK i \in 1..Len(l) : i = j + 1 /\ i # k /\ j \in k..(Len(l) - 1)
      BY <1>1, <2>2
    <3>2. m[j] = l[i]
      BY <3>1 DEF Dropped
    <3> QED
      BY <2>2, <3>1, <3>2
  <2> QED
    BY <2>1, <2>2
<1>3. ASSUME NEW i \in 1..Len(l), i # k
      PROVE  \E j \in 1..Len(m) : i = (IF j < k THEN j ELSE j + 1) /\ m[j] = l[i]
  <2>1. CASE i < k
    <3>1. i \in 1..Len(m)
      BY <1>1, <2>1
    <3>2. PICK x \in 1..Len(l) : x = (IF i < k THEN i ELSE i + 1) /\ m[i] = l[x]
      BY <1>2, <3>1
    <3> QED
      BY <2>1, <3>1, <3>2
  <2>2. CASE ~(i < k)
    <3>1. PICK j \in 1..Len(m) : j = i - 1 /\ ~(j < k) /\ i = j + 1
      BY <1>1, <1>3, <2>2
    <3>2. PICK x \in 1..Len(l) : x = (IF j < k THEN j ELSE j + 1) /\ m[j] = l[x]
      BY <1>2
    <3> QED
      BY <3>1, <3>2
  <2> QED
    BY <2>1, <2>2
<1>4. Distinct(m)
  <2> SUFFICES ASSUME NEW x \in 1..Len(m), NEW y \in 1..Len(m), m[x] = m[y] PROVE x = y
    BY DEF Distinct
  <2>1. PICK i \in 1..Len(l) : i = (IF x < k THEN x ELSE x + 1) /\ m[x] = l[i]
    BY <1>2
  <2>2. PICK j \in 1..Len(l) : j = (IF y < k THEN y ELSE y + 1) /\ m[y] = l[j]
    BY <1>2
  <2>3. i = j
    BY <2>1, <2>2 DEF Distinct
  <2> QED
    BY <1>1, <2>1, <2>2, <2>3
<1>5. ASSUME NEW t PROVE Listed(m, t) <=> Listed(l, t) /\ t # l[k]
  <2>1. ASSUME Listed(m, t) PROVE Listed(l, t) /\ t # l[k]
    <3>1. PICK j \in 1..Len(m) : m[j] = t
      BY <2>1 DEF Listed
    <3>2. PICK i \in 1..Len(l) : m[j] = l[i] /\ i # k
      BY <1>2
    <3> QED
      BY <3>1, <3>2 DEF Listed, Distinct
  <2>2. ASSUME Listed(l, t), t # l[k] PROVE Listed(m, t)
    <3>1. PICK i \in 1..Len(l) : l[i] = t
      BY <2>2 DEF Listed
    <3>2. i # k
      BY <2>2, <3>1
    <3>3. PICK j \in 1..Len(m) : m[j] = l[i]
      BY <1>3, <3>2
    <3> QED
      BY <3>1, <3>3 DEF Listed
  <2> QED
    BY <2>1, <2>2
<1> QED
  BY <1>1, <1>2, <1>3, <1>4, <1>5, Zenon DEF Shorter

\* Entry k is taken out: the one behind it takes over its ticks.
Rejoined(f, l, e, S, k) ==
  /\ f \in [Timers -> Nat] /\ f[l[k]] = S[k]
  /\ k < Len(l) => f[l[k + 1]] = e[l[k + 1]] + e[l[k]]
  /\ \A u \in Timers : u # l[k] /\ ~(k < Len(l) /\ u = l[k + 1]) => f[u] = e[u]

DropSums(S, l, k) == [j \in 0..(Len(l) - 1) |-> IF j < k THEN S[j] ELSE S[j + 1]]

\* Without entry k the sums of the others are what they were.
LEMMA DropCounts ==
  ASSUME NEW l \in Seq(Timers), NEW e \in [Timers -> Nat], NEW S, Counted(S, l, e), Distinct(l),
         NEW k \in 1..Len(l), NEW m, Dropped(m, l, k), NEW f, Rejoined(f, l, e, S, k)
  PROVE  Counted(DropSums(S, l, k), m, f)
<1>1. m \in Seq(Timers) /\ Len(m) = Len(l) - 1 /\ Len(l) \in Nat /\ Len(m) \in Nat
  BY DropParts, Zenon DEF Shorter
<1>2. PICK Z : Z = DropSums(S, l, k)
  OBVIOUS
<1>3. \A j \in 0..Len(l) : S[j] \in Nat
  BY DEF Counted
<1>4. ASSUME NEW j \in 0..Len(m) PROVE /\ j < k => Z[j] = S[j] /\ S[j] \in Nat
                                       /\ ~(j < k) => Z[j] = S[j + 1] /\ S[j + 1] \in Nat
  <2>1. j \in 0..(Len(l) - 1) /\ j \in 0..Len(l) /\ j + 1 \in 0..Len(l)
    BY <1>1
  <2>2. Z[j] = IF j < k THEN S[j] ELSE S[j + 1]
    BY <1>2, <2>1, Zenon DEF DropSums
  <2> QED
    BY <1>3, <2>1, <2>2, Zenon
<1>5. Z \in [0..Len(m) -> Nat]
  <2>1. \A j \in 0..Len(m) : Z[j] \in Nat
    BY <1>4, Zenon
  <2>2. Z = [j \in 0..Len(m) |-> Z[j]]
    BY <1>1, <1>2, Zenon DEF DropSums
  <2> QED
    BY <2>1, <2>2, Zenon
<1>6. Z[0] = 0
  <2>1. 0 \in 0..Len(m) /\ 0 < k
    BY <1>1
  <2>2. S[0] = 0
    BY DEF Counted
  <2> QED
    BY <1>4, <2>1, <2>2, Zenon
<1>7. ASSUME NEW j \in 1..Len(m) PROVE Z[j] = Z[j - 1] + f[m[j]]
  <2>1. j \in 0..Len(m) /\ j - 1 \in 0..Len(m)
    BY <1>1
  <2>2. CASE j < k
    <3>1. j \in 1..(k - 1) /\ j \in 1..Len(l) /\ j # k /\ j # k + 1 /\ j - 1 < k
      BY <1>1, <2>2
    <3>2. m[j] = l[j]
      BY <3>1 DEF Dropped
    <3>3. Z[j] = S[j] /\ Z[j - 1] = S[j - 1]
      BY <1>4, <2>1, <2>2, <3>1, Zenon
    <3>4. l[j] \in Timers /\ l[j] # l[k]
      BY <3>1 DEF Distinct
    <3>5. ~(k < Len(l) /\ l[j] = l[k + 1])
      <4>1. k < Len(l) => k + 1 \in 1..Len(l)
        BY <1>1
      <4> QED
        BY <3>1, <4>1 DEF Distinct
    <3>6. f[l[j]] = e[l[j]]
      BY <3>4, <3>5, Zenon DEF Rejoined
    <3>7. S[j] = S[j - 1] + e[l[j]]
      BY <3>1 DEF Counted
    <3> QED
      BY <3>2, <3>3, <3>6, <3>7, Zenon
  <2>3. CASE j = k
    <3>1. PICK y \in 1..Len(l) : y = k + 1 /\ y - 1 = k /\ k < Len(l) /\ k \in k..(Len(l) - 1) /\ ~(k < k) /\ k - 1 < k
      BY <1>1, <2>3
    <3>2. m[k] = l[y]
      BY <3>1 DEF Dropped
    <3>3. Z[k] = S[y] /\ Z[k - 1] = S[k - 1]
      BY <1>4, <2>1, <2>3, <3>1, Zenon
    <3>4. f[l[y]] = e[l[y]] + e[l[k]]
      BY <3>1, Zenon DEF Rejoined
    <3>5. S[y] = S[y - 1] + e[l[y]] /\ S[k] = S[k - 1] + e[l[k]]
      BY DEF Counted
    <3>6. S[k - 1] \in Nat /\ e[l[k]] \in Nat /\ e[l[y]] \in Nat
      <4>1. k - 1 \in 0..Len(l)
        BY <1>1
      <4> QED
        BY <1>3, <4>1
    <3>7. S[y] = S[k - 1] + f[l[y]]
      BY <3>1, <3>4, <3>5, <3>6
    <3> QED
      BY <2>3, <3>2, <3>3, <3>7, Zenon
  <2>4. CASE j > k
    <3>1. PICK y \in 1..Len(l) : y = j + 1 /\ y # k /\ y # k + 1 /\ j \in k..(Len(l) - 1) /\ y - 1 = j /\ (j - 1) + 1 = j
      BY <1>1, <2>4
    <3>2. m[j] = l[y]
      BY <3>1 DEF Dropped
    <3>3. ~(j < k) /\ ~(j - 1 < k)
      BY <1>1, <2>4
    <3>4. Z[j] = S[y] /\ Z[j - 1] = S[j]
      <4>1. Z[j] = S[j + 1] /\ Z[j - 1] = S[(j - 1) + 1]
        BY <1>4, <2>1, <3>3, Zenon
      <4> QED
        BY <3>1, <4>1, Zenon
    <3>5. l[y] \in Timers /\ l[y] # l[k]
      BY <3>1 DEF Distinct
    <3>6. ~(k < Len(l) /\ l[y] = l[k + 1])
      <4>1. k < Len(l) => k + 1 \in 1..Len(l)
        BY <1>1
      <4> QED
        BY <3>1, <4>1 DEF Distinct
    <3>7. f[l[y]] = e[l[y]]
      BY <3>5, <3>6, Zenon DEF Rejoined
    <3>8. S[y] = S[y - 1] + e[l[y]]
      BY DEF Counted
    <3> QED
      BY <3>1, <3>2, <3>4, <3>7, <3>8, Zenon
  <2> QED
    BY <1>1, <2>2, <2>3, <2>4
<1>8. Counted(Z, m, f)
  BY <1>5, <1>6, <1>7, Zenon DEF Counted
<1> QED
  BY <1>2, <1>8

\* The list, the delays and the order of the calls fit together.
Kept(l, e, a) == \E S : Timing(l, e, a, S)

\* del_timer, and timer_bh when it unlinks the head, change nobody's ticks.
LEMMA DropKeeps ==
  ASSUME NEW l, NEW e, NEW a, NEW S, Timing(l, e, a, S), NEW k \in 1..Len(l), NEW m, Dropped(m, l, k),
         NEW q \in 1..Len(a), a[q] = l[k], NEW b, Dropped(b, a, q), NEW f, Rejoined(f, l, e, S, k)
  PROVE  Kept(m, f, b) /\ Ticks(m, f) = Ticks(l, e)
<1>0. /\ l \in Seq(Timers) /\ a \in Seq(Timers) /\ e \in [Timers -> Nat] /\ Distinct(l) /\ Distinct(a)
      /\ (\A t \in Timers : Listed(a, t) <=> Listed(l, t)) /\ Counted(S, l, e) /\ InTurn(l, S, a)
  BY Zenon DEF Timing
<1>1. /\ m \in Seq(Timers) /\ Len(m) = Len(l) - 1 /\ Len(l) \in Nat /\ Len(m) \in Nat
      /\ \A j \in 1..Len(m) : \E i \in 1..Len(l) : i = (IF j < k THEN j ELSE j + 1) /\ m[j] = l[i] /\ i # k
      /\ Distinct(m)
      /\ \A t : Listed(m, t) <=> Listed(l, t) /\ t # l[k]
  <2>1. Shorter(m, l, k)
    BY <1>0, DropParts, Zenon
  <2> QED
    BY <2>1, Zenon DEF Shorter
<1>2. /\ b \in Seq(Timers) /\ Len(b) \in Nat /\ Len(a) \in Nat
      /\ \A j \in 1..Len(b) : \E i \in 1..Len(a) : i = (IF j < q THEN j ELSE j + 1) /\ b[j] = a[i] /\ i # q
      /\ Distinct(b)
      /\ \A t : Listed(b, t) <=> Listed(a, t) /\ t # a[q]
  <2>1. Shorter(b, a, q)
    BY <1>0, DropParts, Zenon
  <2> QED
    BY <2>1, Zenon DEF Shorter
<1>3. PICK Z : Z = DropSums(S, l, k)
  OBVIOUS
<1>4. Counted(Z, m, f)
  <2>1. Counted(DropSums(S, l, k), m, f)
    BY <1>0, DropCounts, Zenon
  <2> QED
    BY <1>3, <2>1, Zenon
<1>5. \A t \in Timers : Listed(b, t) <=> Listed(m, t)
  BY <1>0, <1>1, <1>2, Zenon
<1>6. ASSUME NEW j \in 1..Len(m), NEW i \in 1..Len(l), i = (IF j < k THEN j ELSE j + 1) PROVE Z[j] = S[i]
  <2>1. j \in 0..(Len(l) - 1)
    BY <1>1
  <2>2. Z[j] = IF j < k THEN S[j] ELSE S[j + 1]
    BY <1>3, <2>1, Zenon DEF DropSums
  <2> QED
    BY <1>6, <2>2
<1>7. InTurn(m, Z, b)
  <2> SUFFICES ASSUME NEW x \in 1..Len(m), NEW y \in 1..Len(m), x < y, Z[x] = Z[y],
                      NEW p \in 1..Len(b), NEW r \in 1..Len(b), b[p] = m[x], b[r] = m[y]
               PROVE  p < r
    BY DEF InTurn, Earlier
  <2>1. PICK i \in 1..Len(l) : i = (IF x < k THEN x ELSE x + 1) /\ m[x] = l[i]
    BY <1>1
  <2>2. PICK j \in 1..Len(l) : j = (IF y < k THEN y ELSE y + 1) /\ m[y] = l[j]
    BY <1>1
  <2>3. i < j
    BY <1>1, <2>1, <2>2, SMTT(30)
  <2>4. Z[x] = S[i] /\ Z[y] = S[j]
    BY <1>6, <2>1, <2>2
  <2>5. Earlier(a, l[i], l[j])
    BY <1>0, <2>3, <2>4 DEF InTurn
  <2>6. PICK v \in 1..Len(a) : v = (IF p < q THEN p ELSE p + 1) /\ b[p] = a[v]
    BY <1>2
  <2>7. PICK w \in 1..Len(a) : w = (IF r < q THEN r ELSE r + 1) /\ b[r] = a[w]
    BY <1>2
  <2>8. v < w
    BY <2>1, <2>2, <2>5, <2>6, <2>7 DEF Earlier
  <2> QED
    BY <1>2, <2>6, <2>7, <2>8
<1>8. f \in [Timers -> Nat]
  BY DEF Rejoined
<1>9. Timing(m, f, b, Z)
  BY <1>1, <1>2, <1>4, <1>5, <1>7, <1>8, Zenon DEF Timing
<1>10. Ticks(m, f) = Ticks(l, e)
  <2>1. PICK R : R = Ticks(l, e)
    OBVIOUS
  <2>2. Tells(Ticks(l, e), l, e, S) /\ Tells(Ticks(m, f), m, f, Z)
    BY <1>0, <1>1, <1>4, <1>8, TicksTell, Zenon
  <2>3. R \in [Timers -> Nat] /\ (\A j \in 1..Len(l) : R[l[j]] = S[j]) /\ \A t \in Timers : ~Listed(l, t) => R[t] = e[t]
    BY <2>1, <2>2, Zenon DEF Tells
  <2>4. ASSUME NEW j \in 1..Len(m) PROVE R[m[j]] = Z[j]
    <3>1. PICK i \in 1..Len(l) : i = (IF j < k THEN j ELSE j + 1) /\ m[j] = l[i]
      BY <1>1
    <3>2. Z[j] = S[i]
      BY <1>6, <3>1
    <3> QED
      BY <2>3, <3>1, <3>2, Zenon
  <2>5. ASSUME NEW t \in Timers, ~Listed(m, t) PROVE R[t] = f[t]
    <3>1. CASE t = l[k]
      BY <2>3, <3>1, Zenon DEF Rejoined
    <3>2. CASE t # l[k]
      <4>1. ~Listed(l, t)
        BY <1>1, <2>5, <3>2, Zenon
      <4>2. ~(k < Len(l) /\ t = l[k + 1])
        <5>1. k < Len(l) => k + 1 \in 1..Len(l)
          BY <1>1
        <5> QED
          BY <4>1, <5>1, Zenon DEF Listed
      <4>3. f[t] = e[t]
        BY <3>2, <4>2, Zenon DEF Rejoined
      <4> QED
        BY <2>3, <4>1, <4>3, Zenon
    <3> QED
      BY <3>1, <3>2
  <2>6. Tells(R, m, f, Z)
    BY <2>3, <2>4, <2>5, Zenon DEF Tells
  <2>7. R = Ticks(m, f)
    BY <2>2, <2>6, TellsOne, Zenon
  <2> QED
    BY <2>1, <2>7
<1> QED
  BY <1>9, <1>10, Zenon DEF Kept

\* The countdowns after a tick: those of the timers of the list are one less.
Counting(R, l) == [t \in Timers |-> IF Listed(l, t) THEN R[t] - 1 ELSE R[t]]

TickSums(S, l) == [j \in 0..Len(l) |-> IF j = 0 THEN 0 ELSE S[j] - 1]

\* Counting the head down by one counts down every timer of the list.
LEMMA TickKeeps ==
  ASSUME NEW l, NEW e, NEW a, NEW S, Timing(l, e, a, S), 1 \in 1..Len(l), e[l[1]] > 0,
         NEW f, f = [e EXCEPT ![l[1]] = e[l[1]] - 1]
  PROVE  /\ Kept(l, f, a)
         /\ Ticks(l, f) = Counting(Ticks(l, e), l)
         /\ \A t \in Timers : Listed(l, t) => Ticks(l, e)[t] # 0
<1>0. /\ l \in Seq(Timers) /\ a \in Seq(Timers) /\ e \in [Timers -> Nat] /\ Distinct(l) /\ Distinct(a)
      /\ (\A t \in Timers : Listed(a, t) <=> Listed(l, t)) /\ Counted(S, l, e) /\ InTurn(l, S, a)
  BY Zenon DEF Timing
<1>1. Len(l) \in Nat /\ l[1] \in Timers /\ e[l[1]] \in Nat /\ 1 \in 0..Len(l) /\ 0 \in 0..Len(l)
  BY <1>0
<1>2. PICK h \in Timers : h = l[1]
  BY <1>1
<1>3. f \in [Timers -> Nat] /\ f[h] = e[h] - 1 /\ \A t \in Timers : t # h => f[t] = e[t]
  BY <1>0, <1>1, <1>2
<1>4. \A j \in 0..Len(l) : S[j] \in Nat
  BY <1>0 DEF Counted
<1>5. S[0] = 0 /\ S[1] = e[h]
  <2>1. S[0] = 0 /\ S[1] = S[1 - 1] + e[l[1]]
    BY <1>0, Zenon DEF Counted
  <2> QED
    BY <1>1, <1>2, <2>1
<1>6. ASSUME NEW j \in 1..Len(l) PROVE S[j] \in Nat /\ S[j] >= 1 /\ j \in 0..Len(l)
  <2>1. j \in 1..Len(l) /\ j \in 0..Len(l)
    BY <1>1
  <2>2. S[1] <= S[j]
    BY <1>0, <1>1, <2>1, SumsGrow, Zenon
  <2>3. S[j] \in Nat /\ S[1] \in Nat
    BY <1>1, <1>4, <2>1
  <2> QED
    BY <1>1, <1>2, <1>5, <2>1, <2>2, <2>3
<1>7. PICK Z : Z = TickSums(S, l)
  OBVIOUS
<1>8. Z[0] = 0 /\ \A j \in 1..Len(l) : Z[j] = S[j] - 1 /\ Z[j] \in Nat
  <2>1. \A j \in 0..Len(l) : Z[j] = IF j = 0 THEN 0 ELSE S[j] - 1
    BY <1>7, Zenon DEF TickSums
  <2>2. ASSUME NEW j \in 1..Len(l) PROVE Z[j] = S[j] - 1 /\ Z[j] \in Nat
    <3>1. j # 0
      BY <1>1
    <3>2. Z[j] = S[j] - 1
      BY <1>6, <2>1, <3>1, Zenon
    <3> QED
      BY <1>6, <3>2
  <2> QED
    BY <1>1, <2>1, <2>2
<1>9. Counted(Z, l, f)
  <2>1. Z \in [0..Len(l) -> Nat]
    <3>1. \A j \in 0..Len(l) : Z[j] \in Nat
      <4>1. \A j \in 0..Len(l) : j = 0 \/ j \in 1..Len(l)
        BY <1>1
      <4>2. 0 \in Nat
        OBVIOUS
      <4> QED
        BY <1>8, <4>1, <4>2, Zenon
    <3>2. Z = [j \in 0..Len(l) |-> Z[j]]
      BY <1>7, Zenon DEF TickSums
    <3> QED
      BY <3>1, <3>2, Zenon
  <2>2. ASSUME NEW j \in 1..Len(l) PROVE Z[j] = Z[j - 1] + f[l[j]]
    <3>1. CASE j = 1
      <4>1. Z[1] = S[1] - 1 /\ Z[1 - 1] = 0
        BY <1>8, <3>1
      <4>2. f[l[1]] = e[h] - 1 /\ e[h] \in Nat
        BY <1>1, <1>2, <1>3
      <4> QED
        BY <1>5, <3>1, <4>1, <4>2
    <3>2. CASE j # 1
      <4>1. j - 1 \in 1..Len(l) /\ j - 1 \in 0..Len(l)
        BY <1>1, <3>2
      <4>2. l[j] \in Timers /\ l[j] # h
        BY <1>0, <1>1, <1>2, <3>2 DEF Distinct
      <4>3. f[l[j]] = e[l[j]] /\ e[l[j]] \in Nat
        BY <1>0, <1>3, <4>2
      <4>4. S[j] = S[j - 1] + e[l[j]]
        BY <1>0, Zenon DEF Counted
      <4>5. Z[j] = S[j] - 1 /\ Z[j - 1] = S[j - 1] - 1
        BY <1>8, <4>1, Zenon
      <4>6. S[j - 1] \in Nat
        BY <1>4, <4>1, Zenon
      <4> QED
        BY <4>3, <4>4, <4>5, <4>6
    <3> QED
      BY <3>1, <3>2
  <2> QED
    BY <1>8, <2>1, <2>2, Zenon DEF Counted
<1>10. InTurn(l, Z, a)
  <2> SUFFICES ASSUME NEW i \in 1..Len(l), NEW j \in 1..Len(l), i < j, Z[i] = Z[j] PROVE Earlier(a, l[i], l[j])
    BY DEF InTurn
  <2>1. S[i] = S[j]
    <3>1. S[i] \in Nat /\ S[j] \in Nat /\ S[i] - 1 = S[j] - 1
      BY <1>6, <1>8
    <3> QED
      BY <3>1
  <2> QED
    BY <1>0, <2>1 DEF InTurn
<1>11. Timing(l, f, a, Z)
  BY <1>0, <1>3, <1>9, <1>10, Zenon DEF Timing
<1>12. PICK R : R = Ticks(l, e)
  OBVIOUS
<1>13. Tells(Ticks(l, e), l, e, S) /\ Tells(Ticks(l, f), l, f, Z)
  BY <1>0, <1>3, <1>9, TicksTell, Zenon
<1>14. R \in [Timers -> Nat] /\ (\A j \in 1..Len(l) : R[l[j]] = S[j]) /\ \A t \in Timers : ~Listed(l, t) => R[t] = e[t]
  BY <1>12, <1>13, Zenon DEF Tells
<1>15. ASSUME NEW t \in Timers, Listed(l, t) PROVE R[t] # 0 /\ R[t] - 1 \in Nat
  <2>1. PICK j \in 1..Len(l) : l[j] = t
    BY <1>15 DEF Listed
  <2>2. R[t] = S[j]
    BY <1>14, <2>1, Zenon
  <2>3. S[j] \in Nat /\ S[j] >= 1
    BY <1>6
  <2> QED
    BY <2>2, <2>3
<1>16. Counting(R, l) = Ticks(l, f)
  <2>1. PICK W : W = Counting(R, l)
    OBVIOUS
  <2>2. \A t \in Timers : W[t] = IF Listed(l, t) THEN R[t] - 1 ELSE R[t]
    BY <2>1, Zenon DEF Counting
  <2>3. W \in [Timers -> Nat]
    <3>1. ASSUME NEW t \in Timers PROVE W[t] \in Nat
      BY <1>14, <1>15, <2>2
    <3>2. W = [t \in Timers |-> W[t]]
      BY <2>1, Zenon DEF Counting
    <3> QED
      BY <3>1, <3>2, Zenon
  <2>4. ASSUME NEW j \in 1..Len(l) PROVE W[l[j]] = Z[j]
    <3>1. l[j] \in Timers /\ Listed(l, l[j])
      BY <1>0 DEF Listed
    <3>2. W[l[j]] = R[l[j]] - 1
      BY <2>2, <3>1, Zenon
    <3> QED
      BY <1>8, <1>14, <3>2, Zenon
  <2>5. ASSUME NEW t \in Timers, ~Listed(l, t) PROVE W[t] = f[t]
    <3>1. t # h
      BY <1>1, <1>2, <2>5, Zenon DEF Listed
    <3> QED
      BY <1>3, <1>14, <2>2, <2>5, <3>1, Zenon
  <2>6. Tells(W, l, f, Z)
    BY <2>3, <2>4, <2>5, Zenon DEF Tells
  <2>7. W = Ticks(l, f)
    BY <1>13, <2>6, TellsOne, Zenon
  <2> QED
    BY <2>1, <2>7
<1> QED
  BY <1>11, <1>12, <1>15, <1>16, Zenon DEF Kept

\* Where the entries of a sequence are after t is put in place i.
Longer(m, l, i, t) ==
  /\ m \in Seq(Timers) /\ Len(m) = Len(l) + 1 /\ Len(l) \in Nat /\ i \in 1..Len(m) /\ m[i] = t
  /\ \A j \in 1..Len(m) : j # i => \E k \in 1..Len(l) : k = (IF j < i THEN j ELSE j - 1) /\ m[j] = l[k]
  /\ Distinct(m)
  /\ \A u : Listed(m, u) <=> Listed(l, u) \/ u = t

\* Putting one entry in keeps the others, in their order.
LEMMA SpliceParts ==
  ASSUME NEW l \in Seq(Timers), Distinct(l), NEW i \in 1..(Len(l) + 1), NEW t \in Timers, ~Listed(l, t),
         NEW m, Spliced(m, l, i, t)
  PROVE  Longer(m, l, i, t)
<1>1. m \in Seq(Timers) /\ Len(m) = Len(l) + 1 /\ Len(l) \in Nat /\ i \in 1..Len(m) /\ m[i] = t
  <2>1. m \in Seq(Timers) /\ Len(m) = Len(l) + 1 /\ m[i] = t
    BY DEF Spliced
  <2> QED
    BY <2>1
<1>2. ASSUME NEW j \in 1..Len(m), j # i
      PROVE  \E k \in 1..Len(l) : k = (IF j < i THEN j ELSE j - 1) /\ m[j] = l[k]
  <2>1. CASE j < i
    <3>1. j \in 1..(i - 1) /\ j \in 1..Len(l)
      BY <1>1, <2>1
    <3>2. m[j] = l[j]
      BY <3>1 DEF Spliced
    <3> QED
      BY <2>1, <3>1, <3>2
  <2>2. CASE ~(j < i)
    <3>1. PICK k \in 1..Len(l) : k = j - 1 /\ j \in (i + 1)..(Len(l) + 1)
      BY <1>1, <1>2, <2>2
    <3>2. m[j] = l[k]
      BY <3>1 DEF Spliced
    <3> QED
      BY <2>2, <3>1, <3>2
  <2> QED
    BY <2>1, <2>2
<1>3. ASSUME NEW k \in 1..Len(l) PROVE \E j \in 1..Len(m) : m[j] = l[k]
  <2>1. CASE k < i
    <3>1. k \in 1..Len(m) /\ k # i
      BY <1>1, <2>1
    <3> QED
      BY <1>2, <2>1, <3>1
  <2>2. CASE ~(k < i)
    <3>1. PICK j \in 1..Len(m) : j = k + 1 /\ j # i /\ ~(j < i) /\ j - 1 = k
      BY <1>1, <2>2
    <3>2. PICK x \in 1..Len(l) : x = (IF j < i THEN j ELSE j - 1) /\ m[j] = l[x]
      BY <1>2, <3>1
    <3> QED
      BY <3>1, <3>2
  <2> QED
    BY <2>1, <2>2
<1>4. ASSUME NEW j \in 1..Len(m), j # i PROVE m[j] # t
  BY <1>2, <1>4 DEF Listed
<1>5. Distinct(m)
  <2> SUFFICES ASSUME NEW x \in 1..Len(m), NEW y \in 1..Len(m), m[x] = m[y] PROVE x = y
    BY DEF Distinct
  <2>1. CASE x = i \/ y = i
    BY <1>1, <1>4, <2>1
  <2>2. CASE x # i /\ y # i
    <3>1. PICK v \in 1..Len(l) : v = (IF x < i THEN x ELSE x - 1) /\ m[x] = l[v]
      BY <1>2, <2>2
    <3>2. PICK w \in 1..Len(l) : w = (IF y < i THEN y ELSE y - 1) /\ m[y] = l[w]
      BY <1>2, <2>2
    <3>3. v = w
      BY <3>1, <3>2 DEF Distinct
    <3> QED
      BY <1>1, <2>2, <3>1, <3>2, <3>3
  <2> QED
    BY <2>1, <2>2
<1>6. ASSUME NEW u PROVE Listed(m, u) <=> Listed(l, u) \/ u = t
  <2>1. ASSUME Listed(m, u) PROVE Listed(l, u) \/ u = t
    BY <1>1, <1>2, <2>1, Zenon DEF Listed
  <2>2. ASSUME Listed(l, u) PROVE Listed(m, u)
    <3>1. PICK k \in 1..Len(l) : l[k] = u
      BY <2>2 DEF Listed
    <3>2. PICK j \in 1..Len(m) : m[j] = l[k]
      BY <1>3
    <3> QED
      BY <3>1, <3>2 DEF Listed
  <2>3. ASSUME u = t PROVE Listed(m, u)
    BY <1>1, <2>3, Zenon DEF Listed
  <2> QED
    BY <2>1, <2>2, <2>3
<1> QED
  BY <1>1, <1>2, <1>5, <1>6, Zenon DEF Longer

\* The newest timer is the last of added.
LEMMA AppendSplices ==
  ASSUME NEW a \in Seq(Timers), NEW t \in Timers
  PROVE  Spliced(Append(a, t), a, Len(a) + 1, t)
<1>1. PICK b : b = Append(a, t)
  OBVIOUS
<1>2. /\ Len(a) \in Nat /\ b \in Seq(Timers) /\ Len(b) = Len(a) + 1
      /\ b[Len(a) + 1] = t /\ \A j \in 1..Len(a) : b[j] = a[j]
  BY <1>1, AppendProperties
<1>3. Spliced(b, a, Len(a) + 1, t)
  <2>1. /\ \A j \in 1..((Len(a) + 1) - 1) : j \in 1..Len(a)
        /\ \A j \in ((Len(a) + 1) + 1)..(Len(a) + 1) : FALSE
    BY <1>2
  <2> QED
    BY <1>2, <2>1, Zenon DEF Spliced
<1> QED
  BY <1>1, <1>3

\* The new timer t in front of entry i, with c ticks after the entry before it.
Linking(f, l, e, i, t, c) ==
  /\ f \in [Timers -> Nat] /\ f[t] = c
  /\ i <= Len(l) => f[l[i]] = e[l[i]] - c
  /\ \A u \in Timers : u # t /\ ~(i <= Len(l) /\ u = l[i]) => f[u] = e[u]

AddSums(S, l, i, n) == [j \in 0..(Len(l) + 1) |-> IF j < i THEN S[j] ELSE IF j = i THEN n ELSE S[j - 1]]

\* The ticks that stay for the new timer and for the entry behind it.
LEMMA FitsTicks ==
  ASSUME NEW l \in Seq(Timers), NEW e \in [Timers -> Nat], NEW S, Counted(S, l, e), NEW n \in Nat,
         NEW i, Fits(S, l, n, i)
  PROVE  /\ i \in 1..(Len(l) + 1) /\ Len(l) \in Nat /\ S[i - 1] \in Nat /\ n - S[i - 1] \in Nat
         /\ i <= Len(l) => e[l[i]] - (n - S[i - 1]) \in Nat /\ S[i] \in Nat /\ i \in 1..Len(l) /\ S[i] > n
                           /\ S[i] = S[i - 1] + e[l[i]] /\ e[l[i]] \in Nat
<1>1. i \in 1..(Len(l) + 1) /\ Len(l) \in Nat
  BY DEF Fits
<1>2. \A j \in 0..Len(l) : S[j] \in Nat
  BY DEF Counted
<1>3. i - 1 \in 0..Len(l)
  BY <1>1
<1>4. S[i - 1] \in Nat
  BY <1>2, <1>3, Zenon
<1>5. S[i - 1] <= n
  <2>1. CASE i = 1
    <3>1. i - 1 = 0
      BY <2>1
    <3>2. S[0] = 0
      BY DEF Counted
    <3> QED
      BY <3>1, <3>2
  <2>2. CASE i # 1
    <3>1. i - 1 \in 1..(i - 1)
      BY <1>1, <2>2
    <3> QED
      BY <3>1, Zenon DEF Fits
  <2> QED
    BY <2>1, <2>2
<1>6. ASSUME i <= Len(l)
      PROVE  /\ e[l[i]] - (n - S[i - 1]) \in Nat /\ S[i] \in Nat /\ i \in 1..Len(l) /\ S[i] > n
             /\ S[i] = S[i - 1] + e[l[i]] /\ e[l[i]] \in Nat
  <2>1. i \in 1..Len(l) /\ i \in 0..Len(l)
    BY <1>1, <1>6
  <2>2. S[i] > n
    BY <1>6 DEF Fits
  <2>3. S[i] = S[i - 1] + e[l[i]]
    BY <2>1 DEF Counted
  <2>4. S[i] \in Nat /\ e[l[i]] \in Nat
    BY <1>2, <2>1
  <2> QED
    BY <1>4, <2>1, <2>2, <2>3, <2>4
<1> QED
  BY <1>1, <1>4, <1>5, <1>6

\* With t in front of entry i the other sums are what they were, and that of t is n.
LEMMA AddCounts ==
  ASSUME NEW l \in Seq(Timers), NEW e \in [Timers -> Nat], NEW S, Counted(S, l, e), Distinct(l),
         NEW t \in Timers, ~Listed(l, t), NEW n \in Nat, NEW i, Fits(S, l, n, i),
         NEW m, Spliced(m, l, i, t), NEW f, Linking(f, l, e, i, t, n - S[i - 1])
  PROVE  Counted(AddSums(S, l, i, n), m, f)
<1>1. /\ i \in 1..(Len(l) + 1) /\ Len(l) \in Nat /\ S[i - 1] \in Nat /\ n - S[i - 1] \in Nat
      /\ i <= Len(l) => e[l[i]] - (n - S[i - 1]) \in Nat /\ S[i] \in Nat /\ i \in 1..Len(l) /\ S[i] > n
                        /\ S[i] = S[i - 1] + e[l[i]] /\ e[l[i]] \in Nat
  BY FitsTicks, Zenon
<1>2. m \in Seq(Timers) /\ Len(m) = Len(l) + 1 /\ m[i] = t
  BY DEF Spliced
<1>3. \A j \in 0..Len(l) : S[j] \in Nat
  BY DEF Counted
<1>4. PICK Z : Z = AddSums(S, l, i, n)
  OBVIOUS
<1>5. ASSUME NEW j \in 0..Len(m)
      PROVE  /\ j < i => Z[j] = S[j] /\ S[j] \in Nat
             /\ j = i => Z[j] = n
             /\ j > i => Z[j] = S[j - 1] /\ S[j - 1] \in Nat
  <2>1. j \in 0..(Len(l) + 1)
    BY <1>2
  <2>2. Z[j] = IF j < i THEN S[j] ELSE IF j = i THEN n ELSE S[j - 1]
    BY <1>4, <2>1, Zenon DEF AddSums
  <2>3. /\ j < i => j \in 0..Len(l)
        /\ j = i => ~(j < i)
        /\ j > i => ~(j < i) /\ j # i /\ j - 1 \in 0..Len(l)
    BY <1>1, <2>1
  <2> QED
    BY <1>3, <2>2, <2>3, Zenon
<1>6. Z \in [0..Len(m) -> Nat]
  <2>1. \A j \in 0..Len(m) : Z[j] \in Nat
    <3>1. \A j \in 0..Len(m) : j < i \/ j = i \/ j > i
      BY <1>1, <1>2
    <3> QED
      BY <1>5, <3>1, Zenon
  <2>2. Z = [j \in 0..Len(m) |-> Z[j]]
    BY <1>2, <1>4, Zenon DEF AddSums
  <2> QED
    BY <2>1, <2>2, Zenon
<1>7. Z[0] = 0
  <2>1. 0 \in 0..Len(m) /\ 0 < i
    BY <1>1, <1>2
  <2>2. S[0] = 0
    BY DEF Counted
  <2> QED
    BY <1>5, <2>1, <2>2, Zenon
<1>8. ASSUME NEW j \in 1..Len(m) PROVE Z[j] = Z[j - 1] + f[m[j]]
  <2>1. j \in 0..Len(m) /\ j - 1 \in 0..Len(m) /\ j \in Int /\ i \in Int
    BY <1>1, <1>2
  <2>2. CASE j < i
    <3>1. j \in 1..(i - 1) /\ j \in 1..Len(l) /\ j # i /\ j - 1 < i
      BY <1>1, <2>2
    <3>2. m[j] = l[j]
      BY <3>1 DEF Spliced
    <3>3. Z[j] = S[j] /\ Z[j - 1] = S[j - 1]
      BY <1>5, <2>1, <2>2, <3>1, Zenon
    <3>4. l[j] \in Timers /\ l[j] # t
      BY <3>1 DEF Listed
    <3>5. ~(i <= Len(l) /\ l[j] = l[i])
      BY <1>1, <3>1 DEF Distinct
    <3>6. f[l[j]] = e[l[j]]
      BY <3>4, <3>5, Zenon DEF Linking
    <3>7. S[j] = S[j - 1] + e[l[j]]
      BY <3>1 DEF Counted
    <3> QED
      BY <3>2, <3>3, <3>6, <3>7, Zenon
  <2>3. CASE j = i
    <3>1. i - 1 < i
      BY <1>1
    <3>2. Z[i] = n /\ Z[i - 1] = S[i - 1]
      BY <1>5, <2>1, <2>3, <3>1, Zenon
    <3>3. f[t] = n - S[i - 1]
      BY Zenon DEF Linking
    <3>4. n = S[i - 1] + (n - S[i - 1])
      BY <1>1
    <3> QED
      BY <1>2, <2>3, <3>2, <3>3, <3>4, Zenon
  <2>4. CASE j = i + 1
    <3>1. i <= Len(l) /\ j > i /\ j - 1 = i /\ j \in (i + 1)..(Len(l) + 1)
      BY <1>1, <1>2, <2>4
    <3>2. m[j] = l[i]
      <4>1. m[j] = l[j - 1]
        BY <3>1, Zenon DEF Spliced
      <4> QED
        BY <3>1, <4>1, Zenon
    <3>3. Z[j] = S[i] /\ Z[j - 1] = n
      BY <1>5, <2>1, <3>1, Zenon
    <3>4. f[l[i]] = e[l[i]] - (n - S[i - 1])
      BY <3>1, Zenon DEF Linking
    <3>5. S[i] = n + (e[l[i]] - (n - S[i - 1]))
      <4>1. \A v, x \in Nat : v + x = n + (x - (n - v))
        OBVIOUS
      <4>2. S[i - 1] + e[l[i]] = n + (e[l[i]] - (n - S[i - 1]))
        BY <1>1, <3>1, <4>1, Zenon
      <4> QED
        BY <1>1, <3>1, <4>2, Zenon
    <3> QED
      BY <3>2, <3>3, <3>4, <3>5, Zenon
  <2>5. CASE j > i + 1
    <3>1. PICK y \in 1..Len(l) : y = j - 1 /\ j \in (i + 1)..(Len(l) + 1) /\ y # i /\ j > i /\ j - 1 > i
      BY <1>1, <1>2, <2>5
    <3>2. m[j] = l[y]
      BY <3>1 DEF Spliced
    <3>3. Z[j] = S[y] /\ Z[j - 1] = S[y - 1]
      BY <1>5, <2>1, <3>1, Zenon
    <3>4. l[y] \in Timers /\ l[y] # t
      BY DEF Listed
    <3>5. ~(i <= Len(l) /\ l[y] = l[i])
      BY <1>1, <3>1 DEF Distinct
    <3>6. f[l[y]] = e[l[y]]
      BY <3>4, <3>5, Zenon DEF Linking
    <3>7. S[y] = S[y - 1] + e[l[y]]
      BY DEF Counted
    <3> QED
      BY <3>2, <3>3, <3>6, <3>7, Zenon
  <2> QED
    BY <2>1, <2>2, <2>3, <2>4, <2>5
<1>9. Counted(Z, m, f)
  BY <1>6, <1>7, <1>8, Zenon DEF Counted
<1> QED
  BY <1>4, <1>9

\* add_timer sets the ticks of the new timer and changes nobody else's.
LEMMA AddKeeps ==
  ASSUME NEW l, NEW e, NEW a, NEW S, Timing(l, e, a, S), NEW t \in Timers, ~Listed(l, t), NEW n \in Nat,
         NEW i, Fits(S, l, n, i), NEW m, Spliced(m, l, i, t),
         NEW f, Linking(f, l, e, i, t, n - S[i - 1])
  PROVE  Kept(m, f, Append(a, t)) /\ Ticks(m, f) = [Ticks(l, e) EXCEPT ![t] = n]
<1>0. /\ l \in Seq(Timers) /\ a \in Seq(Timers) /\ e \in [Timers -> Nat] /\ Distinct(l) /\ Distinct(a)
      /\ (\A u \in Timers : Listed(a, u) <=> Listed(l, u)) /\ Counted(S, l, e) /\ InTurn(l, S, a)
  BY Zenon DEF Timing
<1>1. /\ i \in 1..(Len(l) + 1) /\ Len(l) \in Nat
      /\ i <= Len(l) => S[i] \in Nat /\ i \in 1..Len(l) /\ S[i] > n
  BY <1>0, FitsTicks, Zenon
<1>2. Longer(m, l, i, t)
  BY <1>0, <1>1, SpliceParts, Zenon
<1>3. /\ m \in Seq(Timers) /\ Len(m) = Len(l) + 1 /\ i \in 1..Len(m) /\ m[i] = t
      /\ \A j \in 1..Len(m) : j # i => \E k \in 1..Len(l) : k = (IF j < i THEN j ELSE j - 1) /\ m[j] = l[k]
      /\ Distinct(m)
      /\ \A u : Listed(m, u) <=> Listed(l, u) \/ u = t
  BY <1>2, Zenon DEF Longer
<1>4. PICK b, z : b = Append(a, t) /\ z = Len(a) + 1 /\ z \in 1..(Len(a) + 1) /\ Len(a) \in Nat
  <2>1. Len(a) \in Nat /\ Len(a) + 1 \in 1..(Len(a) + 1)
    BY <1>0
  <2> QED
    BY <2>1, Zenon
<1>5. Longer(b, a, z, t)
  <2>1. Spliced(b, a, z, t)
    BY <1>0, <1>4, AppendSplices, Zenon
  <2>2. ~Listed(a, t)
    BY <1>0, Zenon
  <2> QED
    BY <1>0, <1>4, <2>1, <2>2, SpliceParts, Zenon
<1>6. /\ b \in Seq(Timers) /\ Len(b) = Len(a) + 1 /\ z \in 1..Len(b) /\ b[z] = t
      /\ \A j \in 1..Len(b) : j # z => \E k \in 1..Len(a) : k = (IF j < z THEN j ELSE j - 1) /\ b[j] = a[k]
      /\ Distinct(b)
      /\ \A u : Listed(b, u) <=> Listed(a, u) \/ u = t
  BY <1>5, Zenon DEF Longer
<1>7. PICK Z : Z = AddSums(S, l, i, n)
  OBVIOUS
<1>8. Counted(Z, m, f)
  <2>1. Counted(AddSums(S, l, i, n), m, f)
    BY <1>0, AddCounts, Zenon
  <2> QED
    BY <1>7, <2>1, Zenon
<1>9. \A u \in Timers : Listed(b, u) <=> Listed(m, u)
  BY <1>0, <1>3, <1>6, Zenon
<1>10. ASSUME NEW j \in 1..Len(m)
       PROVE  /\ j = i => Z[j] = n
              /\ \A k \in 1..Len(l) : j # i /\ k = (IF j < i THEN j ELSE j - 1) => Z[j] = S[k]
  <2>1. j \in 0..(Len(l) + 1)
    BY <1>1, <1>3
  <2>2. Z[j] = IF j < i THEN S[j] ELSE IF j = i THEN n ELSE S[j - 1]
    BY <1>7, <2>1, Zenon DEF AddSums
  <2>3. j = i => ~(j < i)
    BY <1>1
  <2> QED
    BY <2>2, <2>3, Zenon
<1>11. InTurn(m, Z, b)
  <2> SUFFICES ASSUME NEW x \in 1..Len(m), NEW y \in 1..Len(m), x < y, Z[x] = Z[y],
                      NEW p \in 1..Len(b), NEW r \in 1..Len(b), b[p] = m[x], b[r] = m[y]
               PROVE  p < r
    BY DEF InTurn, Earlier
  <2>0. m[x] # m[y] /\ x # y
    <3>1. x # y
      BY <1>3
    <3> QED
      BY <1>3, <3>1 DEF Distinct
  <2>1. CASE x = i
    <3>1. PICK j \in 1..Len(l) : j = (IF y < i THEN y ELSE y - 1) /\ m[y] = l[j]
      BY <1>3, <2>0, <2>1, Zenon
    <3>2. j = y - 1 /\ i <= j /\ j \in i..Len(l) /\ i <= Len(l) /\ i \in 0..Len(l) /\ j \in 0..Len(l)
      BY <1>1, <1>3, <2>1, <3>1
    <3>3. Z[y] = S[j] /\ Z[x] = n
      BY <1>10, <2>0, <2>1, <3>1, Zenon
    <3>4. S[i] <= S[j]
      BY <1>0, <3>2, SumsGrow, Zenon
    <3>5. S[i] \in Nat /\ S[i] > n
      BY <1>1, <3>2
    <3> QED
      BY <3>3, <3>4, <3>5
  <2>2. CASE y = i
    <3>1. r = z
      <4>1. b[r] = b[z]
        BY <1>3, <1>6, <2>2, Zenon
      <4> QED
        BY <1>6, <4>1 DEF Distinct
    <3>2. p # z
      BY <1>3, <1>6, <2>0, <2>2, Zenon
    <3> QED
      BY <1>4, <1>6, <3>1, <3>2
  <2>3. CASE x # i /\ y # i
    <3>1. PICK k \in 1..Len(l) : k = (IF x < i THEN x ELSE x - 1) /\ m[x] = l[k]
      BY <1>3, <2>3, Zenon
    <3>2. PICK j \in 1..Len(l) : j = (IF y < i THEN y ELSE y - 1) /\ m[y] = l[j]
      BY <1>3, <2>3, Zenon
    <3>3. k < j
      BY <1>1, <1>3, <2>3, <3>1, <3>2
    <3>4. Z[x] = S[k] /\ Z[y] = S[j]
      BY <1>10, <2>3, <3>1, <3>2, Zenon
    <3>5. Earlier(a, l[k], l[j])
      BY <1>0, <3>3, <3>4 DEF InTurn
    <3>6. m[x] # t /\ m[y] # t
      BY <1>3, <2>3 DEF Distinct
    <3>7. p # z /\ r # z
      BY <1>6, <3>6, Zenon
    <3>8. PICK v \in 1..Len(a) : v = (IF p < z THEN p ELSE p - 1) /\ b[p] = a[v]
      BY <1>6, <3>7, Zenon
    <3>9. PICK w \in 1..Len(a) : w = (IF r < z THEN r ELSE r - 1) /\ b[r] = a[w]
      BY <1>6, <3>7, Zenon
    <3>10. v = p /\ w = r
      BY <1>4, <1>6, <3>7, <3>8, <3>9, SMTT(30)
    <3>11. v < w
      BY <3>1, <3>2, <3>5, <3>8, <3>9 DEF Earlier
    <3> QED
      BY <3>10, <3>11
  <2> QED
    BY <2>1, <2>2, <2>3
<1>12. f \in [Timers -> Nat]
  BY DEF Linking
<1>13. Timing(m, f, b, Z)
  BY <1>3, <1>6, <1>8, <1>9, <1>11, <1>12, Zenon DEF Timing
<1>14. PICK R, W : R = Ticks(l, e) /\ W = [R EXCEPT ![t] = n]
  OBVIOUS
<1>15. Tells(Ticks(l, e), l, e, S) /\ Tells(Ticks(m, f), m, f, Z)
  BY <1>0, <1>3, <1>8, <1>12, TicksTell, Zenon
<1>16. R \in [Timers -> Nat] /\ (\A j \in 1..Len(l) : R[l[j]] = S[j]) /\ \A u \in Timers : ~Listed(l, u) => R[u] = e[u]
  BY <1>14, <1>15, Zenon DEF Tells
<1>17. W \in [Timers -> Nat] /\ W[t] = n /\ \A u \in Timers : u # t => W[u] = R[u]
  BY <1>14, <1>16
<1>18. ASSUME NEW j \in 1..Len(m) PROVE W[m[j]] = Z[j]
  <2>1. CASE j = i
    BY <1>3, <1>10, <1>17, <2>1, Zenon
  <2>2. CASE j # i
    <3>1. PICK k \in 1..Len(l) : k = (IF j < i THEN j ELSE j - 1) /\ m[j] = l[k]
      BY <1>3, <2>2, Zenon
    <3>2. Z[j] = S[k]
      BY <1>10, <2>2, <3>1, Zenon
    <3>3. m[j] # t /\ m[j] \in Timers
      BY <1>3, <2>2 DEF Distinct
    <3> QED
      BY <1>16, <1>17, <3>1, <3>2, <3>3, Zenon
  <2> QED
    BY <2>1, <2>2
<1>19. ASSUME NEW u \in Timers, ~Listed(m, u) PROVE W[u] = f[u]
  <2>1. ~Listed(l, u) /\ u # t
    BY <1>3, <1>19, Zenon
  <2>2. ~(i <= Len(l) /\ u = l[i])
    BY <1>1, <2>1, Zenon DEF Listed
  <2>3. f[u] = e[u]
    BY <2>1, <2>2, Zenon DEF Linking
  <2> QED
    BY <1>16, <1>17, <2>1, <2>3, Zenon
<1>20. Tells(W, m, f, Z)
  BY <1>17, <1>18, <1>19, Zenon DEF Tells
<1>21. W = Ticks(m, f)
  BY <1>15, <1>20, TellsOne, Zenon
<1> QED
  BY <1>4, <1>13, <1>14, <1>21, Zenon DEF Kept

-----------------------------------------------------------------------------
(* The steps of TimerList are steps of Alarms.                             *)

\* The invariant: the list is in order, and fn is set while a function runs.
ListInv ==
  /\ Kept(list, expires, added)
  /\ fn # NoTimer <=> bh_pc = "fn"

AlarmStep == [Countdowns!Next]_(Countdowns!vars)

\* The timers that are set in Alarms.
LEMMA SetIsListed == \A t : t \in Countdowns!Set <=> Listed(added, t)
  BY DEF Countdowns!Set, Listed

\* Alarms and TimerList take a timer from added alike.
LEMMA SameRemoval ==
  ASSUME NEW a, NEW t
  PROVE  Countdowns!RemoveFirst(a, t) = RemoveFirst(a, t)
  BY DEF Countdowns!RemoveFirst, RemoveFirst, Countdowns!RemoveAt, RemoveAt, Countdowns!SelectInSeq, SelectInSeq,
         Countdowns!Min, Min

\* add_timer is a step Add of Alarms.
LEMMA AddStep ==
  ASSUME ListInv, NEW t \in Timers, NEW n \in Delays, add_timer(t, n)
  PROVE  ListInv' /\ AlarmStep
<1>1. PICK S : Timing(list, expires, added, S)
  BY DEF ListInv, Kept
<1>2. /\ list \in Seq(Timers) /\ expires \in [Timers -> Nat] /\ Counted(S, list, expires)
      /\ \A u \in Timers : Listed(added, u) <=> Listed(list, u)
  BY <1>1, Zenon DEF Timing
<1>3. n \in Nat /\ n \in 0..MaxExpires
  BY BoundsAssumption DEF Delays
<1>4. ~Listed(list, t)
  BY <1>2, ToSetListed, Zenon DEF add_timer
<1>5. PICK i : i = Place(n)
  OBVIOUS
<1>6. Fits(S, list, n, i) /\ i \in 1..(Len(list) + 1)
  <2>1. Fits(S, list, n, Place(n))
    BY <1>2, <1>3, PlaceFits, Zenon
  <2> QED
    BY <1>5, <2>1, Zenon DEF Fits
<1>7. /\ list' = InsertAt(list, i, t) /\ expires' = Linked(t, i, Carry(n)[i])
      /\ added' = Append(added, t) /\ fn' = fn /\ bh_pc' = bh_pc
  BY <1>5, Zenon DEF add_timer
<1>8. Spliced(list', list, i, t)
  BY <1>2, <1>6, <1>7, InsertSplices, Zenon
<1>9. Carry(n)[i] = n - S[i - 1]
  BY <1>2, <1>3, <1>6, CarryIs, Zenon
<1>10. PICK c : c = n - S[i - 1]
  OBVIOUS
<1>11. Linking(expires', list, expires, i, t, c)
  <2>1. /\ c \in Nat /\ i \in 1..(Len(list) + 1) /\ Len(list) \in Nat
        /\ i <= Len(list) => i \in 1..Len(list) /\ expires[list[i]] - c \in Nat
    BY <1>2, <1>3, <1>6, <1>10, FitsTicks, Zenon
  <2>2. expires' = [u \in Timers |-> IF u = t THEN c
                                     ELSE IF i <= Len(list) /\ u = list[i] THEN expires[u] - c
                                     ELSE expires[u]]
    BY <1>7, <1>9, <1>10, Zenon DEF Linked
  <2>3. i <= Len(list) => list[i] \in Timers /\ list[i] # t
    BY <1>2, <1>4, <2>1 DEF Listed
  <2>4. ASSUME NEW u \in Timers
        PROVE  expires'[u] = (IF u = t THEN c
                              ELSE IF i <= Len(list) /\ u = list[i] THEN expires[u] - c ELSE expires[u])
    BY <2>2, Zenon
  <2>5. ASSUME NEW u \in Timers PROVE expires'[u] \in Nat
    <3>1. expires[u] \in Nat
      BY <1>2
    <3> QED
      BY <2>1, <2>4, <3>1, Zenon
  <2>6. expires' = [u \in Timers |-> expires'[u]]
    BY <2>2, Zenon
  <2>7. expires' \in [Timers -> Nat]
    BY <2>5, <2>6, Zenon
  <2> QED
    BY <2>3, <2>4, <2>7, Zenon DEF Linking
<1>12. Linking(expires', list, expires, i, t, n - S[i - 1])
  BY <1>10, <1>11, Zenon
<1>13. Kept(list', expires', Append(added, t)) /\ Ticks(list', expires') = [Ticks(list, expires) EXCEPT ![t] = n]
  BY <1>1, <1>3, <1>4, <1>6, <1>8, <1>12, AddKeeps
<1>14. ListInv'
  BY <1>7, <1>13, Zenon DEF ListInv
<1>15. Countdowns!Add(t, n)
  <2>1. t \notin Countdowns!Set
    BY <1>2, <1>4, SetIsListed, Zenon
  <2>2. Remaining' = [Remaining EXCEPT ![t] = n]
    BY <1>13, RemainingIsTicks, Zenon
  <2> QED
    BY <1>7, <2>1, <2>2, Zenon DEF Countdowns!Add
<1>16. Countdowns!Next
  BY <1>3, <1>15, Zenon DEF Countdowns!Next
<1> QED
  BY <1>14, <1>16, Zenon DEF AlarmStep

\* del_timer is a step Delete.
LEMMA DelStep ==
  ASSUME ListInv, NEW t \in Timers, del_timer(t)
  PROVE  ListInv' /\ AlarmStep
<1>1. PICK S : Timing(list, expires, added, S)
  BY DEF ListInv, Kept
<1>2. /\ list \in Seq(Timers) /\ expires \in [Timers -> Nat] /\ Counted(S, list, expires)
      /\ Distinct(list) /\ added \in Seq(Timers) /\ Distinct(added)
      /\ \A u \in Timers : Listed(added, u) <=> Listed(list, u)
  BY <1>1, Zenon DEF Timing
<1>3. Listed(list, t) /\ Listed(added, t)
  BY <1>2, ToSetListed, Zenon DEF del_timer
<1>4. PICK k \in 1..Len(list) : list[k] = t
  BY <1>3 DEF Listed
<1>5. PICK q \in 1..Len(added) : added[q] = t
  BY <1>3 DEF Listed
<1>6. Position(t) = k
  BY <1>2, <1>4 DEF Position, Distinct
<1>7. /\ list' = RemoveAt(list, k) /\ expires' = Unlinked(k)
      /\ added' = RemoveFirst(added, t) /\ fn' = fn /\ bh_pc' = bh_pc
  BY <1>6, Zenon DEF del_timer
<1>8. Dropped(list', list, k)
  BY <1>2, <1>7, RemoveDrops, Zenon
<1>9. added' = RemoveAt(added, q)
  <2>1. RemoveFirst(added, added[q]) = RemoveAt(added, q)
    BY <1>2, RemoveFirstIs, Zenon
  <2> QED
    BY <1>5, <1>7, <2>1, Zenon
<1>10. Dropped(added', added, q)
  BY <1>2, <1>9, RemoveDrops, Zenon
<1>11. SumTo(k) = S[k] /\ S[k] \in Nat /\ Len(list) \in Nat
  <2>1. k \in 0..Len(list) /\ Len(list) \in Nat
    BY <1>2
  <2>2. SumOf(list, expires, k) = S[k]
    BY <1>2, <2>1, SumOfIs, Zenon
  <2>3. SumTo(k) = SumOf(list, expires, k)
    BY DEF SumTo, SumOf
  <2>4. S[k] \in Nat
    BY <1>2, <2>1 DEF Counted
  <2> QED
    BY <2>1, <2>2, <2>3, <2>4, Zenon
<1>12. Rejoined(expires', list, expires, S, k)
  <2>1. expires' = [u \in Timers |-> IF u = list[k] THEN S[k]
                      ELSE IF k < Len(list) /\ u = list[k + 1] THEN expires[u] + expires[list[k]]
                      ELSE expires[u]]
    BY <1>7, <1>11, Zenon DEF Unlinked
  <2>2. k < Len(list) => list[k + 1] \in Timers /\ list[k + 1] # list[k]
    <3>1. k < Len(list) => k + 1 \in 1..Len(list) /\ k + 1 # k
      BY <1>11
    <3> QED
      BY <1>2, <3>1 DEF Distinct
  <2>3. ASSUME NEW u \in Timers
        PROVE  expires'[u] = IF u = list[k] THEN S[k]
                             ELSE IF k < Len(list) /\ u = list[k + 1] THEN expires[u] + expires[list[k]]
                             ELSE expires[u]
    BY <2>1, Zenon
  <2>4. ASSUME NEW u \in Timers PROVE expires'[u] \in Nat
    <3>1. expires[u] \in Nat /\ expires[list[k]] \in Nat
      BY <1>2
    <3>2. expires[u] + expires[list[k]] \in Nat
      BY <3>1
    <3> QED
      BY <1>11, <2>3, <3>1, <3>2, Zenon
  <2>5. expires' = [u \in Timers |-> expires'[u]]
    BY <2>1, Zenon
  <2>6. expires' \in [Timers -> Nat]
    BY <2>4, <2>5, Zenon
  <2>7. list[k] \in Timers
    BY <1>4
  <2> QED
    BY <2>2, <2>3, <2>6, <2>7, Zenon DEF Rejoined
<1>13. added[q] = list[k]
  BY <1>4, <1>5
<1>14. Kept(list', expires', added') /\ Ticks(list', expires') = Ticks(list, expires)
  BY <1>1, <1>8, <1>10, <1>12, <1>13, DropKeeps
<1>15. ListInv'
  BY <1>7, <1>14, Zenon DEF ListInv
<1>16. Countdowns!Delete(t)
  <2>1. t \in Countdowns!Set
    BY <1>3, SetIsListed, Zenon
  <2>2. Remaining' = Remaining
    BY <1>14, RemainingIsTicks, Zenon
  <2> QED
    BY <1>7, <2>1, <2>2, SameRemoval, Zenon DEF Countdowns!Delete
<1>17. Countdowns!Next
  BY <1>16, Zenon DEF Countdowns!Next
<1> QED
  BY <1>15, <1>17, Zenon DEF AlarmStep

\* do_timer is a step Tick, or none when a tick is lost.
LEMMA TickStep ==
  ASSUME ListInv, do_timer_lists
  PROVE  ListInv' /\ AlarmStep
<1>1. PICK S : Timing(list, expires, added, S)
  BY DEF ListInv, Kept
<1>2. /\ list \in Seq(Timers) /\ expires \in [Timers -> Nat]
      /\ \A u \in Timers : Listed(added, u) <=> Listed(list, u)
  BY <1>1, Zenon DEF Timing
<1>3. list' = list /\ added' = added /\ fn' = fn /\ bh_pc' = bh_pc
  BY DEF do_timer_lists
<1>4. CASE list # <<>> /\ expires[Head(list)] > 0
  <2>1. 1 \in 1..Len(list) /\ Head(list) = list[1] /\ list[1] \in Timers
    BY <1>2, <1>4
  <2>2. expires' = [expires EXCEPT ![list[1]] = expires[list[1]] - 1]
    BY <1>4, <2>1 DEF do_timer_lists, HeadTick
  <2>3. /\ Kept(list, expires', added)
        /\ Ticks(list, expires') = Counting(Ticks(list, expires), list)
        /\ \A t \in Timers : Listed(list, t) => Ticks(list, expires)[t] # 0
    <3>1. expires[list[1]] > 0
      BY <1>4, <2>1
    <3> QED
      BY <1>1, <2>1, <2>2, <3>1, TickKeeps, Zenon
  <2>4. ListInv'
    BY <1>3, <2>3, Zenon DEF ListInv
  <2>5. \A t \in Timers : t \in Countdowns!Set <=> Listed(list, t)
    BY <1>2, SetIsListed, Zenon
  <2>6. Remaining' = [t \in Timers |-> IF t \in Countdowns!Set THEN Remaining[t] - 1 ELSE Remaining[t]]
    <3>1. Remaining' = Counting(Remaining, list)
      BY <1>3, <2>3, RemainingIsTicks, Zenon
    <3> QED
      BY <2>5, <3>1, Zenon DEF Counting
  <2>7. Countdowns!Set # {}
    <3>1. list[1] \in Countdowns!Set
      BY <2>1, <2>5, Zenon DEF Listed
    <3> QED
      BY <3>1, Zenon
  <2>8. Countdowns!Ended = {}
    <3>1. ASSUME NEW t \in Countdowns!Set PROVE Remaining[t] # 0
      <4>1. Listed(added, t)
        BY SetIsListed, Zenon
      <4>2. added \in Seq(Timers)
        BY <1>1, Zenon DEF Timing
      <4>3. t \in Timers
        BY <4>1, <4>2 DEF Listed
      <4> QED
        BY <1>2, <2>3, <4>1, <4>3, RemainingIsTicks, Zenon
    <3> QED
      BY <3>1, Zenon DEF Countdowns!Ended
  <2>9. Countdowns!Tick
    BY <1>3, <2>6, <2>7, <2>8, Zenon DEF Countdowns!Tick
  <2> QED
    BY <2>4, <2>9, Zenon DEF AlarmStep, Countdowns!Next
<1>5. CASE ~(list # <<>> /\ expires[Head(list)] > 0)
  <2>1. expires' = expires
    BY <1>5, Zenon DEF do_timer_lists, HeadTick
  <2>2. ListInv'
    BY <1>3, <2>1, Zenon DEF ListInv
  <2>3. Remaining' = Remaining
    BY <1>3, <2>1, RemainingIsTicks, Zenon
  <2> QED
    BY <1>3, <2>2, <2>3, Zenon DEF AlarmStep, Countdowns!vars
<1> QED
  BY <1>4, <1>5

\* The first timer of the sequence that is in E.
LEMMA FirstSelected ==
  ASSUME NEW a \in Seq(Timers), NEW E, NEW q \in 1..Len(a), a[q] \in E,
         \A i \in 1..Len(a) : a[i] \in E => q <= i
  PROVE  Countdowns!SelectInSeq(a, LAMBDA u : u \in E) = q
<1> DEFINE I == {i \in 1..Len(a) : a[i] \in E}
<1>1. q \in I /\ I \subseteq Nat /\ \A i \in I : q <= i
  OBVIOUS
<1>2. Countdowns!SelectInSeq(a, LAMBDA u : u \in E) = IF I # {} THEN Min(I) ELSE 0
  BY DEF Countdowns!SelectInSeq, Countdowns!Min, Min
<1>3. Min(I) \in I /\ \A y \in I : Min(I) <= y
  BY <1>1, FirstOfSet
<1>4. Min(I) = q
  <2>1. q <= Min(I) /\ Min(I) <= q /\ Min(I) \in Nat
    BY <1>1, <1>3
  <2> QED
    BY <2>1
<1> QED
  BY <1>1, <1>2, <1>4

\* Unlinking the head.
LEMMA TailDrops ==
  ASSUME NEW l \in Seq(Timers), l # <<>>
  PROVE  Dropped(Tail(l), l, 1) /\ Head(l) = l[1] /\ 1 \in 1..Len(l)
<1>1. /\ Len(l) \in Nat /\ 1 \in 1..Len(l) /\ Tail(l) \in Seq(Timers) /\ Len(Tail(l)) = Len(l) - 1
      /\ Head(l) = l[1]
  OBVIOUS
<1>2. \A j \in 1..(Len(l) - 1) : Tail(l)[j] = l[j + 1]
  BY <1>1
<1>3. \A j \in 1..(1 - 1) : FALSE
  OBVIOUS
<1> QED
  BY <1>1, <1>2, <1>3 DEF Dropped

\* timer_bh calls the oldest of the ended timers, or leaves the list.
LEMMA CallStep ==
  ASSUME ListInv, timer_bh_list
  PROVE  ListInv' /\ AlarmStep
<1>1. PICK S : Timing(list, expires, added, S)
  BY DEF ListInv, Kept
<1>2. /\ list \in Seq(Timers) /\ expires \in [Timers -> Nat] /\ Counted(S, list, expires)
      /\ Distinct(list) /\ added \in Seq(Timers) /\ Distinct(added)
      /\ \A u \in Timers : Listed(added, u) <=> Listed(list, u)
  BY <1>1, Zenon DEF Timing
<1>3. CASE Expired
  <2>1. /\ list # <<>> /\ expires[Head(list)] = 0 /\ list' = Tail(list)
        /\ added' = RemoveFirst(added, Head(list)) /\ fn' = Head(list) /\ bh_pc' = "fn"
        /\ expires' = expires /\ bh_pc = "list"
    BY <1>3 DEF timer_bh_list, Expired
  <2>2. Dropped(list', list, 1) /\ Head(list) = list[1] /\ 1 \in 1..Len(list)
    BY <1>2, <2>1, TailDrops, Zenon
  <2>3. PICK h \in Timers : h = list[1] /\ h = Head(list) /\ expires[h] = 0
    BY <1>2, <2>1, <2>2
  <2>4. Listed(list, h) /\ Listed(added, h)
    BY <1>2, <2>2, <2>3, Zenon DEF Listed
  <2>5. PICK q \in 1..Len(added) : added[q] = h
    BY <2>4 DEF Listed
  <2>6. added' = RemoveAt(added, q)
    <3>1. RemoveFirst(added, added[q]) = RemoveAt(added, q)
      BY <1>2, RemoveFirstIs, Zenon
    <3> QED
      BY <2>1, <2>3, <2>5, <3>1, Zenon
  <2>7. Dropped(added', added, q)
    BY <1>2, <2>6, RemoveDrops, Zenon
  <2>8. S[1] = 0
    <3>1. S[0] = 0 /\ S[1] = S[1 - 1] + expires[list[1]]
      BY <1>2, <2>2, Zenon DEF Counted
    <3> QED
      BY <2>3, <3>1
  <2>9. Rejoined(expires', list, expires, S, 1)
    <3>1. expires[list[1]] = 0 /\ expires' \in [Timers -> Nat]
      BY <1>2, <2>1, <2>3, Zenon
    <3>2. 1 < Len(list) => expires[list[1 + 1]] = expires[list[1 + 1]] + expires[list[1]]
      <4>1. 1 < Len(list) => expires[list[1 + 1]] \in Nat
        BY <1>2
      <4> QED
        BY <3>1, <4>1
    <3> QED
      BY <2>1, <2>8, <3>1, <3>2, Zenon DEF Rejoined
  <2>10. Kept(list', expires', added') /\ Ticks(list', expires') = Ticks(list, expires)
    <3>1. added[q] = list[1]
      BY <2>3, <2>5
    <3> QED
      BY <1>1, <2>2, <2>7, <2>9, <3>1, DropKeeps
  <2>11. fn' # NoTimer /\ fn = NoTimer
    <3>1. fn' # NoTimer
      BY <2>1, <2>3, BoundsAssumption
    <3>2. fn = NoTimer
      BY <2>1 DEF ListInv
    <3> QED
      BY <3>1, <3>2
  <2>12. ListInv'
    BY <2>1, <2>10, <2>11, Zenon DEF ListInv
  <2>13. PICK R : R = Ticks(list, expires)
    OBVIOUS
  <2>14. Tells(R, list, expires, S)
    BY <1>2, <2>13, TicksTell, Zenon
  <2>15. \A t : t \in Countdowns!Ended <=> Listed(added, t) /\ R[t] = 0
    <3>1. Remaining = R
      BY <2>13, RemainingIsTicks, Zenon
    <3> QED
      BY <3>1, SetIsListed, Zenon DEF Countdowns!Ended
  <2>16. added[q] \in Countdowns!Ended
    <3>1. R[list[1]] = S[1]
      BY <2>2, <2>14, Zenon DEF Tells
    <3> QED
      BY <2>3, <2>4, <2>5, <2>8, <2>15, <3>1, Zenon
  <2>17. ASSUME NEW i \in 1..Len(added), added[i] \in Countdowns!Ended PROVE q <= i
    <3>1. added[i] \in Timers
      BY <1>2
    <3>2. Listed(list, added[i]) /\ R[added[i]] = 0
      BY <1>2, <2>15, <2>17, <3>1, Zenon
    <3>3. PICK j \in 1..Len(list) : list[j] = added[i]
      BY <3>2, Zenon DEF Listed
    <3>4. S[j] = 0
      BY <2>14, <3>2, <3>3, Zenon DEF Tells
    <3>5. CASE j = 1
      <4>1. added[i] = added[q]
        BY <2>3, <2>5, <3>3, <3>5, Zenon
      <4> QED
        BY <1>2, <4>1 DEF Distinct
    <3>6. CASE j # 1
      <4>1. 1 < j
        BY <1>2, <3>6
      <4>2. Earlier(added, list[1], list[j])
        <5>1. InTurn(list, S, added)
          BY <1>1, Zenon DEF Timing
        <5> QED
          BY <2>2, <2>8, <3>4, <4>1, <5>1, Zenon DEF InTurn
      <4>3. q < i
        BY <2>3, <2>5, <3>3, <4>2, Zenon DEF Earlier
      <4> QED
        BY <4>3
    <3> QED
      BY <3>5, <3>6
  <2>18. Countdowns!SelectInSeq(added, LAMBDA u : u \in Countdowns!Ended) = q
    BY <1>2, <2>16, <2>17, FirstSelected
  <2>19. Countdowns!RemoveAt(added, q) = RemoveAt(added, q)
    BY DEF Countdowns!RemoveAt, RemoveAt
  <2>20. Countdowns!Ended # {}
    BY <2>16, Zenon
  <2>21. Remaining' = Remaining
    BY <2>10, RemainingIsTicks, Zenon
  <2>22. Countdowns!Call
    BY <2>1, <2>3, <2>5, <2>6, <2>11, <2>18, <2>19, <2>20, <2>21, Zenon DEF Countdowns!Call
  <2> QED
    BY <2>12, <2>22, Zenon DEF AlarmStep, Countdowns!Next
<1>4. CASE ~Expired
  <2>1. /\ list' = list /\ expires' = expires /\ added' = added /\ fn' = fn
        /\ bh_pc = "list" /\ bh_pc' = "table"
    BY <1>4, Zenon DEF timer_bh_list
  <2>2. ListInv'
    BY <2>1 DEF ListInv
  <2>3. Remaining' = Remaining
    BY <2>1, RemainingIsTicks, Zenon
  <2> QED
    BY <2>1, <2>2, <2>3, Zenon DEF AlarmStep, Countdowns!vars
<1> QED
  BY <1>3, <1>4

\* The steps that leave the list alone.
LEMMA OtherStep ==
  ASSUME ListInv, list' = list, expires' = expires, added' = added, fn' = fn,
         bh_pc' = "fn" <=> bh_pc = "fn"
  PROVE  ListInv' /\ AlarmStep
<1>1. ListInv'
  BY DEF ListInv
<1>2. Remaining' = Remaining
  BY RemainingIsTicks, Zenon
<1> QED
  BY <1>1, <1>2, Zenon DEF AlarmStep, Countdowns!vars

\* The function of a timer returns.
LEMMA ReturnStep ==
  ASSUME ListInv, FnReturn
  PROVE  ListInv' /\ AlarmStep
<1>1. /\ list' = list /\ expires' = expires /\ added' = added
      /\ bh_pc = "fn" /\ bh_pc' = "list" /\ fn' = NoTimer
  BY DEF FnReturn
<1>2. ListInv'
  BY <1>1 DEF ListInv
<1>3. Remaining' = Remaining
  BY <1>1, RemainingIsTicks, Zenon
<1>4. Countdowns!Return
  BY <1>1, <1>3 DEF Countdowns!Return, ListInv
<1> QED
  BY <1>2, <1>4, Zenon DEF AlarmStep, Countdowns!Next

\* Every step of TimerList is a step of Alarms or none.
LEMMA TimerStep ==
  ASSUME ListInv, [TimerNext]_timer_vars
  PROVE  ListInv' /\ AlarmStep
<1>1. CASE \E t \in Timers, n \in Delays : add_timer(t, n)
  BY <1>1, AddStep, Zenon
<1>2. CASE \E t \in Timers : del_timer(t)
  BY <1>2, DelStep, Zenon
<1>3. CASE \E i \in 0..(Slots - 1), n \in Delays : SetSlot(i, n)
  BY <1>3, OtherStep DEF SetSlot
<1>4. CASE \E i \in 0..(Slots - 1) : ClearSlot(i)
  BY <1>4, OtherStep DEF ClearSlot
<1>5. CASE do_timer_lists
  BY <1>5, TickStep, Zenon
<1>6. CASE do_bottom_half
  BY <1>6, OtherStep DEF do_bottom_half
<1>7. CASE timer_bh_list
  BY <1>7, CallStep, Zenon
<1>8. CASE FnReturn
  BY <1>8, ReturnStep, Zenon
<1>9. CASE timer_bh_table
  BY <1>9, OtherStep DEF timer_bh_table
<1>10. CASE SlotFnReturn
  BY <1>10, OtherStep DEF SlotFnReturn
<1>11. CASE UNCHANGED timer_vars
  BY <1>11, OtherStep DEF timer_vars
<1> QED
  BY <1>1, <1>2, <1>3, <1>4, <1>5, <1>6, <1>7, <1>8, <1>9, <1>10, <1>11, Zenon DEF TimerNext, timer_bh

\* Both start without a timer.
LEMMA TimerStart ==
  ASSUME init_timers
  PROVE  ListInv /\ Countdowns!Init
<1>1. list = <<>> /\ added = <<>> /\ fn = NoTimer /\ bh_pc = "off" /\ expires = [t \in Timers |-> 0]
  BY DEF init_timers
<1>2. /\ list \in Seq(Timers) /\ added \in Seq(Timers) /\ expires \in [Timers -> Nat]
      /\ Len(list) = 0 /\ Len(added) = 0
  BY <1>1
<1>3. PICK S : S = [j \in 0..0 |-> 0]
  OBVIOUS
<1>4. Counted(S, list, expires)
  BY <1>2, <1>3 DEF Counted
<1>5. /\ Distinct(list) /\ Distinct(added) /\ InTurn(list, S, added)
      /\ \A t : ~Listed(list, t) /\ ~Listed(added, t)
  BY <1>2 DEF Distinct, InTurn, Listed
<1>6. Timing(list, expires, added, S)
  BY <1>2, <1>4, <1>5, Zenon DEF Timing
<1>7. ListInv
  BY <1>1, <1>6 DEF ListInv, Kept
<1>8. Tells(Ticks(list, expires), list, expires, S)
  BY <1>2, <1>4, <1>5, TicksTell, Zenon
<1>9. Remaining = expires
  <2>1. PICK R : R = Ticks(list, expires)
    OBVIOUS
  <2>2. R \in [Timers -> Nat] /\ \A t \in Timers : R[t] = expires[t]
    BY <1>5, <1>8, <2>1, Zenon DEF Tells
  <2>3. R = expires
    BY <1>2, <2>2
  <2> QED
    BY <2>1, <2>3, RemainingIsTicks, Zenon
<1> QED
  BY <1>1, <1>7, <1>9, Zenon DEF Countdowns!Init

\* For every set of timers and every delay: the list of add_timer and
\* del_timer, whose entries count from the one before, counted down at its
\* head by do_timer and emptied by timer_bh, behaves as one countdown per
\* timer, and timers that end together are called in the order of add_timer.
THEOREM TimersImplementAlarms == TimerSpec => ImplementsAlarms
<1>1. init_timers => ListInv /\ Countdowns!Init
  BY TimerStart
<1>2. ListInv /\ [TimerNext]_timer_vars => ListInv' /\ [Countdowns!Next]_(Countdowns!vars)
  BY TimerStep DEF AlarmStep
<1> QED
  BY <1>1, <1>2, PTL DEF TimerSpec, ImplementsAlarms, Countdowns!Spec
=============================================================================
