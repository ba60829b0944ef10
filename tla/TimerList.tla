----------------------------- MODULE TimerList -----------------------------
(***************************************************************************)
(* The kernel timers of kernel/sched.c: the list next_timer of add_timer   *)
(* and del_timer, where an entry's expires counts from the entry before    *)
(* it, the older timer_table with its timer_active bits, the clock         *)
(* interrupt do_timer that counts both down, and the bottom half timer_bh  *)
(* that makes the calls.                                                   *)
(*                                                                         *)
(* add_timer, del_timer and each test-and-unlink of timer_bh run with      *)
(* interrupts off and are one step.  Everything else is interrupted by     *)
(* do_timer anywhere.  do_bottom_half never nests (intr_count), so timer   *)
(* functions run one at a time, but they and every other context may add   *)
(* and delete timers while the bottom half is under way.                   *)
(***************************************************************************)
EXTENDS Naturals, Sequences, FiniteSets, SequencesExt

CONSTANTS Timers,        \* the struct timer_list objects of the kernel
          Slots,         \* timer_table has the entries 0..Slots-1
          MaxExpires,    \* bound: the largest delay that is asked for
          NoTimer        \* no timer

ASSUME BoundsAssumption == Slots \in Nat /\ MaxExpires \in Nat /\ NoTimer \notin Timers

VARIABLES list,          \* next_timer and the entries linked behind it
          expires,       \* timer->expires; in the list, relative to the entry before
          timer_active,  \* the slots whose bit is set
          wait,          \* timer_table[i].expires - jiffies, 0 when that is past
          bh,            \* the TIMER_BH bit of bh_active
          bh_pc,         \* where timer_bh is, "off" outside it
          fn,            \* the timer whose function it is calling (fn, data), or NoTimer
          slot,          \* its index tp into timer_table
          added          \* history: the entries of the list, oldest add_timer first

timer_vars == <<list, expires, timer_active, wait, bh, bh_pc, fn, slot, added>>

Delays == 0..MaxExpires

init_timers ==
  /\ list = <<>>
  /\ expires = [t \in Timers |-> 0]
  /\ timer_active = {}
  /\ wait = [i \in 0..(Slots - 1) |-> 0]
  /\ bh = FALSE
  /\ bh_pc = "off"
  /\ fn = NoTimer
  /\ slot = 0
  /\ added = <<>>

-----------------------------------------------------------------------------
\* The ticks that timer->expires stands for when add_timer looks at entry i.
Carry(n) ==
  LET carry[i \in 1..(Len(list) + 1)] ==
        IF i = 1 THEN n ELSE carry[i - 1] - expires[list[i - 1]]
  IN carry

Place_bug(n) ==            \* >= in the test: equal timers change places
  CHOOSE i \in 1..(Len(list) + 1) :
    /\ i <= Len(list) => expires[list[i]] >= Carry(n)[i]
    /\ \A j \in 1..(i - 1) : expires[list[j]] < Carry(n)[j]

\* The entry the new timer goes in front of, Len(list) + 1 for the end.
Place(n) ==
  CHOOSE i \in 1..(Len(list) + 1) :
    /\ i <= Len(list) => expires[list[i]] > Carry(n)[i]
    /\ \A j \in 1..(i - 1) : expires[list[j]] <= Carry(n)[j]

\* The entry behind the new one counts from it from now on.
Linked(t, i, e) ==
  [u \in Timers |-> IF u = t THEN e
                    ELSE IF i <= Len(list) /\ u = list[i] THEN expires[u] - e
                    ELSE expires[u]]

\* The caller sets timer->expires to n first.  A timer is never added while
\* it is in the list: every caller deletes it or is its own function.
add_timer(t, n) ==
  /\ t \notin ToSet(list)
  /\ LET i == Place(n)
     IN /\ list' = InsertAt(list, i, t)
        /\ expires' = Linked(t, i, Carry(n)[i])
  /\ added' = Append(added, t)
  /\ UNCHANGED <<timer_active, wait, bh, bh_pc, fn, slot>>

\* The ticks to go for the entry at position i: the sum up to it.
SumTo(i) ==
  LET sum[j \in 0..Len(list)] == IF j = 0 THEN 0 ELSE sum[j - 1] + expires[list[j]]
  IN sum[i]

Position(t) == CHOOSE i \in 1..Len(list) : list[i] = t

\* The successor takes over the ticks of the deleted entry, and the deleted
\* one is left with the ticks it had to go.
Unlinked(i) ==
  [u \in Timers |-> IF u = list[i] THEN SumTo(i)
                    ELSE IF i < Len(list) /\ u = list[i + 1] THEN expires[u] + expires[list[i]]
                    ELSE expires[u]]

del_timer(t) ==
  /\ t \in ToSet(list)
  /\ list' = RemoveAt(list, Position(t))
  /\ expires' = Unlinked(Position(t))
  /\ added' = RemoveFirst(added, t)
  /\ UNCHANGED <<timer_active, wait, bh, bh_pc, fn, slot>>

\* timer_table[i].expires = jiffies + n; timer_active |= 1 << i, as the drivers do it.
SetSlot(i, n) ==
  /\ wait' = [wait EXCEPT ![i] = n]
  /\ timer_active' = timer_active \union {i}
  /\ UNCHANGED <<list, expires, bh, bh_pc, fn, slot, added>>

ClearSlot(i) ==
  /\ i \in timer_active
  /\ timer_active' = timer_active \ {i}
  /\ UNCHANGED <<list, expires, wait, bh, bh_pc, fn, slot, added>>

-----------------------------------------------------------------------------
\* jiffies++ seen from a value that is compared with it.
Down(n) == IF n = 0 THEN 0 ELSE n - 1

Due(i) == i \in timer_active /\ wait[i] = 0

\* The head counts for all: a tick that finds it at 0 is only noted in
\* lost_ticks, which nothing ever reads.
HeadTick ==
  IF list # <<>> /\ expires[Head(list)] > 0
  THEN expires' = [expires EXCEPT ![Head(list)] = @ - 1]
  ELSE UNCHANGED expires

MarkBh_head_bug ==         \* a head that was at 0 already is not reported again
  \/ \E i \in timer_active : Down(wait[i]) = 0
  \/ list # <<>> /\ expires[Head(list)] = 1

\* mark_bh(TIMER_BH): a slot is due, or the head has no ticks to go.
MarkBh ==
  \/ \E i \in timer_active : Down(wait[i]) = 0
  \/ list # <<>> /\ Down(expires[Head(list)]) = 0

do_timer_lists ==
  /\ HeadTick
  /\ wait' = [i \in 0..(Slots - 1) |-> Down(wait[i])]
  /\ bh' = (bh \/ MarkBh)
  /\ UNCHANGED <<list, timer_active, bh_pc, fn, slot, added>>

\* Entered on the way out of an interrupt or system call, if none is under way.
do_bottom_half ==
  /\ bh /\ bh_pc = "off"
  /\ bh' = FALSE
  /\ bh_pc' = "list"
  /\ UNCHANGED <<list, expires, timer_active, wait, fn, slot, added>>

\* With interrupts off: unlink the head if its time has come, else leave the loop.
Expired == list # <<>> /\ expires[Head(list)] = 0

timer_bh_list ==
  /\ bh_pc = "list"
  /\ \/ /\ Expired
        /\ list' = Tail(list)
        /\ added' = RemoveFirst(added, Head(list))
        /\ fn' = Head(list)
        /\ bh_pc' = "fn"
        /\ UNCHANGED slot
     \/ /\ ~Expired
        /\ bh_pc' = "table"
        /\ slot' = 0
        /\ UNCHANGED <<list, fn, added>>
  /\ UNCHANGED <<expires, timer_active, wait, bh>>

\* fn(data) returns; what it did to the timers are steps of their own.
FnReturn ==
  /\ bh_pc = "fn"
  /\ bh_pc' = "list"
  /\ fn' = NoTimer
  /\ UNCHANGED <<list, expires, timer_active, wait, bh, slot, added>>

timer_bh_table ==
  /\ bh_pc = "table"
  /\ \/ /\ \A i \in timer_active : i < slot        \* mask > timer_active, or no mask left
        /\ bh_pc' = "off"
        /\ slot' = 0
        /\ UNCHANGED timer_active
     \/ /\ \E i \in timer_active : i >= slot
        /\ ~Due(slot)
        /\ slot' = slot + 1
        /\ UNCHANGED <<bh_pc, timer_active>>
     \/ /\ Due(slot)
        /\ timer_active' = timer_active \ {slot}
        /\ bh_pc' = "slot_fn"
        /\ UNCHANGED slot
  /\ UNCHANGED <<list, expires, wait, bh, fn, added>>

SlotFnReturn ==
  /\ bh_pc = "slot_fn"
  /\ bh_pc' = "table"
  /\ slot' = slot + 1
  /\ UNCHANGED <<list, expires, timer_active, wait, bh, fn, added>>

-----------------------------------------------------------------------------
timer_bh == timer_bh_list \/ FnReturn \/ timer_bh_table \/ SlotFnReturn

TimerNext ==
  \/ \E t \in Timers, n \in Delays : add_timer(t, n)
  \/ \E t \in Timers : del_timer(t)
  \/ \E i \in 0..(Slots - 1), n \in Delays : SetSlot(i, n)
  \/ \E i \in 0..(Slots - 1) : ClearSlot(i)
  \/ do_timer_lists
  \/ do_bottom_half
  \/ timer_bh

TimerSpec == init_timers /\ [][TimerNext]_timer_vars

\* The clock keeps interrupting, a marked bottom half is entered on the way
\* out of an interrupt, and the functions it calls return.
FairTimerSpec ==
  /\ TimerSpec
  /\ WF_timer_vars(do_timer_lists)
  /\ WF_timer_vars(do_bottom_half)
  /\ WF_timer_vars(timer_bh)

-----------------------------------------------------------------------------
(***************************************************************************)
(* Properties                                                              *)
(***************************************************************************)

Remaining == [t \in Timers |-> IF t \in ToSet(list) THEN SumTo(Position(t)) ELSE expires[t]]

\* The relative list of add_timer, del_timer, do_timer and timer_bh behaves
\* as one countdown per timer, and ended timers are called in the order in
\* which they were added (specification Alarms).
Countdowns == INSTANCE Alarms WITH remaining <- Remaining, None <- NoTimer

ImplementsAlarms == Countdowns!Spec

\* A timer that reached the head of the list with no ticks to go is called or
\* deleted, also if every tick until then is lost and more timers are added
\* with no delay.
ExpiredIsCalled ==
  \A t \in Timers : (t \in ToSet(list) /\ SumTo(Position(t)) = 0) ~> t \notin ToSet(list)

\* Provided the functions of the list let timer_bh get past it, a due slot of
\* timer_table is called, switched off or set again, although timer_bh may
\* have passed it in its scan or be in another call when it falls due.
DueSlotIsCalled ==
  []<>(bh_pc = "off") => \A i \in 0..(Slots - 1) : Due(i) ~> ~Due(i)

\* Nothing that is due is forgotten: both of these.
DueIsCalled == ExpiredIsCalled /\ DueSlotIsCalled
=============================================================================
