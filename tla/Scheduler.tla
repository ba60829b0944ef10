----------------------------- MODULE Scheduler -----------------------------
(***************************************************************************)
(* The scheduler of kernel/sched.c: schedule() with its walk over the task *)
(* list (interval timers, signals, timeouts), the choice by counter and    *)
(* the recalculation of the counters; the clock interrupt do_timer;        *)
(* wake_up and send_sig, which interrupts call too; and of the system      *)
(* calls those that matter to schedule(): sleeping, _setitimer and nice.   *)
(*                                                                         *)
(* There is one processor and kernel code is not preempted.  Interrupts    *)
(* may come between any two steps, also inside schedule(), whose three     *)
(* stretches are separate steps.  jiffies appears only as a distance: a    *)
(* timeout is the number of ticks until jiffies reaches it.                *)
(***************************************************************************)
EXTENDS Integers, FiniteSets

CONSTANTS NrTasks,       \* the task list without task 0 is 1..NrTasks, in this order
          Timed,         \* the tasks that use interval timers
          MaxPriority,   \* the largest priority sys_nice leaves (35 in the code)
          MaxTimeout,    \* bound: the longest timeout of a sleeping task
          MaxInterval,   \* bound: the largest it_value and it_interval of setitimer
          MaxDelay,      \* bound: clock ticks before schedule() is reached and done
          Never          \* itimer_next = ~0

Tasks == 1..NrTasks

\* init_task, task[0]: it runs when nobody else can.
Idle == 0

\* No timeout: p->timeout = 0.
None == -1

ASSUME SchedulerAssumption ==
  /\ Timed \subseteq Tasks
  /\ NrTasks \in Nat /\ MaxTimeout \in Nat /\ MaxInterval \in Nat
  /\ MaxPriority \in Nat \ {0} /\ MaxDelay \in Nat \ {0}
  /\ Never \in Nat

VARIABLES state,         \* "running" (runnable), "interruptible" or "uninterruptible"
          counter,       \* ticks left of the time slice
          priority,      \* what the slice is refilled with
          timeout,       \* ticks until jiffies reaches p->timeout, or None
          signal,        \* TRUE iff p->signal & ~p->blocked
          it_real_value, \* interval timer: ticks to go, counted as schedule() does, 0 = off
          it_real_incr,  \* its reload value
          current,       \* the task on the processor
          need_resched,
          itimer_ticks,  \* ticks since schedule() last looked at the timers
          itimer_next,   \* when it has to look at them again
          pc,            \* "run", or the stretch of schedule() current is in
          ticks,         \* the local variable of schedule(), 0 where it is dead
          left           \* history: ticks until the next alarm that setitimer asked for

vars == <<state, counter, priority, timeout, signal, it_real_value, it_real_incr,
          current, need_resched, itimer_ticks, itimer_next, pc, ticks, left>>

MaxCounter == 2 * MaxPriority

TypeOK ==
  /\ state \in [Tasks -> {"running", "interruptible", "uninterruptible"}]
  /\ counter \in [Tasks -> 0..MaxCounter]
  /\ priority \in [Tasks -> 1..MaxPriority]
  /\ timeout \in [Tasks -> None..MaxTimeout]
  /\ signal \in [Tasks -> BOOLEAN]
  /\ it_real_value \in [Tasks -> Nat]
  /\ it_real_incr \in [Tasks -> 0..MaxInterval]
  /\ current \in Tasks \union {Idle}
  /\ need_resched \in BOOLEAN
  /\ itimer_ticks \in Nat
  /\ itimer_next \in Nat
  /\ pc \in {"run", "clear", "walk", "pick"}
  /\ ticks \in Nat
  /\ left \in [Tasks -> Int]

\* The boot: every task is runnable with a full slice, task 0 has forked them.
Init ==
  /\ state = [t \in Tasks |-> "running"]
  /\ priority = [t \in Tasks |-> MaxPriority]
  /\ counter = priority
  /\ timeout = [t \in Tasks |-> None]
  /\ signal = [t \in Tasks |-> FALSE]
  /\ it_real_value = [t \in Tasks |-> 0]
  /\ it_real_incr = [t \in Tasks |-> 0]
  /\ current = Idle
  /\ need_resched = FALSE
  /\ itimer_ticks = 0
  /\ itimer_next = Never
  /\ pc = "run"
  /\ ticks = 0
  /\ left = [t \in Tasks |-> 0]

-----------------------------------------------------------------------------
\* schedule(), first stretch: cli(); ... sti(); then need_resched = 0, which
\* an interrupt can come in front of.
EnterSchedule ==
  /\ ticks' = itimer_ticks
  /\ itimer_ticks' = 0
  /\ itimer_next' = Never
  /\ pc' = "clear"

ClearResched ==
  /\ pc = "clear"
  /\ need_resched' = FALSE
  /\ pc' = "walk"
  /\ UNCHANGED <<state, counter, priority, timeout, signal, it_real_value, it_real_incr,
                 current, itimer_ticks, itimer_next, ticks, left>>

Alarm_bug(t) == ticks > 0 /\ it_real_value[t] > 0 /\ it_real_value[t] < ticks

Alarm(t) == ticks > 0 /\ it_real_value[t] > 0 /\ it_real_value[t] <= ticks

\* The do-while loop: how often it_real_incr is added.
Reloads(t) ==
  CHOOSE k \in 1..(ticks + 1) :
    /\ it_real_value[t] + k * it_real_incr[t] > ticks
    /\ \A j \in 1..(k - 1) : it_real_value[t] + j * it_real_incr[t] <= ticks

\* What the loop adds to the timer of t in one walk.
Reload(t) == IF Alarm(t) /\ it_real_incr[t] > 0 THEN Reloads(t) * it_real_incr[t] ELSE 0

Walked_bug(t) ==                 \* a timer that has not expired keeps its value
  IF ~Alarm(t) THEN it_real_value[t]
  ELSE IF it_real_incr[t] = 0 THEN 0
  ELSE it_real_value[t] + Reload(t) - ticks

Walked(t) ==
  IF ticks = 0 \/ it_real_value[t] = 0 THEN it_real_value[t]
  ELSE IF Alarm(t) /\ it_real_incr[t] = 0 THEN 0
  ELSE it_real_value[t] + Reload(t) - ticks

\* The timers that the walk compares with itimer_next: none if no tick has passed.
Armed == {t \in Tasks : ticks > 0 /\ Walked(t) > 0}

Signalled(t) == signal[t] \/ Alarm(t)

TimedOut(t) == timeout[t] = 0

Woken(t) == state[t] = "interruptible" /\ (Signalled(t) \/ TimedOut(t))

\* Second stretch: the loop over all tasks.
Walk ==
  /\ pc = "walk"
  /\ signal' = [t \in Tasks |-> Signalled(t)]
  /\ it_real_value' = [t \in Tasks |-> Walked(t)]
  /\ left' = [t \in Tasks |-> left[t] + Reload(t)]
  /\ itimer_next' = CHOOSE n \in {Never} \union {Walked(t) : t \in Armed} :
                      \A t \in Armed : n <= Walked(t)
  /\ state' = [t \in Tasks |-> IF Woken(t) THEN "running" ELSE state[t]]
  /\ timeout' = [t \in Tasks |-> IF Woken(t) /\ ~Signalled(t) THEN None ELSE timeout[t]]
  /\ pc' = "pick"
  /\ ticks' = 0
  /\ UNCHANGED <<counter, priority, it_real_incr, current, need_resched, itimer_ticks>>

Runnable == {t \in Tasks : state[t] = "running"}

\* The first task of the list with the largest counter.
Best ==
  CHOOSE t \in Runnable :
    /\ \A u \in Runnable : counter[u] <= counter[t]
    /\ \A u \in Runnable : counter[u] = counter[t] => t <= u

Refilled_bug(t) == IF state[t] = "running" THEN counter[t] ELSE counter[t] \div 2 + priority[t]

Refilled(t) == counter[t] \div 2 + priority[t]

\* Third stretch: choose, refill all slices if the best has none left, switch.
Pick ==
  /\ pc = "pick"
  /\ current' = IF Runnable = {} THEN Idle ELSE Best
  /\ counter' = IF Runnable # {} /\ counter[Best] = 0
                THEN [t \in Tasks |-> Refilled(t)]
                ELSE counter
  /\ pc' = "run"
  /\ UNCHANGED <<state, priority, timeout, signal, it_real_value, it_real_incr,
                 need_resched, itimer_ticks, itimer_next, ticks, left>>

schedule == ClearResched \/ Walk \/ Pick

-----------------------------------------------------------------------------
\* A task goes to sleep: current->timeout and current->state, then schedule().
\* The sleep is sys_pause, __sleep_on, or a driver's own.
Sleep(how, ticksToGo) ==
  /\ pc = "run" /\ current # Idle
  /\ state' = [state EXCEPT ![current] = how]
  /\ timeout' = [timeout EXCEPT ![current] = ticksToGo]
  /\ EnterSchedule
  /\ UNCHANGED <<counter, priority, signal, it_real_value, it_real_incr, current, need_resched, left>>

\* ret_from_sys_call, reached after every system call and interrupt.
MustReschedule ==
  \/ need_resched
  \/ current # Idle /\ counter[current] = 0

ret_from_sys_call ==
  /\ pc = "run" /\ MustReschedule
  /\ EnterSchedule
  /\ UNCHANGED <<state, counter, priority, timeout, signal, it_real_value, it_real_incr,
                 current, need_resched, left>>

\* The signal is taken off p->signal by do_signal on the way to user mode.
do_signal ==
  /\ pc = "run" /\ ~MustReschedule
  /\ current # Idle /\ signal[current]
  /\ signal' = [signal EXCEPT ![current] = FALSE]
  /\ UNCHANGED <<state, counter, priority, timeout, it_real_value, it_real_incr, current,
                 need_resched, itimer_ticks, itimer_next, pc, ticks, left>>

\* Task 0 does nothing but call this.
sys_idle ==
  /\ pc = "run" /\ current = Idle
  /\ need_resched' = TRUE
  /\ UNCHANGED <<state, counter, priority, timeout, signal, it_real_value, it_real_incr,
                 current, itimer_ticks, itimer_next, pc, ticks, left>>

ItimerValue_bug(j) == IF j > 0 THEN j + 1 ELSE 0

\* it_value in jiffies, as schedule() will count it: the ticks it has not yet
\* seen will be taken off, and the tick under way is not a whole one.
ItimerValue(j) == IF j > 0 THEN j + 1 + itimer_ticks ELSE 0

\* ITIMER_REAL; sys_alarm is the call with i = 0.
setitimer(j, i) ==
  /\ pc = "run" /\ current \in Timed
  /\ it_real_value' = [it_real_value EXCEPT ![current] = ItimerValue(j)]
  /\ it_real_incr' = [it_real_incr EXCEPT ![current] = i]
  /\ itimer_next' = IF j > 0 /\ ItimerValue(j) < itimer_next THEN ItimerValue(j) ELSE itimer_next
  /\ left' = [left EXCEPT ![current] = j]
  /\ UNCHANGED <<state, counter, priority, timeout, signal, current, need_resched,
                 itimer_ticks, pc, ticks>>

\* sys_nice and sys_setpriority keep the priority in its range.
sys_nice(p) ==
  /\ pc = "run" /\ current # Idle
  /\ priority' = [priority EXCEPT ![current] = p]
  /\ UNCHANGED <<state, counter, timeout, signal, it_real_value, it_real_incr, current,
                 need_resched, itimer_ticks, itimer_next, pc, ticks, left>>

-----------------------------------------------------------------------------
\* wake_up and wake_up_interruptible for one task of the queue, by current or
\* by an interrupt; task 0 has counter 0.
CurrentCounter == IF current = Idle THEN 0 ELSE counter[current]

wake_up(t) ==
  /\ state[t] # "running"
  /\ state' = [state EXCEPT ![t] = "running"]
  /\ need_resched' = (need_resched \/ counter[t] > CurrentCounter)
  /\ UNCHANGED <<counter, priority, timeout, signal, it_real_value, it_real_incr, current,
                 itimer_ticks, itimer_next, pc, ticks, left>>

\* A signal only sets its bit: the walk of schedule() wakes the task.
send_sig(t) ==
  /\ ~signal[t]
  /\ signal' = [signal EXCEPT ![t] = TRUE]
  /\ UNCHANGED <<state, counter, priority, timeout, it_real_value, it_real_incr, current,
                 need_resched, itimer_ticks, itimer_next, pc, ticks, left>>

\* --current->counter, kept at 0.
Charged(c) == IF c = 0 THEN 0 ELSE c - 1

\* Interrupts leave the kernel time to get to schedule() and through it.
do_timer ==
  /\ pc # "run" \/ MustReschedule => itimer_ticks < MaxDelay
  /\ counter' = [t \in Tasks |-> IF t = current THEN Charged(counter[t]) ELSE counter[t]]
  /\ itimer_ticks' = itimer_ticks + 1
  /\ need_resched' = \/ need_resched
                     \/ current = Idle
                     \/ Charged(CurrentCounter) = 0
                     \/ itimer_ticks' > itimer_next
  /\ timeout' = [t \in Tasks |-> IF timeout[t] > 0 THEN timeout[t] - 1 ELSE timeout[t]]
  /\ left' = [t \in Tasks |-> IF it_real_value[t] > 0 THEN left[t] - 1 ELSE left[t]]
  /\ UNCHANGED <<state, priority, signal, it_real_value, it_real_incr, current, itimer_next, pc, ticks>>

-----------------------------------------------------------------------------
Next ==
  \/ schedule
  \/ \E ticksToGo \in None..MaxTimeout : Sleep("interruptible", ticksToGo)
  \/ Sleep("uninterruptible", None)
  \/ ret_from_sys_call
  \/ do_signal
  \/ sys_idle
  \/ \E j, i \in 0..MaxInterval : setitimer(j, i)
  \/ \E p \in 1..MaxPriority : sys_nice(p)
  \/ \E t \in Tasks : wake_up(t) \/ send_sig(t)
  \/ do_timer

Spec == Init /\ [][Next]_vars

\* The clock keeps interrupting; schedule() runs to its end; every interrupt
\* and system call ends in ret_from_sys_call; task 0 keeps calling sys_idle.
\* No task has to do anything of its own accord.
FairSpec ==
  /\ Spec
  /\ WF_vars(do_timer)
  /\ WF_vars(schedule)
  /\ WF_vars(ret_from_sys_call)
  /\ WF_vars(sys_idle)

-----------------------------------------------------------------------------
(***************************************************************************)
(* Properties                                                              *)
(***************************************************************************)

\* The ticks that schedule() has fetched and not yet charged to the timers.
Fetched == IF pc \in {"clear", "walk"} THEN ticks ELSE 0

\* An interval timer that is on is exactly one tick more than what the caller
\* of setitimer still has to wait, once the ticks that schedule() has not yet
\* charged are taken off: _setitimer, do_timer and the walk agree on the time,
\* reloads do not drift.
AlarmExact ==
  \A t \in Tasks : it_real_value[t] > 0 => it_real_value[t] - itimer_ticks - Fetched = left[t] + 1

\* schedule() sends SIGALRM only when the time given to setitimer is over.
AlarmNotEarly == pc = "walk" => \A t \in Tasks : Alarm(t) => left[t] < 0

\* A runnable task gets the processor, whatever the other tasks do: sleep
\* before their slice is used up, wake each other, change their priority.
NoStarvation == \A t \in Tasks : state[t] = "running" ~> current = t

\* A task in an interruptible sleep that has a signal, or whose timeout has
\* passed, is made runnable although send_sig and do_timer wake nobody.
SleepEnds ==
  \A t \in Tasks :
    (state[t] = "interruptible" /\ (signal[t] \/ TimedOut(t))) ~> state[t] = "running"

\* What schedule() promises the tasks: both of these.
TasksRun == NoStarvation /\ SleepEnds

\* A walk moves or switches off only timers for which it sends the signal, so
\* no expiry is dropped, neither of a one-shot timer nor of several periods.
AlarmNotLost ==
  [][pc = "walk" /\ pc' = "pick" =>
       \A t \in Tasks : it_real_value[t] > 0 /\ (it_real_value'[t] = 0 \/ left'[t] # left[t])
                       => signal'[t]]_vars

\* An alarm is late by no more than the time slice of the task that runs and
\* the delay of schedule(): also when itimer_next was reset by a schedule()
\* that came in the same tick as the one before it.
AlarmPrompt ==
  \A t \in Tasks : it_real_value[t] > 0 => left[t] >= -(MaxCounter + 2 * MaxDelay)
=============================================================================
