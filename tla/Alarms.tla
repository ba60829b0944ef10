------------------------------- MODULE Alarms -------------------------------
(***************************************************************************)
(* What the timer list of kernel/sched.c promises to its callers, without  *)
(* the list: every timer has its own countdown, all countdowns lose one    *)
(* per clock tick, and a countdown that has ended leads to one call, in    *)
(* the order in which the timers were added.  A tick that comes while an   *)
(* ended timer still waits for its call is lost for everybody.             *)
(***************************************************************************)
EXTENDS Naturals, Sequences, SequencesExt

CONSTANTS Timers,        \* the struct timer_list objects of the kernel
          MaxExpires,    \* bound: the largest delay that is asked for
          None           \* no timer

VARIABLES remaining,     \* ticks to go, for the timers that are set
          added,         \* the timers that are set, oldest first
          fn             \* the timer whose function is being called, or None

vars == <<remaining, added, fn>>

Set == {added[i] : i \in 1..Len(added)}

Ended == {t \in Set : remaining[t] = 0}

Init ==
  /\ remaining = [t \in Timers |-> 0]
  /\ added = <<>>
  /\ fn = None

Add(t, n) ==
  /\ t \notin Set
  /\ remaining' = [remaining EXCEPT ![t] = n]
  /\ added' = Append(added, t)
  /\ UNCHANGED fn

\* The struct keeps the ticks it had left, so that it can be added again.
Delete(t) ==
  /\ t \in Set
  /\ added' = RemoveFirst(added, t)
  /\ UNCHANGED <<remaining, fn>>

Tick ==
  /\ Set # {} /\ Ended = {}
  /\ remaining' = [t \in Timers |-> IF t \in Set THEN remaining[t] - 1 ELSE remaining[t]]
  /\ UNCHANGED <<added, fn>>

Call ==
  /\ fn = None /\ Ended # {}
  /\ LET first == SelectInSeq(added, LAMBDA t : t \in Ended)
     IN /\ fn' = added[first]
        /\ added' = RemoveAt(added, first)
  /\ UNCHANGED remaining

Return ==
  /\ fn # None
  /\ fn' = None
  /\ UNCHANGED <<remaining, added>>

Next ==
  \/ \E t \in Timers, n \in 0..MaxExpires : Add(t, n)
  \/ \E t \in Timers : Delete(t)
  \/ Tick
  \/ Call
  \/ Return

Spec == Init /\ [][Next]_vars
=============================================================================
