---------------------------- MODULE TimeCounter ----------------------------
(***************************************************************************)
(* swm::util::TimeCounter (sched-lib/auxl/time_counter.cpp): the counter   *)
(* of a request, which the threads that work on it turn on and off.  The   *)
(* operations exclude each other with a spin lock, but the clock goes on   *)
(* while one of them runs, and turn_on() and turn_off() read it twice.     *)
(***************************************************************************)
EXTENDS Integers, FiniteSets, Functions

CONSTANTS Threads,
          Free,          \* locker_ is clear
          MaxClock       \* the bound of the clock

ASSUME TimeCounterAssumption == Free \notin Threads /\ MaxClock \in Nat

VARIABLES
  clock,       \* my_clock::now()
  on,          \* the threads whose record in thread_tps_ is on
  tp,          \* the time point in each thread's record
  start,       \* start_tp_
  last,        \* last_working_tp_
  working,     \* working_time_
  idling,      \* idling_time_
  locker,      \* the thread between two readings of the clock in an operation
  \* what the counter should find, since the last reset():
  busy,        \* the time at least one thread was on
  attended,    \* the time all threads were on, added up
  held         \* the time the lock was held between two readings

records == <<on, tp>>
points == <<start, last>>
sums == <<working, idling>>
truth == <<busy, attended, held>>
vars == <<clock, records, points, sums, locker, truth>>

Init ==
  /\ clock = 0
  /\ on = {} /\ tp = [t \in Threads |-> 0]
  /\ start = clock /\ last = clock
  /\ working = 0 /\ idling = 0
  /\ locker = Free
  /\ busy = 0 /\ attended = 0 /\ held = 0

-----------------------------------------------------------------------------
\* What the operations compute, each after a slip it could contain

\* turn_on() ends an idle period if no thread was on.
First_Always == TRUE
First == on = {}

\* What a thread worked, by the record it leaves.
Worked_SinceLast(t) == clock - last
Worked(t) == clock - tp[t]

\* turn_off() begins an idle period if no thread is on any more.
Last(t) == on \ {t} = {}

Idled_Anew == clock - last
Idled == idling + (clock - last)

Noted_Never == last
Noted == clock

\* What get_times() returns, with the lock held and one reading of the clock.
Astronomical == clock - start
Idling == idling + (IF on = {} THEN clock - last ELSE 0)
Working == working + SumFunction([t \in on |-> Worked(t)])

-----------------------------------------------------------------------------
\* A thread that is on already cannot turn the counter on, one that is off cannot
\* turn it off, and reset() fails while a thread is on: those calls throw and
\* change nothing.

\* turn_on(): the thread's record, and for the first thread the lock is kept.
TurnOn(t) ==
  /\ locker = Free /\ t \notin on
  /\ on' = on \cup {t}
  /\ tp' = [tp EXCEPT ![t] = clock]
  /\ locker' = IF First THEN t ELSE Free
  /\ UNCHANGED <<clock, points, sums, truth>>

\* The first thread reads the clock again.
AddIdling(t) ==
  /\ locker = t /\ t \in on
  /\ idling' = Idled
  /\ locker' = Free
  /\ UNCHANGED <<clock, records, points, working, truth>>

\* turn_off(): the thread's record and its share of working_time_.
TurnOff(t) ==
  /\ locker = Free /\ t \in on
  /\ on' = on \ {t}
  /\ working' = working + Worked(t)
  /\ locker' = IF Last(t) THEN t ELSE Free
  /\ UNCHANGED <<clock, tp, points, idling, truth>>

\* The last thread reads the clock again.
NoteLast(t) ==
  /\ locker = t /\ t \notin on
  /\ last' = Noted
  /\ locker' = Free
  /\ UNCHANGED <<clock, records, start, sums, truth>>

Reset ==
  /\ locker = Free /\ on = {}
  /\ start' = clock /\ last' = clock
  /\ working' = 0 /\ idling' = 0
  /\ busy' = 0 /\ attended' = 0 /\ held' = 0
  /\ UNCHANGED <<clock, records, locker>>

\* A unit of time passes.
Tick ==
  /\ clock < MaxClock
  /\ clock' = clock + 1
  /\ busy' = busy + (IF on # {} THEN 1 ELSE 0)
  /\ attended' = attended + Cardinality(on)
  /\ held' = held + (IF locker # Free THEN 1 ELSE 0)
  /\ UNCHANGED <<records, points, sums, locker>>

Next ==
  \/ \E t \in Threads : TurnOn(t) \/ AddIdling(t) \/ TurnOff(t) \/ NoteLast(t)
  \/ Reset \/ Tick

Spec == Init /\ [][Next]_vars

-----------------------------------------------------------------------------
\* Properties

(* What get_times() returns as idle time and the time some thread worked make up
   the astronomical time, however turn_on(), turn_off() and the clock interleave:
   the counter is off by no more than the time its own lock was held. *)
TimesAddUp ==
  locker = Free =>
    /\ Idling + busy <= Astronomical + held
    /\ Astronomical <= Idling + busy + held

(* What get_times() returns as working time is the time of all threads, each from
   its turn_on() to its turn_off() or until now. *)
WorkingIsExact == Working = attended
=============================================================================
