------------------------------- MODULE Timers -------------------------------
(***************************************************************************)
(* The timer framework (kernel/time/timer.c): the list of pending timers,  *)
(* the tick that wakes the timer thread, and the sections of the timer     *)
(* thread.  Every thread control structure embeds the timer that           *)
(* thread_sleep uses; it is identified with its thread.  KTimer are the    *)
(* timers that kernel code keeps elsewhere (as in tests/basic/timer1).     *)
(***************************************************************************)
EXTENDS Sched, Time

CONSTANTS KTimer,      \* stand-alone timers
          TimerThread, \* the thread running timer_thread_func
          MAX_UPTIME   \* bound on jiffies, see Jiffies

VARIABLES jiffies,     \* kernel jiffies
          timers,      \* timers_list
          timeout,     \* timer->timeout
          expires,     \* timer->expires
          running,     \* timer->running
          expired      \* local expired_timer of timer_thread_func

timerVars == <<jiffies, timers, timeout, expires, running, expired>>

Timer == Thread \cup KTimer

ASSUME TimerAssumption ==
  /\ TimerThread \in Thread
  /\ Thread \cap KTimer = {}
  /\ NULL \notin Timer
  /\ MAX_UPTIME \in Nat

(***************************************************************************)
(* jiffies++ on unsigned int.  A MAX_UPTIME below UINT_RANGE bounds the    *)
(* uptime instead of letting the counter wrap: the clock then stops at the *)
(* bound.  The bound is also in the guards of the calls of timer_start: a  *)
(* deadline that InUptime accepts cannot tell the stopped clock from one   *)
(* that runs on, and at most MAX_UPTIME restarts of a timer have room.     *)
(***************************************************************************)
JiffiesInc == IF jiffies = MAX_UPTIME THEN jiffies ELSE uint(jiffies + 1)

InUptime(delay) == jiffies + delay < MAX_UPTIME

timers_init ==
  /\ jiffies = 0
  /\ timers = << >>
  /\ timeout = [x \in Timer |-> 0]
  /\ expires = [x \in Timer |-> 0]
  /\ running = [x \in Timer |-> FALSE]
  /\ expired = NULL

timer_pending(timer) == link_connected(timers, timer)

(* The test both scans make on a timer. *)
IsExpired(timer, now) == expires[timer] < now

(* timers_run wakes the timer thread as soon as one timer has expired. *)
timers_run_nothing(now) == <<runnable, state>>   \* mutant: no wakeup

timers_run(now) ==
  IF \E i \in 1 .. Len(timers) : IsExpired(timers[i], now)
  THEN <<WakeQueue(runnable, state, TimerThread), WakeState(state, TimerThread)>>
  ELSE <<runnable, state>>

(* The first expired timer of the list, as the scan of the timer thread    *)
(* finds it.                                                               *)
FirstExpired ==
  timers[CHOOSE i \in 1 .. Len(timers) :
           /\ IsExpired(timers[i], jiffies)
           /\ \A j \in 1 .. i - 1 : ~IsExpired(timers[j], jiffies)]

SomeExpired == \E i \in 1 .. Len(timers) : IsExpired(timers[i], jiffies)

(* timer_init_jiffies, without the handler: a timer embedded in a thread   *)
(* wakes that thread, and any other one may restart itself.                *)
timer_init_jiffies(timer, delay) ==
  /\ timeout' = [timeout EXCEPT ![timer] = delay]
  /\ running' = [running EXCEPT ![timer] = FALSE]

(* timer_start on a timer whose timeout is delay. *)
timer_start(timer, delay) ==
  /\ expires' = [expires EXCEPT ![timer] = uint(jiffies + delay)]
  /\ timers' = list_append(timers, timer)

(* timer_remove: also what timer_destroy does to a timer that is pending.  *)
timer_remove(timer) == timers' = list_remove(timers, timer)

-----------------------------------------------------------------------------
(***************************************************************************)
(* The list of timers holds no timer twice, and the running flag is set    *)
(* for exactly the timer the timer thread is working on.                   *)
(***************************************************************************)
TimersExact ==
  /\ NoRepeats(timers)
  /\ \A x \in Timer : running[x] <=> x = expired
=============================================================================
