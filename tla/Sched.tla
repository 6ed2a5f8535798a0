------------------------------- MODULE Sched -------------------------------
(***************************************************************************)
(* The scheduler of one CPU (kernel/sched/sched.c) and the thread-state    *)
(* bookkeeping it shares with kernel/proc/thread.c.                        *)
(*                                                                         *)
(* Code between query_and_disable_interrupts and                           *)
(* conditionally_enable_interrupts is atomic on the CPU, except that       *)
(* schedule() leaves the calling thread and continues another one.  The    *)
(* operators below therefore take the run queue and the thread states as   *)
(* the caller has already changed them in the same section.                *)
(***************************************************************************)
EXTENDS Naturals, Sequences, KList

CONSTANTS Thread,   \* thread control structures that malloc can hand out
          NULL      \* the null pointer

VARIABLES runnable, \* runnable_list[cpuid()]
          current,  \* current_thread[cpuid()]
          state,    \* thread->state; "FREE" is memory owned by the allocator
          ticked    \* a timer tick has arrived since the current thread was
                    \* dispatched; stands for current->scheduled

schedVars == <<runnable, current, state, ticked>>

ThreadState == {"FREE", "READY", "RUNNING", "SLEEPING", "ZOMBIE"}

(***************************************************************************)
(* thread_switch: the thread that is still RUNNING goes back to READY, the *)
(* new one becomes RUNNING.  A thread that went to sleep or died keeps the *)
(* state it gave itself.                                                   *)
(***************************************************************************)
thread_switch(st, thread) ==
  LET left == IF st[current] = "RUNNING"
              THEN [st EXCEPT ![current] = "READY"]
              ELSE st
  IN  [left EXCEPT ![thread] = "RUNNING"]

(***************************************************************************)
(* schedule: dispatch the first thread of the run queue and move it to the *)
(* end.  With an empty queue the caller simply continues.                  *)
(***************************************************************************)
schedule(rq, st) ==
  \/ /\ rq = << >>
     /\ runnable' = rq
     /\ state' = st
     /\ UNCHANGED <<current, ticked>>
  \/ /\ rq # << >>
     /\ runnable' = list_rotate(rq)
     /\ current' = Head(rq)
     /\ state' = thread_switch(st, Head(rq))
     /\ ticked' = FALSE

scheduler_init == << >>   \* the run queue of a CPU that boots

sched_insert(rq, thread) == list_append(rq, thread)

sched_remove(rq, thread) == list_remove(rq, thread)

(***************************************************************************)
(* thread_wakeup: only a SLEEPING thread is made READY and queued.         *)
(***************************************************************************)
WakeState(st, thread) ==
  IF st[thread] = "SLEEPING" THEN [st EXCEPT ![thread] = "READY"] ELSE st

(* Mutant: the wakeup forgets to look at the state. *)
WakeQueueAlways(rq, st, thread) == sched_insert(rq, thread)

WakeQueue(rq, st, thread) ==
  IF st[thread] = "SLEEPING" THEN sched_insert(rq, thread) ELSE rq

(***************************************************************************)
(* The end of sched_timer: reschedule when the current thread has run for  *)
(* THREAD_QUANTUM cycles.  Ticks are THREAD_QUANTUM apart, so at the first *)
(* tick after a dispatch the time run may fall on either side of the       *)
(* quantum, and at the second tick it is certainly over.                   *)
(***************************************************************************)
PreemptNever(rq, st) ==   \* mutant: the quantum is never over
  /\ ticked' = TRUE
  /\ runnable' = rq
  /\ state' = st
  /\ UNCHANGED current

Preempt(rq, st) ==
  \/ /\ ~ticked
     /\ ticked' = TRUE
     /\ runnable' = rq
     /\ state' = st
     /\ UNCHANGED current
  \/ schedule(rq, st)

-----------------------------------------------------------------------------
(***************************************************************************)
(* The run queue holds every READY and RUNNING thread exactly once and     *)
(* nothing else, and the only RUNNING thread is the current one: no        *)
(* sequence of wakeups, sleeps, exits and preemptions loses a thread,      *)
(* links it twice or dispatches one that sleeps, died or was freed.        *)
(***************************************************************************)
RunQueueExact ==
  /\ NoRepeats(runnable)
  /\ \A t \in Thread : t \in Items(runnable) <=> state[t] \in {"READY", "RUNNING"}
  /\ \A t \in Thread : state[t] = "RUNNING" <=> t = current
=============================================================================
