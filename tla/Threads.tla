------------------------------ MODULE Threads ------------------------------
(***************************************************************************)
(* Kernel threads on one CPU (kernel/proc/thread.c) together with the      *)
(* scheduler and the timers they use.  One action is one stretch of code   *)
(* that no interrupt can split: a section with interrupts disabled, or the *)
(* code from one such section to the next.  pc[t] says where thread t is   *)
(* or will continue:                                                       *)
(*   run      in its entry function, free to call the kernel               *)
(*   publish  in thread_create, the new thread queued, *pthread not stored *)
(*   join     in thread_join, after its thread_suspend                     *)
(*   sleep    in thread_sleep, after its schedule                          *)
(*   destroy  in timer_destroy, at the test of timer->running              *)
(*   idle     in the loop of the idle thread                               *)
(*   scan, handler, clear, suspend   in timer_thread_func                  *)
(*   dead     after thread_finish called schedule                          *)
(*   panic    schedule returned to a zombie                                *)
(***************************************************************************)
EXTENDS Timers

CONSTANTS Idle,        \* the idle thread
          Main,        \* the first thread, which runs example()
          Seconds,     \* arguments of thread_sleep
          Usecs,       \* arguments of thread_usleep
          Delays,      \* timeouts of stand-alone timers, in jiffies
          VMM_FAILS    \* whether vmm_create may run out of memory

VARIABLES joiner,      \* thread->joiner
          retval,      \* thread->retval
          pc,          \* where the thread continues
          arg,         \* the thread or timer its kernel call is about
          ie,          \* interrupt enable bit of the thread's own code
          owner        \* who initialised a stand-alone timer and has not
                       \* destroyed it yet

threadVars == <<joiner, retval, pc, arg, ie, owner>>

vars == <<schedVars, timerVars, threadVars>>

User == Thread \ {Idle, TimerThread}

ASSUME ThreadsAssumption ==
  /\ Idle \in Thread
  /\ Idle # TimerThread
  /\ Main \in User
  /\ Seconds \subseteq Nat
  /\ Usecs \subseteq Nat
  /\ Delays \subseteq UInt
  /\ VMM_FAILS \in BOOLEAN

Result == "result"     \* any value passed to thread_finish, as by thread_stub

Location == {"none", "run", "publish", "join", "sleep", "destroy", "idle",
             "scan", "handler", "clear", "suspend", "dead", "panic"}

TypeOK ==
  /\ runnable \in Seq(Thread)
  /\ current \in Thread
  /\ state \in [Thread -> ThreadState]
  /\ ticked \in BOOLEAN
  /\ jiffies \in UInt
  /\ timers \in Seq(Timer)
  /\ timeout \in [Timer -> UInt]
  /\ expires \in [Timer -> UInt]
  /\ running \in [Timer -> BOOLEAN]
  /\ expired \in Timer \cup {NULL}
  /\ joiner \in [Thread -> Thread \cup {NULL}]
  /\ retval \in [Thread -> {NULL, Result}]
  /\ pc \in [Thread -> Location]
  /\ arg \in [Thread -> Timer \cup {NULL}]
  /\ ie \in [Thread -> BOOLEAN]
  /\ owner \in [KTimer -> Thread \cup {NULL}]

(***************************************************************************)
(* bsp_start has created the timer thread, the idle thread and the main    *)
(* thread, in this order, and switched to the last one.                    *)
(***************************************************************************)
Init ==
  /\ runnable = sched_insert(sched_insert(sched_insert(scheduler_init, TimerThread), Idle), Main)
  /\ current = Main
  /\ state = [t \in Thread |-> IF t = Main THEN "RUNNING"
                               ELSE IF t \in User THEN "FREE" ELSE "READY"]
  /\ ticked = FALSE
  /\ timers_init
  /\ joiner = [t \in Thread |-> NULL]
  /\ retval = [t \in Thread |-> NULL]
  /\ pc = [t \in Thread |-> IF t = Main THEN "run"
                            ELSE IF t = Idle THEN "idle"
                            ELSE IF t = TimerThread THEN "scan" ELSE "none"]
  /\ arg = [t \in Thread |-> NULL]
  /\ ie = [t \in Thread |-> TRUE]
  /\ owner = [k \in KTimer |-> NULL]

(* The current thread runs its own code and may call the kernel. *)
UserCode == current \in User /\ pc[current] = "run"

(* A handle that a caller can hold: the structure exists and thread_create *)
(* has stored the pointer to it.                                           *)
Published(t) ==
  /\ t \in User
  /\ state[t] # "FREE"
  /\ \A u \in Thread : ~(pc[u] = "publish" /\ arg[u] = t)

(* A section that is never closed; in all other actions it is closed by    *)
(* conditionally_enable_interrupts within the action, or by the context    *)
(* that schedule continues.                                                *)
query_and_disable_interrupts == ie' = [ie EXCEPT ![current] = FALSE]

(* The current thread leaves the run queue. *)
Leave == sched_remove(runnable, current)

Become(s) == [state EXCEPT ![current] = s]

Goto(l) == pc' = [pc EXCEPT ![current] = l]

SetArg(a) == arg' = [arg EXCEPT ![current] = a]

-----------------------------------------------------------------------------
(***************************************************************************)
(* thread_create.  When vmm_create fails the function returns from inside  *)
(* the section without restoring the interrupt state; when malloc fails it *)
(* changes nothing.  The new structure is private up to sched_insert.      *)
(***************************************************************************)
thread_create(t) ==
  /\ UserCode
  /\ t \in User
  /\ state[t] = "FREE"
  /\ state' = [state EXCEPT ![t] = "READY"]
  /\ runnable' = sched_insert(runnable, t)
  /\ joiner' = [joiner EXCEPT ![t] = NULL]
  /\ retval' = [retval EXCEPT ![t] = NULL]
  /\ pc' = [pc EXCEPT ![t] = "run", ![current] = "publish"]
  /\ arg' = [arg EXCEPT ![current] = t]
  /\ ie' = [ie EXCEPT ![t] = TRUE]
  /\ UNCHANGED <<current, ticked, timerVars, owner>>

thread_create_no_vmm ==
  /\ UserCode
  /\ VMM_FAILS
  /\ \E t \in User : state[t] = "FREE"
  /\ query_and_disable_interrupts
  /\ UNCHANGED <<schedVars, timerVars, joiner, retval, pc, arg, owner>>

thread_create_no_memory ==
  /\ UserCode
  /\ \A t \in User : state[t] # "FREE"
  /\ UNCHANGED vars

(* The store to *pthread after sched_insert. *)
thread_create_publish ==
  /\ current \in User
  /\ pc[current] = "publish"
  /\ Goto("run")
  /\ SetArg(NULL)
  /\ UNCHANGED <<schedVars, timerVars, joiner, retval, ie, owner>>

thread_yield ==
  /\ UserCode
  /\ schedule(runnable, state)
  /\ UNCHANGED <<timerVars, threadVars>>

(* The body of the idle thread's loop. *)
idle ==
  /\ current = Idle
  /\ schedule(runnable, state)
  /\ UNCHANGED <<timerVars, threadVars>>

thread_suspend ==
  /\ UserCode
  /\ schedule(Leave, Become("SLEEPING"))
  /\ UNCHANGED <<timerVars, threadVars>>

(* thread_wakeup by a thread that knows t to wait in thread_suspend or     *)
(* thread_sleep, or that wakes it needlessly; thread_join takes for        *)
(* granted that nobody does this to a joining thread.                      *)
thread_wakeup(t) ==
  /\ UserCode
  /\ Published(t)
  /\ pc[t] # "join"
  /\ runnable' = WakeQueue(runnable, state, t)
  /\ state' = WakeState(state, t)
  /\ UNCHANGED <<current, ticked, timerVars, threadVars>>

(***************************************************************************)
(* thread_sleep and thread_usleep up to schedule.  The timer is the one    *)
(* embedded in the current thread.                                         *)
(***************************************************************************)
Sleep(delay) ==
  /\ UserCode
  /\ InUptime(delay)
  /\ timer_init_jiffies(current, delay)
  /\ timer_start(current, delay)
  /\ Goto("sleep")
  /\ schedule(Leave, Become("SLEEPING"))
  /\ UNCHANGED <<jiffies, expired, joiner, retval, arg, ie, owner>>

thread_sleep(sec) == Sleep(sec_to_jiffies(sec))

thread_usleep(usec) == Sleep(usec_to_jiffies(usec))

(***************************************************************************)
(* timer_destroy, called with the timer pending, running or neither.  A    *)
(* pending timer is removed; while the handler runs the caller yields in a *)
(* loop, with interrupts disabled for itself; once it does not run, a      *)
(* timer that its handler has started again is removed too.  The fields of *)
(* a destroyed timer are dead and are held at 0.                           *)
(***************************************************************************)
timer_destroy(timer) ==
  /\ timer_remove(timer)
  /\ Goto("destroy")
  /\ SetArg(timer)
  /\ UNCHANGED <<jiffies, timeout, expires, running, expired>>

timer_destroy_wait ==
  /\ pc[current] = "destroy"
  /\ running[arg[current]]
  /\ schedule(runnable, state)
  /\ UNCHANGED <<timerVars, threadVars>>

(* Mutant: no waiting for the handler. *)
timer_destroy_done_early ==
  /\ pc[current] = "destroy"
  /\ timer_remove(arg[current])
  /\ timeout' = [timeout EXCEPT ![arg[current]] = 0]
  /\ expires' = [expires EXCEPT ![arg[current]] = 0]
  /\ owner' = [k \in KTimer |-> IF k = arg[current] THEN NULL ELSE owner[k]]
  /\ Goto("run")
  /\ SetArg(NULL)
  /\ UNCHANGED <<schedVars, jiffies, running, expired, joiner, retval, ie>>

(* Mutant: a timer that its handler started again stays on the list. *)
timer_destroy_done_once ==
  /\ pc[current] = "destroy"
  /\ ~running[arg[current]]
  /\ owner' = [k \in KTimer |-> IF k = arg[current] THEN NULL ELSE owner[k]]
  /\ Goto("run")
  /\ SetArg(NULL)
  /\ UNCHANGED <<schedVars, timerVars, joiner, retval, ie>>

timer_destroy_done ==
  /\ pc[current] = "destroy"
  /\ ~running[arg[current]]
  /\ timer_remove(arg[current])
  /\ timeout' = [timeout EXCEPT ![arg[current]] = 0]
  /\ expires' = [expires EXCEPT ![arg[current]] = 0]
  /\ owner' = [k \in KTimer |-> IF k = arg[current] THEN NULL ELSE owner[k]]
  /\ Goto("run")
  /\ SetArg(NULL)
  /\ UNCHANGED <<schedVars, jiffies, running, expired, joiner, retval, ie>>

(* thread_sleep after schedule. *)
thread_sleep_woken ==
  /\ pc[current] = "sleep"
  /\ timer_destroy(current)
  /\ UNCHANGED <<schedVars, joiner, retval, ie, owner>>

(* A stand-alone timer: initialised, started and destroyed by one thread. *)
ktimer_init(k, delay) ==
  /\ UserCode
  /\ owner[k] = NULL
  /\ owner' = [owner EXCEPT ![k] = current]
  /\ timer_init_jiffies(k, delay)
  /\ UNCHANGED <<schedVars, jiffies, timers, expires, expired,
                 joiner, retval, pc, arg, ie>>

ktimer_start(k) ==
  /\ UserCode
  /\ owner[k] = current
  /\ ~timer_pending(k)
  /\ ~running[k]
  /\ InUptime(timeout[k])
  /\ timer_start(k, timeout[k])
  /\ UNCHANGED <<schedVars, jiffies, timeout, running, expired, threadVars>>

ktimer_destroy(k) ==
  /\ UserCode
  /\ owner[k] = current
  /\ timer_destroy(k)
  /\ UNCHANGED <<schedVars, joiner, retval, ie, owner>>

-----------------------------------------------------------------------------
(***************************************************************************)
(* thread_finish: also reached when the entry function returns to          *)
(* thread_stub.  The thread has destroyed the timers it started.           *)
(***************************************************************************)
thread_finish_silent ==   \* mutant: the joiner is not woken
  /\ UserCode
  /\ \A k \in KTimer : owner[k] # current
  /\ retval' = [retval EXCEPT ![current] = Result]
  /\ schedule(Leave, Become("ZOMBIE"))
  /\ Goto("dead")
  /\ UNCHANGED <<timerVars, joiner, arg, ie, owner>>

thread_finish ==
  /\ UserCode
  /\ \A k \in KTimer : owner[k] # current
  /\ retval' = [retval EXCEPT ![current] = Result]
  /\ LET j   == joiner[current]
         zst == Become("ZOMBIE")
         rq  == IF j = NULL THEN Leave ELSE WakeQueue(Leave, zst, j)
         st  == IF j = NULL THEN zst ELSE WakeState(zst, j)
     IN  /\ schedule(rq, st)
         /\ Goto(IF rq = << >> THEN "panic" ELSE "dead")
  /\ UNCHANGED <<timerVars, joiner, arg, ie, owner>>

thread_can_join_twice(t) == t # current   \* mutant: a second joiner

thread_can_join_self(t) == joiner[t] = NULL   \* mutant: a thread joins itself

thread_can_join(t) == t # current /\ joiner[t] = NULL

(* thread_destroy frees the structure with the stack. *)
thread_destroy(t) ==
  /\ state' = [state EXCEPT ![t] = "FREE"]
  /\ joiner' = [joiner EXCEPT ![t] = NULL]
  /\ retval' = [retval EXCEPT ![t] = NULL]

(* thread_join of a thread that cannot be joined: EINVAL. *)
thread_join_invalid(t) ==
  /\ UserCode
  /\ Published(t)
  /\ ~thread_can_join(t)
  /\ UNCHANGED vars

(* thread_join of a zombie reaps it at once. *)
thread_join_zombie(t) ==
  /\ UserCode
  /\ Published(t)
  /\ thread_can_join(t)
  /\ state[t] = "ZOMBIE"
  /\ thread_destroy(t)
  /\ pc' = [pc EXCEPT ![t] = "none"]
  /\ UNCHANGED <<runnable, current, ticked, timerVars, arg, ie, owner>>

(* thread_join of a thread that is alive: register and suspend. *)
thread_join_wait(t) ==
  /\ UserCode
  /\ Published(t)
  /\ thread_can_join(t)
  /\ state[t] # "ZOMBIE"
  /\ joiner' = [joiner EXCEPT ![t] = current]
  /\ Goto("join")
  /\ SetArg(t)
  /\ schedule(Leave, Become("SLEEPING"))
  /\ UNCHANGED <<timerVars, retval, ie, owner>>

(* The rest of thread_join after its thread_suspend returned. *)
thread_join_reap ==
  /\ pc[current] = "join"
  /\ thread_destroy(arg[current])
  /\ pc' = [pc EXCEPT ![arg[current]] = "none", ![current] = "run"]
  /\ SetArg(NULL)
  /\ UNCHANGED <<runnable, current, ticked, timerVars, ie, owner>>

-----------------------------------------------------------------------------
(***************************************************************************)
(* The sections of timer_thread_func.                                      *)
(***************************************************************************)
timer_thread_scan ==
  /\ current = TimerThread
  /\ pc[TimerThread] = "scan"
  /\ SomeExpired
  /\ expired' = FirstExpired
  /\ timer_remove(FirstExpired)
  /\ running' = [running EXCEPT ![FirstExpired] = TRUE]
  /\ Goto("handler")
  /\ UNCHANGED <<schedVars, jiffies, timeout, expires,
                 joiner, retval, arg, ie, owner>>

timer_thread_none ==
  /\ current = TimerThread
  /\ pc[TimerThread] = "scan"
  /\ ~SomeExpired
  /\ Goto("suspend")
  /\ UNCHANGED <<schedVars, timerVars, joiner, retval, arg, ie, owner>>

(* thread_timeout_handler, the handler of a timer embedded in a thread. *)
thread_timeout_handler_lost ==   \* mutant: the sleeper is not woken
  /\ current = TimerThread
  /\ pc[TimerThread] = "handler"
  /\ expired \in Thread
  /\ Goto("clear")
  /\ UNCHANGED <<schedVars, timerVars, joiner, retval, arg, ie, owner>>

thread_timeout_handler ==
  /\ current = TimerThread
  /\ pc[TimerThread] = "handler"
  /\ expired \in Thread
  /\ runnable' = WakeQueue(runnable, state, expired)
  /\ state' = WakeState(state, expired)
  /\ Goto("clear")
  /\ UNCHANGED <<current, ticked, timerVars, joiner, retval, arg, ie, owner>>

(* The handler of a stand-alone timer, which may start the timer again. *)
ktimer_handler ==
  /\ current = TimerThread
  /\ pc[TimerThread] = "handler"
  /\ expired \in KTimer
  /\ \/ InUptime(timeout[expired]) /\ timer_start(expired, timeout[expired])
     \/ UNCHANGED <<timers, expires>>
  /\ Goto("clear")
  /\ UNCHANGED <<schedVars, jiffies, timeout, running, expired,
                 joiner, retval, arg, ie, owner>>

timer_thread_clear_flag ==   \* mutant: timer->running stays set
  /\ current = TimerThread
  /\ pc[TimerThread] = "clear"
  /\ expired' = NULL
  /\ Goto("scan")
  /\ UNCHANGED <<schedVars, jiffies, timers, timeout, expires, running,
                 joiner, retval, arg, ie, owner>>

timer_thread_clear ==
  /\ current = TimerThread
  /\ pc[TimerThread] = "clear"
  /\ running' = [running EXCEPT ![expired] = FALSE]
  /\ expired' = NULL
  /\ Goto("scan")
  /\ UNCHANGED <<schedVars, jiffies, timers, timeout, expires,
                 joiner, retval, arg, ie, owner>>

(* thread_suspend at the end of the loop; it returns to the scan. *)
timer_thread_suspend ==
  /\ current = TimerThread
  /\ pc[TimerThread] = "suspend"
  /\ Goto("scan")
  /\ schedule(Leave, Become("SLEEPING"))
  /\ UNCHANGED <<timerVars, joiner, retval, arg, ie, owner>>

sched_timer ==
  /\ jiffies' = JiffiesInc
  /\ LET woken == timers_run(jiffies') IN Preempt(woken[1], woken[2])
  /\ UNCHANGED <<timers, timeout, expires, running, expired, threadVars>>

(***************************************************************************)
(* The interrupt exception, taken wherever interrupts are enabled.  Of its *)
(* two causes the keyboard does not touch this state; the timer comes      *)
(* last, because sched_timer may switch threads.                           *)
(***************************************************************************)
interrupt ==
  /\ ie[current]
  /\ pc[current] \in {"run", "publish", "idle", "scan", "handler", "clear", "suspend"}
  /\ sched_timer

-----------------------------------------------------------------------------
(* Code of the kernel itself, which always runs on. *)
KernelStep ==
  \/ thread_create_publish
  \/ idle
  \/ thread_sleep_woken \/ timer_destroy_wait \/ timer_destroy_done
  \/ thread_join_reap
  \/ timer_thread_scan \/ timer_thread_none
  \/ thread_timeout_handler \/ ktimer_handler
  \/ timer_thread_clear \/ timer_thread_suspend

(* What the code of a thread chooses to call. *)
UserCall ==
  \/ \E t \in User : \/ thread_create(t)
                     \/ thread_wakeup(t)
                     \/ thread_join_invalid(t)
                     \/ thread_join_zombie(t)
                     \/ thread_join_wait(t)
  \/ thread_create_no_vmm
  \/ thread_create_no_memory
  \/ thread_yield
  \/ thread_suspend
  \/ \E s \in Seconds : thread_sleep(s)
  \/ \E u \in Usecs : thread_usleep(u)
  \/ \E k \in KTimer : \/ \E d \in Delays : ktimer_init(k, d)
                       \/ ktimer_start(k)
                       \/ ktimer_destroy(k)
  \/ thread_finish

Next == KernelStep \/ UserCall \/ interrupt

Spec == Init /\ [][Next]_vars

(***************************************************************************)
(* The timer keeps interrupting: a tick that finds interrupts disabled     *)
(* stays pending until they are enabled, hence strong fairness.  A thread  *)
(* that is dispatched again and again gets through the kernel code it is   *)
(* in: preemption keeps its place, and between two ticks it executes       *)
(* instructions.  Nothing is assumed about what threads call.              *)
(***************************************************************************)
Fairness ==
  /\ SF_vars(interrupt)
  /\ \A t \in Thread : SF_vars(current = t /\ KernelStep)

FairSpec == Spec /\ Fairness

-----------------------------------------------------------------------------
(***************************************************************************)
(* thread_join frees a thread only after it died and stored its result,    *)
(* "The only thing that can wake us up is the thread exitting"             *)
(* (thread.c:508): once a joining thread is off its sleep, its target is a *)
(* ZOMBIE.  A timer handler that fires late, a needless wakeup or the      *)
(* reuse of a structure would break it.                                    *)
(***************************************************************************)
JoinOnlyDead ==
  \A j \in Thread :
    pc[j] = "join" /\ state[j] # "SLEEPING" =>
      /\ state[arg[j]] = "ZOMBIE"
      /\ retval[arg[j]] = Result

(***************************************************************************)
(* No pointer the kernel will follow leads to a freed thread: not from the *)
(* run queue, the list of timers, the timer thread's expired_timer, the    *)
(* joiner field or the argument of a thread_join in progress, and the CPU  *)
(* never runs on a freed stack.                                            *)
(***************************************************************************)
NoDangling ==
  LET Alive(x) == x \in Thread => state[x] # "FREE"
  IN  /\ Alive(current)
      /\ \A i \in 1 .. Len(runnable) : Alive(runnable[i])
      /\ \A i \in 1 .. Len(timers) : Alive(timers[i])
      /\ Alive(expired)
      /\ \A t \in Thread : state[t] # "FREE" => Alive(joiner[t])
      /\ \A t \in Thread : pc[t] = "join" => Alive(arg[t])

(***************************************************************************)
(* No lost wakeup: a thread asleep in thread_sleep has its timer on the    *)
(* list, or the timer thread holds it and is about to call the handler.    *)
(***************************************************************************)
SleeperHasTimer ==
  \A t \in Thread :
    pc[t] = "sleep" /\ state[t] = "SLEEPING" =>
      timer_pending(t) \/ (expired = t /\ pc[TimerThread] = "handler")

(***************************************************************************)
(* No stale timeout: when the timer thread wakes a thread in thread_sleep, *)
(* the timer of that very sleep has expired and is off the list.  A thread *)
(* that was woken before its timeout may sleep again, with the same timer, *)
(* while the handler of its first sleep is still on its way; that handler  *)
(* must not end the second sleep.                                          *)
(***************************************************************************)
NoStaleTimeout ==
  [][\A t \in Thread :
       /\ current = TimerThread
       /\ pc[t] = "sleep" /\ state[t] = "SLEEPING" /\ state'[t] # "SLEEPING"
       => ~timer_pending(t)]_vars

(***************************************************************************)
(* What timer_destroy promises: once it has returned, the timer is neither *)
(* listed nor in the hands of the timer thread, whatever the handler did   *)
(* meanwhile, so its memory may be reused.                                 *)
(***************************************************************************)
TimerInUse(x) ==
  IF x \in KTimer THEN owner[x] # NULL
  ELSE pc[x] = "sleep" \/ (pc[x] = "destroy" /\ arg[x] = x)

DestroyedTimerUntouched ==
  \A x \in Timer : ~TimerInUse(x) => ~timer_pending(x) /\ ~running[x] /\ expired # x

(***************************************************************************)
(* "Zombie thread returned from eternity" (thread.c:457) is unreachable:   *)
(* schedule always finds a thread to run.                                  *)
(***************************************************************************)
NoPanic == \A t \in Thread : pc[t] # "panic"

(***************************************************************************)
(* Round robin with preemption starves nobody: a READY thread gets the     *)
(* CPU, even from threads that never call the kernel.                      *)
(***************************************************************************)
ReadyRuns == \A t \in Thread : state[t] = "READY" ~> current = t

(***************************************************************************)
(* thread_sleep returns: the deadline passes, the timer thread is woken,   *)
(* the handler wakes the sleeper and timer_destroy gets past the handler.  *)
(***************************************************************************)
SleepEnds == \A t \in User : pc[t] = "sleep" ~> pc[t] = "run"

(***************************************************************************)
(* timer_destroy returns: the yield in its loop lets the timer thread end  *)
(* the handler and clear the running flag, also when the handler starts    *)
(* the timer again and it expires once more before the caller looks.  The  *)
(* handler restarts the timer finitely often, since the uptime is bounded: *)
(* one that never stops can show the caller a set flag at every look.      *)
(***************************************************************************)
DestroyEnds == \A t \in User : pc[t] = "destroy" ~> pc[t] = "run"

(***************************************************************************)
(* When the thread that is being joined dies, the joining thread returns.  *)
(***************************************************************************)
JoinEnds ==
  \A t \in User :
    state[t] = "ZOMBIE" /\ joiner[t] # NULL ~> state[t] = "FREE"
-----------------------------------------------------------------------------
(***************************************************************************)
(* The inductive invariant behind the safety properties.                   *)
(***************************************************************************)

(* Which locations go with which state, for each kind of thread. *)
UserPlace(s, p, r) ==
  \/ s = "FREE" /\ p = "none"
  \/ s = "ZOMBIE" /\ p = "dead" /\ r = Result
  \/ s = "SLEEPING" /\ p \in {"run", "join", "sleep"}
  \/ /\ s \in {"READY", "RUNNING"}
     /\ p \in {"run", "publish", "join", "sleep", "destroy"}

PlaceInv ==
  /\ pc[Idle] = "idle"
  /\ state[Idle] \in {"READY", "RUNNING"}
  /\ pc[TimerThread] \in {"scan", "handler", "clear", "suspend"}
  /\ state[TimerThread] \in {"READY", "RUNNING", "SLEEPING"}
  /\ state[TimerThread] = "SLEEPING" => pc[TimerThread] = "scan"
  /\ \A t \in User : UserPlace(state[t], pc[t], retval[t])

(* The timer thread works on a timer exactly between its two sections, and *)
(* such a timer and every listed one belongs to someone.                   *)
TimerInv ==
  /\ expired # NULL <=> pc[TimerThread] \in {"handler", "clear"}
  /\ pc[TimerThread] = "handler" => ~timer_pending(expired)
  /\ \A x \in Timer : timer_pending(x) \/ expired = x => TimerInUse(x)
  /\ \A t \in Thread : pc[t] = "destroy" =>
       arg[t] = t \/ (arg[t] \in KTimer /\ owner[arg[t]] = t)

(* The joiner field and the joining thread point at each other; the thread *)
(* sleeps exactly as long as its target lives.                             *)
JoinInv ==
  /\ \A j \in Thread : pc[j] = "join" =>
       /\ arg[j] \in User
       /\ arg[j] # j
       /\ joiner[arg[j]] = j
       /\ state[arg[j]] # "FREE"
       /\ state[j] = "SLEEPING" <=> state[arg[j]] # "ZOMBIE"
  /\ \A t \in Thread : joiner[t] # NULL =>
       pc[joiner[t]] = "join" /\ arg[joiner[t]] = t

(* The invariant that every step preserves; the safety properties above    *)
(* are its consequences.                                                   *)
IInv ==
  /\ TypeOK
  /\ RunQueueExact
  /\ TimersExact
  /\ PlaceInv
  /\ TimerInv
  /\ JoinInv
  /\ SleeperHasTimer

-----------------------------------------------------------------------------
(***************************************************************************)
(* Refinement: callers of the detailed kernel see the life of a thread as  *)
(* ThreadLife describes it.                                                *)
(***************************************************************************)
LifeOf == [t \in Thread |-> IF state[t] = "FREE" THEN "none"
                            ELSE IF state[t] = "ZOMBIE" THEN "exited" ELSE "live"]

WaitsFor == [t \in Thread |-> IF pc[t] = "join" THEN arg[t] ELSE NULL]

Life == INSTANCE ThreadLife WITH Boot <- {TimerThread, Idle, Main},
                                 life <- LifeOf, waits <- WaitsFor

(* Every step of the kernel is a step of ThreadLife or changes nothing in  *)
(* it: no thread is reaped while it lives, reaped twice or joined by two.  *)
LifeSpec == Life!Spec
=============================================================================
