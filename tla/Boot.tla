-------------------------------- MODULE Boot --------------------------------
(***************************************************************************)
(* The start of the kernel on several CPUs (kernel/head.S, main.c) and the *)
(* first thread (example.c).  CPU 0 runs bsp_start; the others wait in     *)
(* ap_start for cpu_ready, an atomic variable as AtomicVariable specifies. *)
(* Memory management has no lock, so malloc is two steps: a CPU enters and *)
(* leaves it, and what another CPU does in between counts.  Every other    *)
(* step touches data of one CPU or is one atomic operation.                *)
(***************************************************************************)
EXTENDS Naturals, Sequences, KList

CONSTANTS NCPU,    \* number of CPUs
          Short    \* CPUs on which malloc may find no memory

CPU == 0 .. NCPU - 1

ASSUME BootAssumption == NCPU \in Nat \ {0} /\ Short \subseteq CPU

VARIABLES cpu_ready,    \* how many CPUs have let their successor in
          place,        \* what each CPU executes next
          inside,       \* CPUs inside memory management
          initialised,  \* structures that are: <<what, cpu>>
          queue,        \* runnable_list[cpu]
          current,      \* current_thread[cpu]
          example,      \* where the main thread is in example ()
          halted        \* the simulator has stopped

vars == <<cpu_ready, place, inside, initialised, queue, current, example, halted>>

(* A thread is named by its role and the CPU that created it. *)
idle_thread(c) == <<"idle", c>>
timer_thread == <<"timer", 0>>
main_thread == <<"main", 0>>
thread_one == <<"one", 0>>
thread_two == <<"two", 0>>
process_thread == <<"process", 0>>
NULL == <<"null", 0>>
Wild == <<"wild", 0>>    \* what a variable of automatic storage happens to hold

Worker == {thread_one, thread_two, process_thread}
Thread == {idle_thread(c) : c \in CPU} \union {timer_thread, main_thread} \union Worker

BspPlaces == {"tlb_init", "frame_init", "heap_init", "threads_init", "scheduler_init",
              "timers_init", "create_idle", "create_main", "cpu_ready", "switch", "run"}
ApPlaces == {"wait", "tlb_init", "scheduler_init", "create_idle", "cpu_ready", "switch", "run"}

Goto(c, p) == place' = [place EXCEPT ![c] = p]

Initialise(what, c) == initialised' = initialised \union {<<what, c>>}

At(c, p) == ~halted /\ c \notin inside /\ place[c] = p

-----------------------------------------------------------------------------
(***************************************************************************)
(* Initialisation, in the order of the code.  The assembly at start sends  *)
(* CPU 0 to bsp_start and every other CPU to ap_start.                     *)
(***************************************************************************)
start == [c \in CPU |-> IF c = 0 THEN "tlb_init" ELSE "wait"]

tlb_init(c) ==
  /\ At(c, "tlb_init")
  /\ Initialise("tlb", c)
  /\ Goto(c, IF c = 0 THEN "frame_init" ELSE "scheduler_init")
  /\ UNCHANGED <<cpu_ready, inside, queue, current, example, halted>>

frame_init ==
  /\ At(0, "frame_init")
  /\ Initialise("frames", 0)
  /\ Goto(0, "heap_init")
  /\ UNCHANGED <<cpu_ready, inside, queue, current, example, halted>>

heap_init ==
  /\ At(0, "heap_init")
  /\ Initialise("heap", 0)
  /\ Goto(0, "threads_init")
  /\ UNCHANGED <<cpu_ready, inside, queue, current, example, halted>>

threads_init ==
  /\ At(0, "threads_init")
  /\ current' = [c \in CPU |-> NULL]
  /\ Initialise("threads", 0)
  /\ Goto(0, "scheduler_init")
  /\ UNCHANGED <<cpu_ready, inside, queue, example, halted>>

scheduler_init(c) ==
  /\ At(c, "scheduler_init")
  /\ queue' = [queue EXCEPT ![c] = << >>]
  /\ Initialise("queue", c)
  /\ Goto(c, IF c = 0 THEN "timers_init" ELSE "create_idle")
  /\ UNCHANGED <<cpu_ready, inside, current, example, halted>>

(* Mutant: one CPU too early. *)
ap_wait_less(c) ==
  /\ At(c, "wait")
  /\ cpu_ready + 1 >= c
  /\ Goto(c, "tlb_init")
  /\ UNCHANGED <<cpu_ready, inside, initialised, queue, current, example, halted>>

(* The loop at the beginning of ap_start. *)
ap_wait(c) ==
  /\ At(c, "wait")
  /\ cpu_ready >= c
  /\ Goto(c, "tlb_init")
  /\ UNCHANGED <<cpu_ready, inside, initialised, queue, current, example, halted>>

-----------------------------------------------------------------------------
(***************************************************************************)
(* thread_create, called by bsp_start (through timers_init, for the idle   *)
(* and for the main thread), by ap_start and by example.                   *)
(***************************************************************************)
Booting(c) == place[c] \in {"timers_init", "create_idle", "create_main"}

InExample == place[0] = "run" /\ current[0] = main_thread

Creates(c) == IF Booting(c) THEN place[c] ELSE example

NewThread(c) ==
  CASE Creates(c) = "timers_init"    -> timer_thread
    [] Creates(c) = "create_idle"    -> idle_thread(c)
    [] Creates(c) = "create_main"    -> main_thread
    [] Creates(c) = "create_one"     -> thread_one
    [] Creates(c) = "create_two"     -> thread_two
    [] Creates(c) = "create_process" -> process_thread

malloc(c) ==
  /\ ~halted /\ c \notin inside
  /\ \/ Booting(c)
     \/ c = 0 /\ InExample /\ example \in {"create_one", "create_two", "create_process"}
  /\ inside' = inside \union {c}
  /\ UNCHANGED <<cpu_ready, place, initialised, queue, current, example, halted>>

(* What the caller does after a successful thread_create. *)
Created(c) ==
  \/ /\ place[c] = "timers_init" /\ Goto(c, "create_idle")
     /\ Initialise("timers", 0) /\ UNCHANGED example
  \/ /\ place[c] = "create_idle" /\ Goto(c, IF c = 0 THEN "create_main" ELSE "cpu_ready")
     /\ UNCHANGED <<initialised, example>>
  \/ place[c] = "create_main" /\ Goto(c, "cpu_ready") /\ UNCHANGED <<initialised, example>>
  \/ /\ place[c] = "run"
     /\ example' = CASE example = "create_one" -> "create_two"
                     [] example = "create_two" -> "join_one"
                     [] example = "create_process" -> "join_process"
     /\ UNCHANGED <<place, initialised>>

(* Mutant: every thread goes to CPU 0. *)
sched_insert_first(c, t) == queue' = [queue EXCEPT ![0] = list_append(queue[0], t)]

sched_insert(c, t) == queue' = [queue EXCEPT ![c] = list_append(queue[c], t)]

thread_create(c) ==
  /\ ~halted /\ c \in inside
  /\ inside' = inside \ {c}
  /\ sched_insert(c, NewThread(c))
  /\ Created(c)
  /\ UNCHANGED <<cpu_ready, current, halted>>

(* bsp_start and example panic; ap_start does not look at the result. *)
thread_create_fails(c) ==
  /\ ~halted /\ c \in inside /\ c \in Short
  /\ inside' = inside \ {c}
  /\ IF c = 0 THEN halted' = TRUE /\ UNCHANGED place
              ELSE Goto(c, "cpu_ready") /\ UNCHANGED halted
  /\ UNCHANGED <<cpu_ready, initialised, queue, current, example>>

(* Mutant: the next CPU is not let in. *)
atomic_add_cpu_ready_bsp(c) ==
  /\ At(c, "cpu_ready")
  /\ cpu_ready' = IF c = 0 THEN cpu_ready + 1 ELSE cpu_ready
  /\ Goto(c, "switch")
  /\ UNCHANGED <<inside, initialised, queue, current, example, halted>>

atomic_add_cpu_ready(c) ==
  /\ At(c, "cpu_ready")
  /\ cpu_ready' = cpu_ready + 1
  /\ Goto(c, "switch")
  /\ UNCHANGED <<inside, initialised, queue, current, example, halted>>

(* The first thread_switch of the CPU, to the thread it has created last;  *)
(* it also enables interrupts.                                             *)
FirstThread(c) ==
  IF c = 0 THEN main_thread
  ELSE IF link_connected(queue[c], idle_thread(c)) THEN idle_thread(c) ELSE Wild

thread_switch(c) ==
  /\ At(c, "switch")
  /\ current' = [current EXCEPT ![c] = FirstThread(c)]
  /\ Goto(c, "run")
  /\ UNCHANGED <<cpu_ready, inside, initialised, queue, example, halted>>

-----------------------------------------------------------------------------
(***************************************************************************)
(* Threads.  Dispatch is schedule of the CPU's own queue.                  *)
(***************************************************************************)
Dispatch(c, q) ==
  IF q = << >> THEN queue' = [queue EXCEPT ![c] = q] /\ UNCHANGED current
  ELSE /\ queue' = [queue EXCEPT ![c] = list_rotate(q)]
       /\ current' = [current EXCEPT ![c] = Head(q)]

(* thread_yield of an idle thread, or the timer interrupt of any thread.   *)
schedule(c) ==
  /\ At(c, "run")
  /\ Dispatch(c, queue[c])
  /\ UNCHANGED <<cpu_ready, place, inside, initialised, example, halted>>

(* The timer thread has nothing to do and suspends itself. *)
thread_suspend ==
  /\ At(0, "run") /\ current[0] = timer_thread
  /\ Dispatch(0, list_remove(queue[0], timer_thread))
  /\ UNCHANGED <<cpu_ready, place, inside, initialised, example, halted>>

Joined == [join_one |-> thread_one, join_two |-> thread_two, join_process |-> process_thread]
AfterJoin == [join_one |-> "join_two", join_two |-> "create_process", join_process |-> "halt"]

(* thread_join in example, and process_join. *)
thread_join ==
  /\ At(0, "run") /\ current[0] = main_thread
  /\ example \in DOMAIN Joined
  /\ IF link_connected(queue[0], Joined[example])
     THEN Dispatch(0, list_remove(queue[0], main_thread)) /\ UNCHANGED example
     ELSE example' = AfterJoin[example] /\ UNCHANGED <<queue, current>>
  /\ UNCHANGED <<cpu_ready, place, inside, initialised, halted>>

(* A worker ends; the main thread, when it waits for it, is queued again.  *)
thread_finish ==
  /\ At(0, "run") /\ current[0] \in Worker
  /\ LET left  == list_remove(queue[0], current[0])
         waits == /\ example \in DOMAIN Joined /\ Joined[example] = current[0]
                  /\ ~link_connected(queue[0], main_thread)
     IN  Dispatch(0, IF waits THEN list_append(left, main_thread) ELSE left)
  /\ UNCHANGED <<cpu_ready, place, inside, initialised, example, halted>>

msim_halt ==
  /\ At(0, "run") /\ current[0] = main_thread /\ example = "halt"
  /\ halted' = TRUE
  /\ UNCHANGED <<cpu_ready, place, inside, initialised, queue, current, example>>

-----------------------------------------------------------------------------
(* The queues and pointers hold whatever memory held; nothing reads them   *)
(* as long as OwnQueue is true, and they are given a value here.           *)
Init ==
  /\ cpu_ready = 0
  /\ place = start
  /\ inside = {}
  /\ initialised = {}
  /\ queue = [c \in CPU |-> << >>]
  /\ current = [c \in CPU |-> NULL]
  /\ example = "create_one"
  /\ halted = FALSE

Step(c) ==
  \/ ap_wait(c) \/ tlb_init(c) \/ scheduler_init(c)
  \/ malloc(c) \/ thread_create(c) \/ thread_create_fails(c)
  \/ atomic_add_cpu_ready(c) \/ thread_switch(c) \/ schedule(c)

Step0 ==
  \/ frame_init \/ heap_init \/ threads_init
  \/ thread_suspend \/ thread_join \/ thread_finish \/ msim_halt

Next == Step0 \/ \E c \in CPU : Step(c)

Spec == Init /\ [][Next]_vars

(* Every CPU of the machine executes instructions, and malloc ends         *)
(* (MallocEnds of Heap).                                                   *)
FairSpec ==
  /\ Spec
  /\ \A c \in CPU : WF_vars(Step(c))
  /\ WF_vars(Step0)

-----------------------------------------------------------------------------
(***************************************************************************)
(* "It is critical to do this after finishing all memory allocations since *)
(* there is no synchronization (locking) of the memory management"         *)
(* (main.c:133): CPUs that are starting never meet inside malloc, and      *)
(* malloc finds frames, heap and, to queue the new thread, a run queue     *)
(* that were initialised.  Only the main thread's own allocations, which   *)
(* example () makes as soon as it runs, can meet those of a CPU that       *)
(* starts.                                                                 *)
(***************************************************************************)
MemoryOrder ==
  \A c \in inside :
    /\ {<<"frames", 0>>, <<"heap", 0>>, <<"threads", 0>>, <<"queue", c>>} \subseteq initialised
    /\ \A d \in inside : Booting(c) /\ Booting(d) => c = d

(***************************************************************************)
(* Interrupts are enabled on a CPU only when everything sched_timer reads  *)
(* is there: its run queue, from which the current thread was taken and    *)
(* which always holds its idle thread, and the list of timers.  No thread  *)
(* is in the queues of two CPUs.                                           *)
(***************************************************************************)
OwnQueue ==
  /\ \A c \in CPU : place[c] = "run" =>
       /\ {<<"tlb", c>>, <<"queue", c>>, <<"timers", 0>>} \subseteq initialised
       /\ link_connected(queue[c], current[c])
       /\ link_connected(queue[c], idle_thread(c))
  /\ \A c, d \in CPU : c # d => Items(queue[c]) \intersect Items(queue[d]) = {}
  /\ \A c \in CPU : NoRepeats(queue[c])

(***************************************************************************)
(* Every CPU comes up: each lets the next one in, unless the machine stops *)
(* because CPU 0 panics or the main thread is done.                        *)
(***************************************************************************)
CpusComeUp == \A c \in CPU : <>(halted \/ place[c] = "run")
=============================================================================
