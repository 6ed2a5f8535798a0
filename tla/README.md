# A TLA+ verification of the Kalisto kernel

Kalisto is a small educational operating system for MIPS R4000 machines
simulated by MSIM. `kernel/` holds the kernel, `user/` a run-time library and
user-space tests. This directory holds TLA+ modules that model the kernel's own
logic, TLC configurations that check them on small instances, and theorems about
them that TLAPS checks for every value of the constants. Paths below are
relative to `src/kernel/`.

Contents: [inventory](#inventory) · [modules and the code](#modules-and-the-code)
· [runs](#runs) · [fairness](#fairness) · [proofs](#proofs)
· [findings](#findings) · [observations](#observations) · [not modelled](#not-modelled) · [plan](#plan)

## Inventory

### Parts, their state, their operations

| Part | Source | State | Operations | Correct when |
|---|---|---|---|---|
| lists | `adt/list.h` | circular doubly linked rings of embedded links | append, prepend, remove, pop, rotate, foreach | rings stay closed; walking one sees the sequence that was built |
| atomic variables | `adt/atomic.h` | a word, the hardware's link bit | get, set, test-and-set, add, post-add, sub | each takes effect in one step; retry loops end |
| red-black tree | `adt/rbtree.c`, `.h` | nodes with parent, children, colour | insert, delete, find, first, last, next, prev | search order, red-black balance, rebalancing ends |
| scheduler | `sched/sched.c` | `runnable_list`, the tick | `sched_insert`, `sched_remove`, `schedule`, `sched_timer` | the queue is exactly the runnable threads; nobody starves |
| threads | `proc/thread.c` | one control structure per thread, the current thread | create, yield, suspend, wakeup, sleep, finish, join | joins free only the dead, once; no lost wakeup; no dangling pointer |
| timers | `time/timer.c` | `timers_list`, per timer timeout/expires/running, the timer thread | init, start, destroy, `timers_run` | due timers fire; a destroyed timer is out of everybody's hands |
| time conversions | `time/time.h` | – | seconds and microseconds to jiffies and back | computed modulo 2^32 |
| heap | `mm/malloc.c` | heaps made of frames, blocks with header and footer | `malloc`, `malloc_heap`, `free` | blocks tile the heap, no overlap, no leak, nothing missed |
| memory maps | `mm/vmm.c` | areas per address space, `last_asid` | `vmm_create`, `vma_map`, `vma_unmap`, `vma_check_user` | frames are private; checks of user areas are right |
| TLB | `mm/tlb.c` | the hardware's entries, a pair of pages each | init, refill, invalid, flush | never disagrees with the maps, never matches twice |
| inter-processor messages | `drivers/dorder.c` | ring of messages, two counters | send, handle, (wait, probe: TODO) | every message is received as sent |
| printing | `lib/print.c` | a buffer of 32 characters | `printk` | the buffer suffices; the text reads back as the number |
| processes | `proc/process.c` | process and main user thread structures | create, set_retval, join | creation is all or nothing; a join waits for its own process and frees its thread |
| user threads, system calls, keyboard, mutexes, semaphores, frame allocator, bitmap | `*.obj` | | | only object files are linked |
| condition variables, recursive mutexes, rwlocks, user mutexes, disk | `synch/*.c`, `drivers/disk.c` | | | skeletons with TODOs |
| exceptions | `exc/*.c`, `head.S`, `include/asm.h` | static kernel area, frames on the stacks, coprocessor registers | handlers, context switch, jump to user space | whatever was interrupted continues as it was left |
| boot | `main.c`, `example.c` | `cpu_ready`, run queues and current threads of all CPUs | `bsp_start`, `ap_start`, the first threads | CPUs start one after the other; everything is initialised before it is used |

### How the parts interact

The kernel protects its data by disabling the interrupts of the CPU it runs on:
code between `query_and_disable_interrupts` and `conditionally_enable_interrupts`
is atomic there, except where it calls `schedule`. So the grain of the models is
the section with interrupts disabled, cut at every `schedule`.

* Threads call the scheduler (`sched_insert`, `sched_remove`, `schedule`); the
  timer interrupt calls `sched_timer`, which advances `jiffies`, lets
  `timers_run` wake the timer thread and preempts the current thread when its
  quantum is over.
* `thread_sleep` starts the timer embedded in the thread and suspends it; the
  timer thread calls the handler, which is `thread_wakeup`, outside of the
  section that found the timer; the sleeper then calls `timer_destroy`, which
  waits for a running handler by yielding.
* `thread_finish` wakes the joiner; `thread_join` frees the thread.
* `thread_create` allocates from the heap and creates or shares a memory map;
  `thread_switch` puts the map's identifier into the hardware; TLB exceptions
  look pages up in the map of the current thread; `vma_unmap` flushes the TLB.
* `malloc` gets frames from the frame allocator and gives them back; so do the
  memory maps.
* An exception saves the interrupted context on the current stack, which is the
  user stack while a program runs, and so may itself miss in the TLB; the refill
  handler has its own save area. `schedule`, called in a handler or a system
  call, leaves the context there and switches to another thread's.
* `process_create` starts a kernel thread that maps the program, becomes the
  main user thread and jumps to user space; `process_join` joins that thread.
* CPU 0 initialises the kernel and lets CPU 1 in through `cpu_ready`; each CPU
  lets the next one in.
* Run queue, timer list, wait queues and the list of heaps are `list.h` lists.

### What is hard to test here

Interleavings that need a timer tick at one particular instruction: between the
last scan of the timer thread and its suspension, between the call of a handler
and the clearing of `running`, between `sched_insert` of a new thread and the
store of its handle. Counters that wrap after months. Long sequences of legal
calls: fragmentation of the heap, reuse of thread structures and frames while
the TLB still knows them, shapes of trees. Retries on several CPUs. TLB misses
inside exception handlers, exceptions nested in system calls, switches in between.
The start of CPUs that share memory without a lock. The list
with lines is under `hazards` in `PROJECT.json`, with the properties that would
catch each one going wrong.

## Modules and the code

| Module | Models | Composition |
|---|---|---|
| `KList` | lists as sequences, as the other modules use them | |
| `Lists` | abstract: what `list.h` promises | |
| `LinkedList` | `list.h`, pointer by pointer | implements `Lists` (`ListsSpec`) |
| `Time` | `time.h`, arithmetic modulo `UINT_RANGE` | |
| `Sched` | `sched.c`: run queue, `schedule`, `thread_switch`, wakeup, preemption | extends `KList` |
| `Timers` | `timer.c` | extends `Sched`, `Time` |
| `Threads` | `thread.c`, and composes the three | implements `ThreadLife` (`LifeSpec`) |
| `ThreadLife` | abstract: create, exit, wait, reap | |
| `Heap` | `malloc.c` | implements `Allocator` (`AllocatorSpec`) |
| `Allocator` | abstract: aligned, disjoint, large enough, stays until freed | |
| `AddressSpaces` | `vmm.c` and `tlb.c` together | |
| `RBTree` | `rbtree.c`, `rbtree.h` | |
| `Atomics` | `atomic.h` | implements `AtomicVariable` (`AtomicSpec`) |
| `AtomicVariable` | abstract: each operation in one step, with the value the code leaves | |
| `Exceptions` | `head.S`, `asm.h`, `exc.c`, the switch and the jump to user space | |
| `Processes` | `process.c` | uses `ThreadLife` for threads |
| `Boot` | `main.c`, `example.c`, several CPUs | uses `KList` |
| `ThreadsProofs`, `LinkedListProofs`, `AtomicsProofs`, `BootProofs`, `AddressSpacesProofs`, `ProcessesProofs`, `ExceptionsProofs`, `HeapProofs` | theorems | extend the above |
| `MC*` | the instances for TLC | |

**Threads.** `state`, `joiner`, `retval` are fields of the control structure;
`FREE` marks a structure that malloc has not handed out, so that reuse of memory
is reuse of the identity. `runnable` is the run queue, whose head is *not* the
current thread but the next one: `schedule` rotates. `pc` says at which
`schedule` or between which two sections a thread stands. `ticked` stands for
the comparison of CPU cycles with the quantum: ticks are one quantum apart, so
at the first tick after a dispatch the time run may be on either side of it and
at the second it is over. The timer in a thread is identified with the thread;
`KTimer` are timers elsewhere, with a handler that may start the timer again.
`expired` is the local variable of the timer thread. User code is arbitrary: a
thread in `run` makes any legal call at any time. The timer `interrupt` comes
wherever a thread runs with interrupts enabled. `thread_sleep` and
`thread_usleep` differ only in the conversion (`Sleep`). Legal excludes what the code
leaves to its callers: waking a thread that is in `thread_join`
(`thread.c:508`), using a handle after a join, touching somebody else's timer.

**Heap.** Addresses are numbers, `head` maps the address of each block to its
header, `foot` the address behind it to its footer, so that splitting and merging
really read the tags. One step of the scan is one action. `frame_alloc` is
external: any free run of frames.

**AddressSpaces.** `vma` are the slots of the maps, `tlb` the entries, each with
two halves. A touch of an unmapped or not loaded page is `wrapped_tlb_refill` or
`wrapped_general`, which calls `tlb_invalid`. `vmm.c:27` documents limits that no
code enforces: overlapping areas and pages above the automatic limit are
excluded by guards, more address spaces than identifiers by the size of `Space`
(`FewSpaces` in the proofs).

**RBTree.** One iteration of a rebalancing loop is one action, the mirrored
halves of the code are one definition with the side as a parameter. Walking and
searching are recursive functions that are compared with the order of the keys.

**LinkedList.** An operation is a composition of assignments in the order of the
code, so that a pointer is read before or after it is changed as it is there.

**Atomics.** One action per access to the variable. The link bit is the
hardware's: set by `ll`, cleared by a store of another CPU and by the return
from an exception.

**Exceptions.** One CPU. What a register or a saved register holds is
abstracted to the piece of code it belongs to, a thread at a nesting level;
`work` records what each one left off with, and `ResumesOwn` compares. The
handlers are cut at every block of stack accesses, because those may miss: a
`StackMiss` goes to `handle_tlb_refill`, or to `handle_general` when EXL is set,
as the hardware does it. `area` and `frame` are the two parts of the static
kernel area, `stack` the memory of the stacks, reached through the TLB for a
user stack. A user stack is one page alone in its TLB entry (`process.h:28`).
The C code of a handler does one abstract piece of work between `MoveStaticArea`
and `Return`; in a system call interrupts may be enabled and disabled and
user memory accessed at any time. Left out: the `memcpy` of the program by
`process_stub`, which touches user memory from a kernel stack. The stores of `cpu_switch_context` go to
the one page of the running thread's stack, which is in the TLB, so only its loads
can miss in the model.

**Processes.** The structures in `heap` are reused, so that a pointer kept too
long leads to another process. Every allocation, `thread_create` and both
mappings of `process_stub` may fail. A program ends with `sys_exit` or is killed
without a return value. The thread operations are those `ThreadLife` promises
and `Threads` implements.

**Boot.** `place` is what a CPU executes next, `initialised` which structures
exist. `malloc` is entered and left in two steps, so that two CPUs in it at the
same time is a state. Preemption is `schedule` at any time once a CPU runs
threads. `disk_init` is empty.

## Runs

| Run | Instance | Shows |
|---|---|---|
| `threads_join` | 2 user threads besides main, sleeps of one tick, clock modulo 2 | `RunQueueExact`, `JoinOnlyDead`, `NoDangling`, and `LifeSpec`: refinement of `ThreadLife` |
| `threads_timers` | 1 user thread besides main, a stand-alone timer, failing `vmm_create`, clock modulo 3 | `SleeperHasTimer`, `DestroyedTimerUntouched`, `NoStaleTimeout` |
| `threads_liveness` | 1 user thread besides main, sleeps of two ticks, a stand-alone timer that its handler starts again, bounded uptime, fair | `ReadyRuns`, `SleepEnds`, `JoinEnds`, `DestroyEnds` |
| `heap` | 2 frames, requests of 1, 4 and more than a frame, fair | `Tiled`, `Coalesced`, `FramesExact`, `ScanMissesNothing`, `MallocEnds`, and `AllocatorSpec`: refinement of `Allocator` |
| `address_spaces` | 2 spaces, 4 pages, 3 frames, 2 TLB entries | `TLBCoherent`, `NoDoubleMatch`, `FramesPrivate`, `CheckUserSound` |
| `rbtree` | 7 nodes, fair | `SearchTree`, `WalksInOrder`, `RedBlack`, `DeleteAsserts`, `RebalancingEnds` |
| `linked_list` | 2 lists, 4 items | `RingsIntact`, and `ListsSpec`: refinement of `Lists` |
| `atomics` | 2 CPUs, values modulo 3, 2 exceptions, fair | `LockFree`, and `AtomicSpec`: refinement of `AtomicVariable` |
| `exceptions` | 2 user threads, 1 kernel thread, nesting up to 2, fair | `ResumesOwn`, `ContextsOnStack`, `StackPrivate`, `HandlersEnd` |
| `exceptions_kill` | the same, without the restriction on `RefillKill` | expected violation of `ResumesOwn`, see [findings](#findings) |
| `processes` | 2 creating and joining threads, 2 processes, fair | `JoinsOwn`, `NoLeaks`, `JoinedIsReaped` |
| `boot` | 3 CPUs, CPU 0 may run out of memory, fair | `MemoryOrder`, `OwnQueue`, `CpusComeUp` |

Type invariants are part of `Tiled`, `FramesPrivate`, `SearchTree` and `NoLeaks`;
for the modules with a proof module they are part of what is proved. The asserts of `free`
are part of `Tiled`, the bounds on rotations of `RedBlack`.

Every property of a passing run has a mutant: a plausible mistake in one mapped
definition that makes TLC report the property. The mutants are the definitions
marked as such in the modules.

### Bounds and why they are enough

* *Threads.* Two threads besides main allow two joiners of one thread, joins in
  a chain and a wakeup by a third party. A clock modulo 2 or 3 wraps within
  a few ticks, so every order of deadlines around the wrap happens. `MAX_UPTIME`
  above `UINT_RANGE` means no bound; below it the clock stops there and calls
  whose deadline lies behind it are excluded. The liveness run uses that, since
  across the wrap `SleepEnds` is false (observation 3). Its stand-alone timer has
  a timeout of 0 jiffies and so expires with the next tick: started at 0, it can
  expire at 1, be started again by its handler at 2, after `timer_destroy` was
  called, and expire once more at 3 while `timer_destroy` still waits; that takes
  three ticks, hence the bound of 3. Without the bound there is no end of restarts, and
  `DestroyEnds` is false (observation 13). The last three liveness properties are
  about user threads; the idle and the timer thread never sleep or join.
* *Heap.* A frame holds up to three blocks and a request can be larger than a
  frame, so that splitting, exact fits, both merges, heaps of two frames,
  exhaustion and release all occur. The heap structure, header and footer are
  one alignment unit each.
* *AddressSpaces.* Areas of one and two pages in four pages put both halves of
  an entry, half-mapped entries and neighbouring areas in reach; two entries
  make replacement necessary; three frames make reuse immediate. Pages of two
  bytes give eight addresses, and `CheckUserSound` takes every address with every
  size, so also every sum that wraps.
* *RBTree.* Seven nodes are the smallest number with which deletion reaches all
  its cases at an inner level of the tree.
* *Exceptions.* Two levels of nesting are an interrupt or a TLB exception inside
  a system call, the deepest the kernel's own code is written for; a third level
  repeats the second. Two user threads make the wrong address space and the
  wrong stack possible, the kernel thread is one whose stack never misses.
* *Processes.* Two creators and two structures of each kind: reuse of one
  process's memory by the other while a call is between its sections, and two
  joins.
* *Boot.* Three CPUs: one that was let in by another application processor. The
  theorems about `MemoryOrder` and `OwnQueue` cover any number. The machine halts at the end of
  the program or in a panic, so deadlock is not checked.
* *Atomics.* Two CPUs and two exceptions: a CPU fails because of the other and
  because of an exception in the same loop. Modulo 3, addition and subtraction
  wrap.

`SYMMETRY` is used only in safety runs and only for the interchangeable user
threads. It is not used with liveness.

## Fairness

* `Threads`: strong fairness of the timer tick, since a tick that finds
  interrupts disabled stays pending in the Cause register until they are
  enabled; strong fairness, per thread, of the kernel code it is in, since a
  thread that is dispatched again and again executes instructions between two
  ticks and preemption keeps its place. Nothing is assumed about what threads
  call, in particular not that they ever call anything.
* `Heap`, `RBTree`: weak fairness of the loop that is running; it runs with
  interrupts disabled or in one thread, so it keeps executing.
* `Atomics`: weak fairness of every CPU's next instruction. Exceptions are
  finite in number (`EXCEPTIONS`): with an exception in every iteration a loop of
  `ll` and `sc` cannot end, on the real machine either.
* `Exceptions`: weak fairness of the handlers: a CPU executes its next
  instruction. Nothing is assumed about programs and C code.
* `Processes`: weak fairness of `store` and of the steps of a join, since every
  ready thread runs again (`ReadyRuns`). A program need not end.
* `Boot`: weak fairness of every CPU's own steps; `malloc` ends (`MallocEnds`).

## Proofs

All theorems hold for every value of the constants that satisfies the named
assumptions (`TimeAssumption`, `TimerAssumption`, `ThreadsAssumption`,
`LinkAssumption`, `FiniteAssumption`, `AtomicsAssumption`, `BootAssumption`,
`SpaceAssumption`, `ProcessesAssumption`, `ExceptionsAssumption`,
`HeapAssumption`): any number of threads, timers, lists, items, CPUs, address
spaces, pages, frames, TLB entries and processes, any clock width, any depth of
nesting, any size of frames, tags and requests. Where a theorem has a hypothesis of its own,
the code is wrong or undocumented beyond it, and the text says where.

**Threads** (`ThreadsProofs`). `Invariance` proves `Spec => []IInv`; the others
are consequences: `TypeCorrect`, `RunQueueCorrect`, `JoinCorrect`,
`PointersCorrect`, `SleepCorrect`, `DestroyCorrect`, `PanicUnreachable`, and
`TimeoutCorrect` for the action property `NoStaleTimeout`, which needs of `IInv`
that a timer in the hands of the timer thread is not on the list.
`JoinOnlyDead` is not inductive: that a joiner which is not asleep has a dead
target depends on nobody else waking it, hence on no late timer handler, hence
on `timer_destroy` having waited. `IInv` has these parts:

* `RunQueueExact`, `TimersExact`: the two lists are exact and without repetition;
* `PlaceInv`: which locations go with which state for the idle thread, the timer
  thread and all others;
* `TimerInv`: the timer thread holds a timer exactly in `handler` and `clear`,
  and every timer that is listed or held is in use: its thread is in
  `thread_sleep` or in the `timer_destroy` that follows, or it is a stand-alone
  timer with an owner;
* `JoinInv`: `joiner` fields and joining threads point at each other, and the
  joiner sleeps exactly as long as its target lives;
* `SleeperHasTimer`.

One lemma per action; those that go through `schedule` share `ScheduleStep` and
`PlaceKeep`. The facts about sequences (`list_append` and `list_remove` keep a
list free of repetitions and add or remove one item) are lemmas at the head of
the module, and of `BootProofs`.

`LifeCorrect` is the refinement `Spec => LifeSpec`. A thread is live, exited or
gone by its `state`, and waits for `arg` while it is in `thread_join`. Most steps
stutter (`LifeStutter`); `thread_create`, the end of a thread and the two halves of
`thread_join` are the steps of `ThreadLife`. `IInv` gives their guards: `JoinInv`
that nobody else waits for the target, `PlaceInv` that who joins is alive.

**LinkedList** (`LinkedListProofs`). `ListsCorrect`: the pointers of all lists
form closed rings, `next` and `prev` inverse, and there is an assignment of items
to lists that the pointers respect, so no ring passes two heads. The witness for
the assignment after a step is the old one changed at the item moved.

`ListsRefined` is the refinement `Spec => ListsSpec`. The invariant is that the
pointers are the trace of some sequences (`Trace`): every item leads to the one
behind it, the last to the head, no item is at two places and none that is linked
is at no place. Each operation turns a trace into the trace of what `Lists` does
(`AppendTrace`, `PrependTrace`, `RemoveTrace`; `list_rotate` is two of them). That
`list_foreach` visits exactly the sequence (`ForeachTrace`) needs no induction over
sequences: its recursive equation has an explicit solution (`VisitLoops`), and no
second one, since two would agree below the least count at which they differ
(`LoopsUnique`, from the well-foundedness of `<`). `FiniteAssumption` says that
there are finitely many items, which bounds the loop.

**Atomics** (`AtomicsProofs`). `LinkCorrect`: a CPU with the link holds the
current value. `AtomicCorrect` is the refinement: every step implements a step of
`AtomicVariable` or stutters.

**Boot** (`BootProofs`). `MemoryCorrect` proves `MemoryOrder` for any number of
CPUs. Its invariant says that `cpu_ready` is where the start has got to
(`TurnInv`): a CPU past the loop of `ap_start` was let in, and no CPU behind one
that is still starting was; so at most one CPU is starting (`OneStarts`).
`DoneBefore` lists what is initialised at each place.

`QueueCorrect` proves `OwnQueue` under the hypothesis `Short \subseteq {0}`:
only CPU 0 looks at the result of `thread_create`; with memory short on another
CPU the property is false (observation 6). `QueueInv` adds to the invariant above
what each queue holds at each place of its CPU, for CPU 0 also at each place of
`example`: the idle thread is among it, and an application processor has nothing
else, so that the queues are disjoint.

**AddressSpaces** (`AddressSpacesProofs`). `MapInv` is `FramesPrivate` together
with `AreasApart`, that no two areas of one map share a page. It is needed for
`vmm_mapping_find`, which takes the first area that contains a page, and gives
`FramesCorrect` and `CheckUserCorrect`. The latter is about any address and any
size, with the sum modulo the address space as in the code (`Uintptr`): division
by the size of a page keeps the order, so a byte between two addresses whose
pages are in one area is mapped (`BetweenMapped`). `TLBInv` is `TLBCoherent` and
`NoDoubleMatch`, which need each other, with `AsidInv`, that identifiers are
handed out once and in order, and `EntriesOwned`, that an entry has the
identifier of an address space or the one of `tlb_init`. `TLBCorrect` and
`MatchCorrect` have the hypothesis `FewSpaces`, fewer address spaces than
identifiers: the limit of `vmm.c:38`, beyond which `last_asid` wraps.

**Processes** (`ProcessesProofs`). `BlocksInv` says who owns each structure: the
call of `process_create` that allocated it until the process is returned
(`CallsInv`), afterwards the process (`HandlesInv`), and nothing else is in use
(`HeapInv`). From it follows `NoLeaksCorrect`. `StubInv` ties a thread to the
process it was created for, also while `process_create` has not yet stored it,
and gives `UserCorrect`: a thread in user space has a process and a user thread
that refer to each other. `JoinInv` says that until `process_join` is called
nobody frees the main thread of a process, and afterwards only that call does;
`JoinsOwnCorrect` follows with the hypothesis `REJOIN = FALSE`, one join per
process (observation 5).

**Exceptions** (`ExceptionsProofs`). None of the three properties is inductive:
they speak of the moments when code runs, and a handler passes through many
places in which a context is half in registers and half in memory. `SwitchInv`
has, for every place of the CPU, where the context of every thread is: in the
registers, in the static kernel area, in the frame being written or read, or at
rest on its own stack. Three facts recur: `Nested`, a thread has a frame on its
stack for each interrupted activation; `Parked`, it has one more for the switch
away from it; `Rest`, both hold for all threads but the current one. A TLB refill is
a pause in one of the places that may miss (`MayMiss`): the place keeps its facts,
with EPC and the frame of `handle_tlb_refill` in the role of the registers, and
`StackPrivate` is what makes its stores go to the right stack. The theorems
`StackPrivateCorrect`, `ResumesOwnCorrect` and `ContextsOnStackCorrect` have the
hypothesis `KILL_MISSES = FALSE`, which excludes the one case of the
[finding](#findings).

**Heap** (`HeapProofs`). `HeapInvariant` proves `Spec => []HInv`. It is stated over
the heaps, headers and footers as functions, not over the sets of blocks, so that
it can also be asked of the memory between the two merges of one `free`:

* `HeapsInv`: the list of heaps is without repetition, every heap starts at a frame
  and the frames taken are exactly those of the heaps;
* a row of blocks for every heap: a block lies inside its heap (`Inside`), where it
  ends the next one starts or the heap ends (`Followed`), where it starts the one
  before ends (`Preceded`), blocks do not overlap (`Alone`), the footer says what
  the header says (`Footed`), and the first block starts the heap (`Started`).
  `Preceded` is what `free` relies on when it goes back through a footer;
* sizes and addresses are aligned, and `ScanInv`, where the scan of `malloc` is.

The changes are relations between two memories, each with a lemma that it keeps
the rows: a block is divided (`Divided`), marked (`Marked`), joined with the next
one (`Joined`), a new heap is placed, a heap that is one free block is released.
`TiledCorrect` and `FramesCorrect` follow. `ScanCorrect` and `CoalescedCorrect` are
inductive together with `HInv`; for the latter `free` is followed through its steps
(`FreePath`): after the look at the next block the only free neighbour the block
can have is the one before it, after the look back none. `AllocatorCorrect` is the refinement of
`Allocator`: what is live are the allocated blocks, which no step but `free` moves
or shrinks, and a heap is released only when it holds none.

Only model-checked:

* everything under fairness (`ReadyRuns`, `SleepEnds`, `JoinEnds`, `DestroyEnds`,
  `MallocEnds`, `RebalancingEnds`, `LockFree`, `HandlersEnd`, `JoinedIsReaped`,
  `CpusComeUp`), since the prover has no rules for fairness and `ENABLED`;
* `RBTree`, whose properties are about walks and heights of the tree: they would
  need induction over data.

## Findings

`mm/tlb.c:334`: `wrapped_tlb_refill` ends a thread that accessed unmapped memory
by `thread_finish`, with EXL still set. If the thread that runs next is a user
thread whose stack is not in the TLB, the loads of `cpu_switch_context` miss; with
EXL set the miss goes to the general handler and EPC keeps the address of the
access that ended the first thread, which is where the next thread then continues
(`exceptions_kill`). `tlb_invalid` is called with EXL cleared and is not affected.
`exceptions` excludes this one case (`KILL_MISSES`).

## Observations

Other places where the code does something else than a comment says, or relies
on something. They follow from the models but have no run of their own.

1. `proc/thread.c:104`: a `thread_create` whose `vmm_create` fails returns with
   interrupts disabled (`thread_create_no_vmm`), although
   `query_and_disable_interrupts` is "meant to be used in pair" (`c.h:281`).
2. `proc/thread.c:273`: `thread_sleep` returns the distance to the deadline, not
   the "number of seconds the thread was actually suspended" (`thread.c:246`).
   Nothing uses the result and the model leaves it out.
3. `time/timer.c:140`: a deadline on the largest value of the clock is never
   passed, so `SleepEnds` is false when the clock wraps: set `MAX_UPTIME` in
   `ThreadsLiveness.cfg` above `UINT_RANGE`.
4. `mm/vmm.c:232`: `vma_check_user` tests the byte behind the area, so it refuses
   an area that ends where its mapping ends. The sum is computed modulo 2^32: when
   the end of the area wraps it may fall into the mapping that holds the address,
   and the function returns true although the memory in between is not mapped,
   against "True if the memory area is mapped" (`vmm.c:225`). `CheckUserSound` says
   what is guaranteed then, and the comment's claim for areas that do not wrap;
   dropping its condition `addr + size \in Address` shows the rest in one step.
5. `proc/process.c:204`: a second `process_join` follows a pointer to a freed
   thread instead of returning `EINVAL` (`process.c:200`): set `REJOIN` in
   `Processes.cfg`.
6. `main.c:169`: `ap_start` does not look at the result of `thread_create`; when
   memory runs out there, it switches to an uninitialised pointer: put CPU 1 in
   `Short` in `Boot.cfg`.
7. `main.c:133`: the comment wants all allocations finished before the next CPU is
   let in, but `example` allocates on CPU 0 while later CPUs still create their
   idle threads.
8. `time/time.h:46` wraps for a `thread_usleep` of more than 4.29 seconds.
9. In the unfinished driver `drivers/dorder.c` the busy wait for a full buffer
   (line 146) tests a condition that never holds, while the slot is filled
   (line 150) after it is visible to the handler.
10. `sched/sched.c:66`: `sched_insert` uses the queue of the CPU that calls it, so
    a tick on an application processor that wakes the timer thread moves it
    there, perhaps before CPU 0 has switched away from it.
11. `proc/thread.c:513`: `thread_can_join` refuses only the circle of length one;
    longer circles of joins sleep for ever. That is left to the callers.
12. `adt/atomic.h:69`: `atomic_test_and_set` is to "Set the value of an atomic
    variable to 1", but the code stores only when it finds 0 (`atomic.h:93`): a
    value of 2 stays 2. `AtomicVariable` follows the code. The two agree on a
    flag, and the only caller (`dorder.c:168`) has one.
13. `time/timer.c:212`: `timer_destroy` waits while the handler runs, and removes a
    timer that the handler has started again only after that. If the handler always
    starts the timer again and the timer expires within one run of the handler,
    the timer thread can have `running` set whenever the caller looks, and the
    caller waits for ever. Check `DestroyEnds` alone in `ThreadsLiveness.cfg`, with
    `MAX_UPTIME` above `UINT_RANGE`, `UINT_RANGE = 3` and `Seconds = {}`.

## Not modelled

* Object files without source that is built: user threads, keyboard, mutexes,
  semaphores, frame allocator, bitmap. Sources lie next to some of them but the
  build prefers the object file, and most of their functions are TODOs. Of the
  system calls, the dispatch and `sys_exit` are modelled.
* Skeletons whose operations are TODOs: condition variables, recursive mutexes,
  read-write locks, user mutexes, the disk, the user library's heap; and the
  inter-processor messages of `dorder.c`, whose interrupt nothing asserts or
  handles yet.
* Threads that sleep and wake on more than one CPU: the code says of itself that
  memory management is not SMP safe and that there is no real job for further
  CPUs (`main.c:38`). `Boot` has their start and their idle threads, `Atomics`
  the part meant for several CPUs.
* `printk` and the string functions: formatting and copying of characters.
* Device registers, the cache error handler (it halts) and `boot/loader.S` (a
  jump).

## Plan

1. Proofs about `RBTree`: the walks by explicit solutions of their equations, as
   for `list_foreach`, and the heights as a function of the nodes.
2. User stacks of more than one page and with neighbours in `Exceptions`, so that
   a miss can be TLB Invalid.
3. `dorder.c` once its interrupt is wired; the user threads once they are built
   from source.
