----------------------------- MODULE Processes -----------------------------
(***************************************************************************)
(* Processes (kernel/proc/process.c): the control structures of a process  *)
(* and of its main user thread, allocated by process_create, set up by     *)
(* process_stub in the new kernel thread, and waited for by process_join.  *)
(*                                                                         *)
(* Kernel threads are used through what ThreadLife promises of             *)
(* thread_create, thread_finish and thread_join; Threads implements it.    *)
(* One step is one section with interrupts disabled, or one call that can  *)
(* fail.  A control structure that was freed can be handed out again, so a *)
(* pointer kept too long leads to another process or thread.               *)
(***************************************************************************)
EXTENDS Naturals, FiniteSets

CONSTANTS Thread,   \* thread control structures
          Boot,     \* threads that create and join processes
          Process,  \* blocks that malloc hands out for a process
          UThread,  \* blocks that malloc hands out for a user thread
          NULL,
          REJOIN    \* may process_join be called again for a process?

ASSUME ProcessesAssumption ==
  /\ Boot \subseteq Thread
  /\ NULL \notin Thread \union Process \union UThread
  /\ Process \cap UThread = {}
  /\ REJOIN \in BOOLEAN

VARIABLES
  life, waits,  \* the threads, see ThreadLife
  heap,         \* process and user thread structures in use
  proc,         \* process->main_uthread and whether retval was set
  uthread,      \* uthread->process and uthread->thread
  owner,        \* thread->process and thread->uthread
  pc,           \* what each thread is about to do
  local,        \* its local variables: process, user thread and thread
  handles,      \* processes that process_create has returned
  joined,       \* processes process_join was called for
  ended         \* history: processes whose main thread has finished

vars == <<life, waits, heap, proc, uthread, owner, pc, local, handles, joined, ended>>

lives == <<life, waits>>
tables == <<heap, proc, uthread, owner>>
history == <<handles, joined, ended>>

Kernel == INSTANCE ThreadLife

Locals == [process : Process \union {NULL}, uthread : UThread \union {NULL},
           thread : Thread \union {NULL}]
NoLocals == [process |-> NULL, uthread |-> NULL, thread |-> NULL]

Places == {"none", "run", "malloc_uthread", "thread_create", "store",
           "map_code", "map_stack", "set_process", "user", "finish",
           "thread_join", "wait", "dead"}

TypeOK ==
  /\ life \in [Thread -> {"none", "live", "exited"}]
  /\ waits \in [Thread -> Thread \union {NULL}]
  /\ heap \subseteq Process \union UThread
  /\ proc \in [Process -> [main_uthread : UThread \union {NULL},
                           retval : {"unset", "set"}]]
  /\ uthread \in [UThread -> [process : Process \union {NULL},
                              thread : Thread \union {NULL}]]
  /\ owner \in [Thread -> [process : Process \union {NULL},
                           uthread : UThread \union {NULL}]]
  /\ pc \in [Thread -> Places]
  /\ local \in [Thread -> Locals]
  /\ handles \subseteq Process /\ joined \subseteq Process /\ ended \subseteq Process

At(t, place) == life[t] = "live" /\ pc[t] = place
Goto(t, place) == pc' = [pc EXCEPT ![t] = place]
GoIdle(t) == Goto(t, "run") /\ local' = [local EXCEPT ![t] = NoLocals]

-----------------------------------------------------------------------------
(***************************************************************************)
(* process_create.                                                         *)
(***************************************************************************)

malloc_process(t, p) ==
  /\ At(t, "run") /\ t \in Boot
  /\ p \in Process \ heap
  /\ heap' = heap \union {p}
  /\ local' = [local EXCEPT ![t].process = p]
  /\ Goto(t, "malloc_uthread")
  /\ UNCHANGED <<lives, proc, uthread, owner, history>>

(* ENOMEM, and nothing else happens. *)
malloc_process_fails(t) == At(t, "run") /\ t \in Boot /\ UNCHANGED vars

malloc_uthread(t, u) ==
  /\ At(t, "malloc_uthread")
  /\ u \in UThread \ heap
  /\ heap' = heap \union {u}
  /\ local' = [local EXCEPT ![t].uthread = u]
  /\ proc' = [proc EXCEPT ![local[t].process].main_uthread = u]
  /\ uthread' = [uthread EXCEPT ![u].process = local[t].process]
  /\ Goto(t, "thread_create")
  /\ UNCHANGED <<lives, owner, history>>

malloc_uthread_fails(t) ==
  /\ At(t, "malloc_uthread")
  /\ heap' = heap \ {local[t].process}
  /\ GoIdle(t)
  /\ UNCHANGED <<lives, proc, uthread, owner, history>>

(* The new thread is queued, and may run, before thread_create returns. *)
thread_create(t, n) ==
  /\ At(t, "thread_create")
  /\ Kernel!Create(n)
  /\ owner' = [owner EXCEPT ![n] = [process |-> NULL, uthread |-> NULL]]
  /\ pc' = [pc EXCEPT ![t] = "store", ![n] = "map_code"]
  /\ local' = [local EXCEPT ![t].thread = n,
                            ![n] = [NoLocals EXCEPT !.process = local[t].process]]
  /\ UNCHANGED <<heap, proc, uthread, history>>

(* Mutant: the user thread structure is not given back. *)
thread_create_fails_leak(t) ==
  /\ At(t, "thread_create")
  /\ heap' = heap \ {local[t].process}
  /\ uthread' = [uthread EXCEPT ![local[t].uthread] = [process |-> NULL, thread |-> NULL]]
  /\ GoIdle(t)
  /\ UNCHANGED <<lives, proc, owner, history>>

thread_create_fails(t) ==
  /\ At(t, "thread_create")
  /\ heap' = heap \ {local[t].process, local[t].uthread}
  /\ uthread' = [uthread EXCEPT ![local[t].uthread] = [process |-> NULL, thread |-> NULL]]
  /\ GoIdle(t)
  /\ UNCHANGED <<lives, proc, owner, history>>

(* Mutant: the process is returned without the handle of its thread. *)
store_unset(t) ==
  /\ At(t, "store")
  /\ uthread' = uthread
  /\ handles' = handles \union {local[t].process}
  /\ GoIdle(t)
  /\ UNCHANGED <<lives, heap, proc, owner, joined, ended>>

(* thread_create stores its handle in uthread->thread, process_create      *)
(* returns the process.                                                    *)
store(t) ==
  /\ At(t, "store")
  /\ uthread' = [uthread EXCEPT ![local[t].uthread].thread = local[t].thread]
  /\ handles' = handles \union {local[t].process}
  /\ GoIdle(t)
  /\ UNCHANGED <<lives, heap, proc, owner, joined, ended>>

-----------------------------------------------------------------------------
(***************************************************************************)
(* process_stub, run by the main thread; local.process is its data.  When  *)
(* an area cannot be mapped, the stub returns and the thread finishes.     *)
(***************************************************************************)
vma_map(t, from, to) ==
  /\ At(t, from)
  /\ Goto(t, to) \/ Goto(t, "finish")
  /\ UNCHANGED <<lives, tables, local, history>>

(* thread_set_process and the jump to user space. *)
set_process(t) ==
  /\ At(t, "set_process")
  /\ LET p == local[t].process IN
     owner' = [owner EXCEPT ![t] = [process |-> p, uthread |-> proc[p].main_uthread]]
  /\ Goto(t, "user")
  /\ UNCHANGED <<lives, heap, proc, uthread, local, history>>

(* sys_exit, or an access that ends the thread without a return value. *)
process_set_retval(t) ==
  /\ At(t, "user")
  /\ proc' = [proc EXCEPT ![owner[t].process].retval = "set"]
  /\ Goto(t, "finish")
  /\ UNCHANGED <<lives, heap, uthread, owner, local, history>>

thread_finish(t) ==
  /\ At(t, "user") \/ At(t, "finish")
  /\ Kernel!Exit(t)
  /\ ended' = ended \union {local[t].process}
  /\ Goto(t, "dead")
  /\ UNCHANGED <<tables, local, handles, joined>>

-----------------------------------------------------------------------------
(***************************************************************************)
(* process_join: the thread is read in one section and joined in another.  *)
(***************************************************************************)
process_join(t, p) ==
  /\ At(t, "run")
  /\ p \in handles
  /\ REJOIN \/ p \notin joined
  /\ joined' = joined \union {p}
  /\ local' = [local EXCEPT ![t].process = p,
                            ![t].thread = uthread[proc[p].main_uthread].thread]
  /\ Goto(t, "thread_join")
  /\ UNCHANGED <<lives, tables, handles, ended>>

thread_can_join(t, n) == n # t /\ \A u \in Thread : waits[u] # n

(* EINVAL, or the start of a wait. *)
thread_join(t) ==
  /\ At(t, "thread_join")
  /\ IF thread_can_join(t, local[t].thread)
     THEN Kernel!Wait(t, local[t].thread) /\ Goto(t, "wait") /\ UNCHANGED local
     ELSE GoIdle(t) /\ UNCHANGED lives
  /\ UNCHANGED <<tables, history>>

(* Mutant: the joiner leaves without taking the remains with it. *)
join_reap_leaves(t) ==
  /\ At(t, "thread_join") \/ At(t, "wait")
  /\ life[local[t].thread] = "exited"
  /\ waits' = [waits EXCEPT ![t] = NULL]
  /\ GoIdle(t)
  /\ UNCHANGED <<life, tables, history>>

join_reap(t) ==
  /\ At(t, "thread_join") \/ At(t, "wait")
  /\ Kernel!Reap(t, local[t].thread)
  /\ GoIdle(t)
  /\ UNCHANGED <<tables, history>>

-----------------------------------------------------------------------------
Init ==
  /\ Kernel!Init
  /\ heap = {}
  /\ proc = [p \in Process |-> [main_uthread |-> NULL, retval |-> "unset"]]
  /\ uthread = [u \in UThread |-> [process |-> NULL, thread |-> NULL]]
  /\ owner = [t \in Thread |-> [process |-> NULL, uthread |-> NULL]]
  /\ pc = [t \in Thread |-> IF t \in Boot THEN "run" ELSE "none"]
  /\ local = [t \in Thread |-> NoLocals]
  /\ handles = {} /\ joined = {} /\ ended = {}

Next ==
  \E t \in Thread :
    \/ \E p \in Process : malloc_process(t, p)
    \/ malloc_process_fails(t)
    \/ \E u \in UThread : malloc_uthread(t, u)
    \/ malloc_uthread_fails(t)
    \/ \E n \in Thread : thread_create(t, n)
    \/ thread_create_fails(t)
    \/ store(t)
    \/ vma_map(t, "map_code", "map_stack")
    \/ vma_map(t, "map_stack", "set_process")
    \/ set_process(t)
    \/ process_set_retval(t)
    \/ thread_finish(t)
    \/ \E p \in Process : process_join(t, p)
    \/ thread_join(t)
    \/ join_reap(t)

Spec == Init /\ [][Next]_vars

(* The scheduler runs every thread again and again (ReadyRuns of Threads), *)
(* so a call into the kernel that can go on does; a program need not end.  *)
FairSpec ==
  /\ Spec
  /\ \A t \in Thread : WF_vars(store(t)) /\ WF_vars(thread_join(t) \/ join_reap(t))

-----------------------------------------------------------------------------
(***************************************************************************)
(* process_join joins the thread of its process: between reading           *)
(* uthread->thread and thread_join, and while it waits, that structure is  *)
(* still the main thread of this very process and was not freed.           *)
(***************************************************************************)
MainThread(p, n) == life[n] # "none" /\ local[n].process = p /\ n \notin Boot

JoinsOwn ==
  \A t \in Boot : pc[t] \in {"thread_join", "wait"} =>
    /\ local[t].thread # NULL
    /\ MainThread(local[t].process, local[t].thread)

(***************************************************************************)
(* process_create is all or nothing: a structure is in use if and only if  *)
(* it belongs to a process that was returned or to a call in progress, and *)
(* no two processes share a user thread.                                   *)
(***************************************************************************)
Creating(t) == pc[t] \in {"malloc_uthread", "thread_create", "store"}

NoLeaks ==
  /\ TypeOK
  /\ heap \cap Process = handles \union {local[t].process : t \in {c \in Boot : Creating(c)}}
  /\ heap \cap UThread = {proc[p].main_uthread : p \in handles}
       \union {local[t].uthread : t \in {c \in Boot : pc[c] \in {"thread_create", "store"}}}
  /\ \A p, q \in handles : proc[p].main_uthread = proc[q].main_uthread => p = q

(***************************************************************************)
(* A thread in user space has a process and a user thread, which refer to  *)
(* each other and to nothing freed, whatever failed in other calls: what   *)
(* thread_get_process and thread_get_uthread return in a system call.      *)
(***************************************************************************)
UserHasProcess ==
  \A t \in Thread : At(t, "user") =>
    LET p == owner[t].process  u == owner[t].uthread IN
    /\ p \in heap /\ u \in heap
    /\ proc[p].main_uthread = u /\ uthread[u].process = p
    /\ uthread[u].thread \in {t, NULL}

(***************************************************************************)
(* Once the main thread of a process that is being joined has finished,    *)
(* its structure is given back: the exit and the two sections of the join  *)
(* may come in any order.                                                  *)
(***************************************************************************)
JoinedIsReaped ==
  \A p \in Process, n \in Thread :
    (p \in joined /\ uthread[proc[p].main_uthread].thread = n /\ local[n].process = p
        /\ life[n] = "exited" /\ pc[n] = "dead")
      ~> life[n] = "none"
=============================================================================
