----------------------------- MODULE Exceptions -----------------------------
(***************************************************************************)
(* How one CPU leaves and resumes code: the exception handlers and the     *)
(* context switch of kernel/head.S, the dispatch of exc/exc.c and          *)
(* exc/int.c, the switch of proc/thread.c and the jump to user space at    *)
(* the end of process_stub.                                                *)
(*                                                                         *)
(* A handler is cut where something can come in between: at every block of *)
(* accesses to the stack, because handle_general pushes its frame on the   *)
(* current stack, and the stack of a thread in user space is mapped and    *)
(* may miss in the TLB.  The code that is interrupted is abstracted to a   *)
(* code point <<"code", thread, level, v>>: level 0 is the thread itself,  *)
(* level n the C handler of its nth nested exception, and v is 1 once that *)
(* has done its work.  The same value stands for the program counter and   *)
(* for the contents of the general registers that this code relies on.     *)
(*                                                                         *)
(* Every user stack is one page that shares no TLB entry with another      *)
(* mapped page (USER_STACK_SIZE and the layout of sys_thread), so an       *)
(* access to it either hits or raises TLB Refill.                          *)
(***************************************************************************)
EXTENDS Naturals, Sequences, SequencesExt

CONSTANTS Thread,      \* threads, each alone in its address space
          User,        \* the ones that go to user space
          Idle,        \* the idle thread, which never ends
          NULL,
          NEST,        \* bound: exceptions of one thread nest this deep
          KILL_MISSES  \* may wrapped_tlb_refill end a thread while the stack
                       \* of the next one is not in the TLB?

ASSUME ExceptionsAssumption ==
  /\ User \subseteq Thread /\ Idle \in Thread \ User /\ NULL \notin Thread
  /\ NEST \in Nat \ {0} /\ KILL_MISSES \in BOOLEAN

VARIABLES
  pc,        \* the code point, or the place in a handler, of the CPU
  regs,      \* the code whose values the general registers hold
  sp,        \* stack pointer: <<segment, thread, number of frames>>
  cp0,       \* EPC, Status, Cause and BadVAddr of the coprocessor
  asid,      \* EntryHi: whose address space is translated
  area,      \* static kernel area, the part of handle_general
  frame,     \* static kernel area, the frame of handle_tlb_refill
  stack,     \* frames in memory, of the kernel and user stack of a thread
  stack_top, \* thread->stack_top
  current,   \* current_thread[cpuid()]
  tlb,       \* per ASID, whose frame the user stack page translates to
  inuser,    \* threads whose user stack is mapped and in use
  dead,      \* threads that finished
  work       \* history: per thread, the state each activation left off in

vars == <<pc, regs, sp, cp0, asid, area, frame, stack, stack_top, current,
          tlb, inuser, dead, work>>

memory == <<stack, stack_top>>
threads == <<current, inuser, dead, work>>

-----------------------------------------------------------------------------
Code(t, n, v) == <<"code", t, n, v>>
Junk == <<"junk">>
InCode == pc[1] = "code"
Level == pc[3]

status(exl, ie, um) == [exl |-> exl, ie |-> ie, um |-> um]
KernelMode == status(FALSE, FALSE, FALSE)

(* What a frame on the stack can hold, a context_t. *)
context(r, epc, cause, badva, entryhi, st) ==
  [regs |-> r, epc |-> epc, cause |-> cause, badva |-> badva,
   entryhi |-> entryhi, status |-> st]

NoContext == context(Junk, Junk, "none", "none", NULL, KernelMode)

(* The user stack has the same virtual address in every address space. *)
UserSp(n) == <<"user", NULL, n>>
KernelSp(t, n) == <<"kernel", t, n>>
StaticSp == <<"static", NULL, 0>>

Below(s) == <<s[1], s[2], s[3] + 1>>   \* addiu $sp, -CONTEXT_SIZE
Above(s) == <<s[1], s[2], s[3] - 1>>   \* addiu $sp, CONTEXT_SIZE

(* An access to the current stack does not miss.  Kernel stacks and the    *)
(* static area lie in unmapped memory.                                     *)
Resident == sp[1] = "user" => tlb[asid] # NULL

Slot == IF sp[1] = "user" THEN <<"user", tlb[asid]>> ELSE <<sp[1], sp[2]>>

Frame(s) == stack[Slot][s[3]]

Slots == {"kernel", "user"} \X Thread \union {<<"static", NULL>>}

(***************************************************************************)
(* What the hardware does at an exception: EPC keeps its value when EXL is *)
(* already set, and then even a TLB Refill goes to the general handler.    *)
(***************************************************************************)
TakeException(refill, cause, badva) ==
  /\ cp0' = [cp0 EXCEPT !.epc = IF cp0.status.exl THEN @ ELSE pc,
                        !.status.exl = TRUE,
                        !.cause = cause, !.badva = badva]
  /\ pc' = IF refill /\ ~cp0.status.exl
           THEN <<"handle_tlb_refill">> ELSE <<"handle_general">>
  /\ UNCHANGED <<regs, sp, asid, area, frame, memory, threads, tlb>>

NoFrame == [regs |-> Junk, sp |-> StaticSp]

(* What is left in a register or in memory once nothing may rely on it any *)
(* more is Junk; the CPU never continues there.                            *)
NoException(st) ==
  [epc |-> Junk, status |-> st, cause |-> "none", badva |-> "none"]

(* ERET *)
Eret(epc, st) ==
  /\ pc' = epc
  /\ cp0' = NoException([st EXCEPT !.exl = FALSE])

-----------------------------------------------------------------------------
(***************************************************************************)
(* handle_general.                                                         *)
(***************************************************************************)

(* The coprocessor registers go to the static area; then EXL, IE and KSU   *)
(* are cleared and a frame is allocated on the current stack.              *)
handle_general ==
  /\ pc = <<"handle_general">>
  /\ area' = context(Junk, cp0.epc, cp0.cause, cp0.badva, asid, cp0.status)
  /\ cp0' = NoException(KernelMode)
  /\ sp' = Below(sp)
  /\ pc' = <<"save">>
  /\ UNCHANGED <<regs, asid, frame, memory, threads, tlb>>

(* SAVE_REGISTERS, LO and HI; from here on $t0 and $t1 are used. *)
SaveRegisters ==
  /\ pc = <<"save">> /\ Resident
  /\ stack' = [stack EXCEPT ![Slot][sp[3]] = [NoContext EXCEPT !.regs = regs]]
  /\ regs' = Junk
  /\ pc' = <<"move">>
  /\ UNCHANGED <<sp, cp0, asid, area, frame, stack_top, threads, tlb>>

(* Mutant: Status stays behind in the static area. *)
MoveStaticArea_status ==
  /\ pc = <<"move">> /\ Resident
  /\ stack' = [stack EXCEPT ![Slot][sp[3]] =
       [area EXCEPT !.regs = Frame(sp).regs, !.status = KernelMode]]
  /\ pc' = Code(current, sp[3], 0)
  /\ regs' = pc'
  /\ work' = [work EXCEPT ![current] =
       Append(@, [code |-> pc', status |-> cp0.status, sp |-> sp])]
  /\ area' = NoContext
  /\ UNCHANGED <<sp, cp0, asid, frame, stack_top, current, inuser, dead, tlb>>

(* The static area moves to the frame, and wrapped_general is called. *)
MoveStaticArea ==
  /\ pc = <<"move">> /\ Resident
  /\ stack' = [stack EXCEPT ![Slot][sp[3]] = [area EXCEPT !.regs = Frame(sp).regs]]
  /\ pc' = Code(current, sp[3], 0)
  /\ regs' = pc'
  /\ work' = [work EXCEPT ![current] =
       Append(@, [code |-> pc', status |-> cp0.status, sp |-> sp])]
  /\ area' = NoContext
  /\ UNCHANGED <<sp, cp0, asid, frame, stack_top, current, inuser, dead, tlb>>

(* Status and EPC return to the static area, which outlives the frame. *)
UnloadStaticArea ==
  /\ pc = <<"unload">> /\ Resident
  /\ area' = [area EXCEPT !.status = Frame(sp).status, !.epc = Frame(sp).epc]
  /\ pc' = <<"load">>
  /\ UNCHANGED <<regs, sp, cp0, asid, frame, memory, threads, tlb>>

(* LOAD_REGISTERS and the release of the frame.  What lies below the stack *)
(* pointer is nobody's.                                                    *)
LoadRegisters ==
  /\ pc = <<"load">> /\ Resident
  /\ regs' = Frame(sp).regs
  /\ stack' = [stack EXCEPT ![Slot][sp[3]] = NoContext]
  /\ sp' = Above(sp)
  /\ pc' = <<"eret">>
  /\ UNCHANGED <<cp0, asid, area, frame, stack_top, threads, tlb>>

ReturnFromException ==
  /\ pc = <<"eret">>
  /\ Eret(area.epc, area.status)
  /\ area' = NoContext
  /\ UNCHANGED <<regs, sp, asid, frame, memory, threads, tlb>>

-----------------------------------------------------------------------------
(***************************************************************************)
(* cpu_switch_context, for a switch from the thread in the registers to    *)
(* the thread that thread_switch has already made the current one.         *)
(***************************************************************************)

(* Mutant: the address space is set at the first switch only. *)
SwitchSave_asid ==
  /\ pc = <<"sw_save">> /\ Resident
  /\ stack_top' = IF regs[2] \in Thread
                  THEN [stack_top EXCEPT ![regs[2]] = Below(sp)] ELSE stack_top
  /\ stack' = IF sp = StaticSp THEN stack
              ELSE [stack EXCEPT ![Slot][sp[3] + 1] =
                      [NoContext EXCEPT !.regs = regs, !.status = cp0.status]]
  /\ cp0' = [cp0 EXCEPT !.status.ie = FALSE]
  /\ sp' = stack_top'[current]
  /\ pc' = <<"sw_load">>
  /\ asid' = IF asid = NULL THEN current ELSE asid
  /\ UNCHANGED <<regs, area, frame, threads, tlb>>

(* The old thread's registers and Status go to its stack, its stack_top    *)
(* to its control structure, then the address space and the stack change.  *)
SwitchSave ==
  /\ pc = <<"sw_save">> /\ Resident
  /\ stack_top' = IF regs[2] \in Thread
                  THEN [stack_top EXCEPT ![regs[2]] = Below(sp)] ELSE stack_top
  /\ stack' = IF sp = StaticSp THEN stack
              ELSE [stack EXCEPT ![Slot][sp[3] + 1] =
                      [NoContext EXCEPT !.regs = regs, !.status = cp0.status]]
  /\ cp0' = [cp0 EXCEPT !.status.ie = FALSE]
  /\ asid' = current
  /\ sp' = stack_top'[current]
  /\ pc' = <<"sw_load">>
  /\ UNCHANGED <<regs, area, frame, threads, tlb>>

(* The new thread's registers, $ra among them, and Status come back. *)
SwitchLoad ==
  /\ pc = <<"sw_load">> /\ Resident
  /\ regs' = Frame(sp).regs
  /\ pc' = Frame(sp).regs
  /\ cp0' = [cp0 EXCEPT !.status = Frame(sp).status]
  /\ stack' = [stack EXCEPT ![Slot][sp[3]] = NoContext]
  /\ sp' = Above(sp)
  /\ UNCHANGED <<asid, area, frame, stack_top, threads, tlb>>

(* thread_switch, up to the call of cpu_switch_context.  The thread that   *)
(* is chosen may be the current one.                                       *)
thread_switch(t) ==
  /\ current' = t
  /\ pc' = <<"sw_save">>

-----------------------------------------------------------------------------
(***************************************************************************)
(* handle_tlb_refill: context and stack in the other part of the static    *)
(* area, one lookup in C, and ERET.  EXL stays set, so nothing comes in    *)
(* between, unless the lookup fails and thread_finish leaves the handler.  *)
(***************************************************************************)
handle_tlb_refill ==
  /\ pc = <<"handle_tlb_refill">>
  /\ frame' = [regs |-> regs, sp |-> sp]
  /\ sp' = StaticSp
  /\ regs' = Junk
  /\ pc' = <<"wrapped_tlb_refill">>
  /\ UNCHANGED <<cp0, asid, area, memory, threads, tlb>>

(* vmm_mapping_find: the areas of the current thread. *)
vmm_mapping_find(page) ==
  page \in IF current \in inuser THEN {"data", "stack"} ELSE {"data"}

(* Mutant: the other half of the pair is written. *)
tlb_store_random_half(page, as) ==
  \E victim \in Thread : tlb' = [tlb EXCEPT ![victim] = NULL]

(* tlb_store_random: the entry of the page replaces any other one. *)
tlb_store_random(page, as) ==
  \E victim \in Thread :
     tlb' = IF page = "stack"
            THEN [[tlb EXCEPT ![victim] = NULL] EXCEPT ![as] = current]
            ELSE [tlb EXCEPT ![victim] = NULL]

wrapped_tlb_refill ==
  /\ pc = <<"wrapped_tlb_refill">>
  /\ vmm_mapping_find(cp0.badva)
  /\ tlb_store_random(cp0.badva, asid)
  /\ regs' = frame.regs
  /\ sp' = frame.sp
  /\ frame' = NoFrame
  /\ Eret(cp0.epc, cp0.status)
  /\ UNCHANGED <<asid, area, memory, threads>>

(* thread_finish, called from either TLB handler: another thread runs. *)
thread_finish(t) ==
  /\ t \in Thread \ (dead \union {current})
  /\ dead' = dead \union {current}
  /\ work' = [work EXCEPT ![current] = << >>]
  /\ regs' = <<"finished", current>>
  /\ thread_switch(t)
  /\ UNCHANGED <<sp, cp0, asid, area, frame, memory, tlb, inuser>>

RefillKill(t) ==
  /\ pc = <<"wrapped_tlb_refill">>
  /\ ~vmm_mapping_find(cp0.badva)
  /\ KILL_MISSES \/ t \notin inuser \/ tlb[t] # NULL
  /\ thread_finish(t)

-----------------------------------------------------------------------------
(***************************************************************************)
(* The C code of a thread or of a handler.                                 *)
(***************************************************************************)

(* The running activation goes on to code point c with Status st. *)
Continue(c, st) ==
  /\ pc' = c
  /\ regs' = c
  /\ cp0' = [cp0 EXCEPT !.status = st]
  /\ work' = [work EXCEPT ![current] =
       [@ EXCEPT ![Len(@)] = [code |-> c, status |-> st, sp |-> sp]]]

InKernel == InCode /\ ~cp0.status.um /\ Resident

(* The handler of an exception with this cause is at step v. *)
Handling(cause, v) ==
  InKernel /\ Level > 0 /\ pc[4] = v /\ Frame(sp).cause = cause

(* query_and_disable_interrupts and conditionally_enable_interrupts, in a  *)
(* kernel thread and in a system call.                                     *)
SetInterrupts ==
  /\ InKernel
  /\ Level = 0 \/ Handling("sys", 1)
  /\ Continue(pc, [cp0.status EXCEPT !.ie = ~@])
  /\ UNCHANGED <<sp, asid, area, frame, memory, current, inuser, dead, tlb>>

(***************************************************************************)
(* wrapped_general: interrupts are handled with interrupts disabled, a     *)
(* system call steps over its instruction, which is the same code point    *)
(* here, and enables them, a TLB exception stores the mapping or ends the  *)
(* thread, and everything else is a panic.                                 *)
(***************************************************************************)
interrupt ==
  /\ Handling("int", 0)
  /\ Continue(Code(pc[2], Level, 1), cp0.status)
  /\ UNCHANGED <<sp, asid, area, frame, memory, current, inuser, dead, tlb>>

syscall ==
  /\ Handling("sys", 0)
  /\ Continue(Code(pc[2], Level, 1), status(FALSE, TRUE, FALSE))
  /\ UNCHANGED <<sp, asid, area, frame, memory, current, inuser, dead, tlb>>

tlb_invalid ==
  /\ Handling("tlb", 0)
  /\ vmm_mapping_find(Frame(sp).badva)
  /\ asid' = Frame(sp).entryhi
  /\ IF Frame(sp).badva = "stack"
     THEN tlb' = [tlb EXCEPT ![asid'] = current]
     ELSE tlb' = tlb \/ tlb_store_random("data", asid')
  /\ Continue(Code(pc[2], Level, 1), cp0.status)
  /\ UNCHANGED <<sp, area, frame, memory, current, inuser, dead>>

InvalidKill(t) ==
  /\ Handling("tlb", 0)
  /\ ~vmm_mapping_find(Frame(sp).badva)
  /\ thread_finish(t)

panic ==
  /\ Handling("fatal", 0)
  /\ pc' = <<"halt">>
  /\ UNCHANGED <<regs, sp, cp0, asid, area, frame, memory, threads, tlb>>

Halted == pc = <<"halt">> /\ UNCHANGED vars

(* wrapped_general returns to handle_general. *)
Return ==
  /\ InKernel /\ Level > 0 /\ pc[4] = 1 /\ ~cp0.status.ie
  /\ pc' = <<"unload">>
  /\ regs' = Junk
  /\ work' = [work EXCEPT ![current] = Front(@)]
  /\ UNCHANGED <<sp, cp0, asid, area, frame, memory, current, inuser, dead, tlb>>

(* schedule is called with interrupts disabled: by sched_timer, by a       *)
(* system call, or by a kernel thread.                                     *)
MayReschedule ==
  /\ InKernel /\ ~cp0.status.ie
  /\ Level = 0 \/ Handling("int", 1) \/ Handling("sys", 1)

schedule(t) ==
  /\ MayReschedule
  /\ t \in Thread \ dead
  /\ thread_switch(t)
  /\ UNCHANGED <<regs, sp, cp0, asid, area, frame, memory, inuser, dead, work, tlb>>

(* A kernel thread ends, or a user thread with a system call. *)
Finish(t) ==
  /\ MayReschedule
  /\ current # Idle
  /\ ~Handling("int", 1)
  /\ thread_finish(t)

(***************************************************************************)
(* The end of process_stub and cpu_uspace_jump: Status with EXL, so that   *)
(* neither the new mode nor IE is in effect before ERET, then EPC, then    *)
(* the user stack.                                                         *)
(***************************************************************************)

(* Mutant: Status without EXL. *)
process_stub_exl ==
  /\ InKernel /\ Level = 0 /\ current \in User \ inuser
  /\ cp0' = [cp0 EXCEPT !.status = status(FALSE, TRUE, TRUE)]
  /\ inuser' = inuser \union {current}
  /\ pc' = <<"write_cp0_epc">>
  /\ UNCHANGED <<regs, sp, asid, area, frame, memory, current, dead, work, tlb>>

process_stub ==
  /\ InKernel /\ Level = 0 /\ current \in User \ inuser
  /\ cp0' = [cp0 EXCEPT !.status = status(TRUE, TRUE, TRUE)]
  /\ inuser' = inuser \union {current}
  /\ pc' = <<"write_cp0_epc">>
  /\ UNCHANGED <<regs, sp, asid, area, frame, memory, current, dead, work, tlb>>

write_cp0_epc ==
  /\ pc = <<"write_cp0_epc">>
  /\ cp0' = [cp0 EXCEPT !.epc = Code(current, 0, 0)]
  /\ pc' = <<"cpu_uspace_jump">>
  /\ UNCHANGED <<regs, sp, asid, area, frame, memory, threads, tlb>>

cpu_uspace_jump ==
  /\ pc = <<"cpu_uspace_jump">>
  /\ sp' = UserSp(0)
  /\ regs' = Code(current, 0, 0)
  /\ Eret(cp0.epc, cp0.status)
  /\ work' = [work EXCEPT ![current] = <<[code |-> Code(current, 0, 0),
                   status |-> status(FALSE, TRUE, TRUE), sp |-> UserSp(0)]>>]
  /\ UNCHANGED <<asid, area, frame, memory, current, inuser, dead, tlb>>

-----------------------------------------------------------------------------
(***************************************************************************)
(* What can happen to the code that runs.                                  *)
(***************************************************************************)
MayNest == sp[3] < NEST

Interrupt ==
  /\ cp0.status.ie /\ ~cp0.status.exl /\ MayNest
  /\ TakeException(FALSE, "int", "none")

Syscall ==
  /\ InCode /\ cp0.status.um /\ MayNest
  /\ TakeException(FALSE, "sys", "none")

(* A program or its system call accesses user memory other than a stack: it *)
(* misses, hits the invalid half of an entry, or is not mapped at all.     *)
UserAccess ==
  /\ current \in inuser /\ MayNest
  /\ InCode
  /\ cp0.status.um \/ Handling("sys", 1)
  /\ \E page \in {"data", "bad"}, refill \in BOOLEAN :
        TakeException(refill, "tlb", page)

(* Address errors, overflows and the like, of a program. *)
Fatal ==
  /\ InCode /\ cp0.status.um /\ MayNest
  /\ TakeException(FALSE, "fatal", "none")

(* An access to the stack misses, in the code or in a handler. *)
StackMiss ==
  /\ ~Resident
  /\ InCode \/ pc[1] \in {"save", "move", "unload", "load", "sw_save", "sw_load"}
  /\ TakeException(TRUE, "tlb", "stack")

-----------------------------------------------------------------------------
(* After bsp_start: every thread has the context thread_create gave it,    *)
(* and thread_switch is about to leave the temporary stack for a thread.   *)
Init ==
  /\ pc = <<"sw_save">>
  /\ regs = <<"boot", NULL>>
  /\ sp = StaticSp
  /\ cp0 = NoException(KernelMode)
  /\ asid = NULL
  /\ area = NoContext
  /\ frame = NoFrame
  /\ stack = [s \in Slots |-> [i \in 1 .. NEST + 1 |->
       IF s[1] = "kernel" /\ i = 1
       THEN [NoContext EXCEPT !.regs = Code(s[2], 0, 0),
                              !.status = status(FALSE, TRUE, FALSE)]
       ELSE NoContext]]
  /\ stack_top = [t \in Thread |-> KernelSp(t, 1)]
  /\ current \in Thread \ User
  /\ tlb = [t \in Thread |-> NULL]
  /\ inuser = {}
  /\ dead = {}
  /\ work = [t \in Thread |-> <<[code |-> Code(t, 0, 0),
       status |-> status(FALSE, TRUE, FALSE), sp |-> KernelSp(t, 0)]>>]

(* The steps a CPU takes by itself once a handler or a switch has begun. *)
Handler ==
  \/ handle_general \/ SaveRegisters \/ MoveStaticArea
  \/ UnloadStaticArea \/ LoadRegisters \/ ReturnFromException
  \/ SwitchSave \/ SwitchLoad
  \/ handle_tlb_refill \/ wrapped_tlb_refill \/ \E t \in Thread : RefillKill(t)
  \/ write_cp0_epc \/ cpu_uspace_jump
  \/ (~InCode /\ StackMiss)

Program ==
  \/ SetInterrupts \/ interrupt \/ syscall \/ tlb_invalid \/ panic \/ Return
  \/ \E t \in Thread : InvalidKill(t) \/ schedule(t) \/ Finish(t)
  \/ process_stub
  \/ Interrupt \/ Syscall \/ UserAccess \/ Fatal
  \/ (InCode /\ StackMiss)

Next == Handler \/ Program \/ Halted

Spec == Init /\ [][Next]_vars

(* A CPU never stops in the middle of a handler. *)
FairSpec == Spec /\ WF_vars(Handler)

-----------------------------------------------------------------------------
(***************************************************************************)
(* Whenever code of a thread or of a handler runs, the CPU holds exactly   *)
(* what that code left off with: its registers, its place, its Status, its *)
(* stack pointer and its address space.  No nesting of exceptions, no TLB  *)
(* miss of the handlers' own stack accesses and no switch of threads in    *)
(* between mixes up two contexts (handle_general, cpu_switch_context).     *)
(***************************************************************************)
ResumesOwn ==
  /\ pc # Junk
  /\ InCode => /\ regs = pc
               /\ asid = current
               /\ work[current] # << >>
               /\ Last(work[current]) =
                    [code |-> pc, status |-> cp0.status, sp |-> sp]

(***************************************************************************)
(* While code runs, everything that is interrupted is on the stack of its  *)
(* own thread: a frame with registers, EPC and Status for each nested      *)
(* exception, and one more, at stack_top, for a thread that was switched   *)
(* away from.                                                              *)
(***************************************************************************)
StackOf(t) == <<IF t \in inuser THEN "user" ELSE "kernel", t>>

ContextsOnStack ==
  InCode => \A t \in Thread \ dead :
    LET n == Len(work[t]) IN
    /\ \A i \in 1 .. n - 1 :
         LET f == stack[StackOf(t)][i] IN
         /\ f.regs = work[t][i].code
         /\ f.epc = work[t][i].code
         /\ f.status = [work[t][i].status EXCEPT !.exl = TRUE]
    /\ t # current =>
         /\ stack[StackOf(t)][n].regs = work[t][n].code
         /\ stack[StackOf(t)][n].status = work[t][n].status
         /\ stack_top[t] = Below(work[t][n].sp)

(***************************************************************************)
(* The TLB never leads one thread to the stack of another: at every refill *)
(* the current thread, whose areas are searched, is the one whose address  *)
(* space missed (thread_switch changes the first, cpu_switch_context later *)
(* the second).                                                            *)
(***************************************************************************)
StackPrivate == \A t \in Thread : tlb[t] \in {NULL, t}

(***************************************************************************)
(* A handler or a switch that has begun gets back to some code, or stops   *)
(* the machine: a miss on the stack is not answered by further misses for  *)
(* ever.                                                                   *)
(***************************************************************************)
HandlersEnd == ~InCode ~> (InCode \/ pc = <<"halt">>)
=============================================================================
