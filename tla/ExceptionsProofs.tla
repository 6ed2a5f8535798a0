-------------------------- MODULE ExceptionsProofs --------------------------
(***************************************************************************)
(* Proofs about module Exceptions.  The invariant says, for every place    *)
(* the CPU can be in, where the context of every thread is: in the         *)
(* registers, in the static kernel area, or in a frame of its own stack.   *)
(* A refill of the TLB is seen as a pause: the place that missed keeps its *)
(* context, only now in EPC and in the frame of handle_tlb_refill.         *)
(***************************************************************************)
EXTENDS Exceptions, TLAPS

Status == [exl : BOOLEAN, ie : BOOLEAN, um : BOOLEAN]
Point == {"code"} \X Thread \X Nat \X {0, 1}
Pointer == {"kernel", "user"} \X (Thread \union {NULL}) \X Nat
Activation == [code : Point, status : Status, sp : Pointer]

(* The stack pointer of t with k frames on its stack. *)
Sp(t, k) == IF t \in inuser THEN UserSp(k) ELSE KernelSp(t, k)

(* The frame with number i of the stack t uses, and the number of its      *)
(* activations, interrupted ones and the last.                             *)
At(t, i) == stack[StackOf(t)][i]
Depth(t) == Len(work[t])
Latest(t) == work[t][Depth(t)]

-----------------------------------------------------------------------------
(* Types, as far as the contents of the variables are not said below. *)
IsStack ==
  /\ DOMAIN stack = Slots
  /\ stack = [s \in Slots |-> stack[s]]
  /\ \A s \in Slots : /\ DOMAIN stack[s] = 1 .. NEST + 1
                      /\ stack[s] = [k \in 1 .. NEST + 1 |-> stack[s][k]]

IsCp0 ==
  /\ cp0 = [epc |-> cp0.epc, status |-> cp0.status, cause |-> cp0.cause,
            badva |-> cp0.badva]
  /\ cp0.status \in Status

IsArea ==
  /\ area = context(area.regs, area.epc, area.cause, area.badva, area.entryhi,
                    area.status)
  /\ area.status \in Status

Types ==
  /\ IsStack
  /\ IsCp0
  /\ IsArea
  /\ work \in [Thread -> Seq(Activation)]
  /\ stack_top = [t \in Thread |-> stack_top[t]]
  /\ tlb \in [Thread -> Thread \union {NULL}]
  /\ inuser \subseteq User
  /\ dead \subseteq Thread
  /\ current \in Thread \ dead

-----------------------------------------------------------------------------
(* Activation i of t is the thread, for 1, or the handler of the exception *)
(* with number i - 1; a handler that has just begun runs with interrupts   *)
(* disabled.                                                               *)
IsActivation(a, t, i) ==
  \E v \in {0, 1}, st \in Status :
    /\ a = [code |-> Code(t, i - 1, v), status |-> st, sp |-> Sp(t, i - 1)]
    /\ ~st.exl
    /\ v = 0 /\ i > 1 => ~st.ie

(* Context f is what handle_general pushes when it interrupts a. *)
Pushed(f, a, t) ==
  /\ f.regs = a.code
  /\ f.epc = a.code
  /\ f.status = [a.status EXCEPT !.exl = TRUE]
  /\ f.entryhi = t

Nested(t) ==
  /\ Depth(t) \in 1 .. NEST + 1
  /\ \A i \in 1 .. Depth(t) : IsActivation(work[t][i], t, i)
  /\ \A i \in 1 .. Depth(t) - 1 : Pushed(At(t, i), work[t][i], t)

(* cpu_switch_context has saved the context of t on its stack. *)
Parked(t) ==
  /\ At(t, Depth(t)).regs = Latest(t).code
  /\ At(t, Depth(t)).status = Latest(t).status
  /\ stack_top[t] = Sp(t, Depth(t))

Rest(X) == \A t \in Thread \ (dead \union X) : Nested(t) /\ Parked(t)

(* The area of handle_general holds what interrupted the current thread. *)
InArea ==
  /\ area.epc = Latest(current).code
  /\ area.status = [Latest(current).status EXCEPT !.exl = TRUE]
  /\ area.entryhi = current

(***************************************************************************)
(* The places in which an access to the stack can miss, with program       *)
(* counter p, registers r, stack pointer s and Status st: those of the CPU *)
(* or, during a refill, those it will go on with.                          *)
(***************************************************************************)
AtCode(p, r, s, st) ==
  /\ p = Latest(current).code /\ r = p
  /\ s = Latest(current).sp /\ st = Latest(current).status

AtSave(p, r, s, st) ==
  /\ p = <<"save">> /\ InArea
  /\ r = Latest(current).code
  /\ s = Sp(current, Depth(current)) /\ st = KernelMode

AtMove(p, r, s, st) ==
  /\ p = <<"move">> /\ InArea
  /\ At(current, Depth(current)).regs = Latest(current).code
  /\ s = Sp(current, Depth(current)) /\ st = KernelMode

AtUnload(p, r, s, st) ==
  /\ p = <<"unload">>
  /\ Pushed(At(current, Depth(current)), Latest(current), current)
  /\ s = Sp(current, Depth(current)) /\ ~st.ie

AtLoad(p, r, s, st) ==
  /\ p = <<"load">>
  /\ area.epc = Latest(current).code
  /\ area.status = [Latest(current).status EXCEPT !.exl = TRUE]
  /\ At(current, Depth(current)).regs = Latest(current).code
  /\ s = Sp(current, Depth(current)) /\ ~st.ie

AtSwitch(p, r, s, st) ==
  /\ p = <<"sw_load">> /\ Parked(current)
  /\ s = Sp(current, Depth(current)) /\ ~st.ie

MayMiss(p, r, s, st) ==
  /\ Nested(current)
  /\ st \in Status /\ ~st.exl
  /\ \/ AtCode(p, r, s, st)
     \/ /\ Depth(current) <= NEST
        /\ \/ AtSave(p, r, s, st) \/ AtMove(p, r, s, st)
           \/ AtUnload(p, r, s, st) \/ AtLoad(p, r, s, st)
     \/ AtSwitch(p, r, s, st)

Masked == [cp0.status EXCEPT !.exl = FALSE]

-----------------------------------------------------------------------------
(* The places of the CPU. *)
Running == asid = current /\ Rest({current}) /\ MayMiss(pc, regs, sp, cp0.status)

Refilling ==
  /\ asid = current /\ Rest({current}) /\ cp0.status.exl
  /\ cp0.badva = "stack" => current \in inuser
  /\ \/ pc = <<"handle_tlb_refill">> /\ MayMiss(cp0.epc, regs, sp, Masked)
     \/ /\ pc = <<"wrapped_tlb_refill">> /\ sp = StaticSp
        /\ MayMiss(cp0.epc, frame.regs, frame.sp, Masked)

(* An exception has been taken. *)
Excepted ==
  /\ pc = <<"handle_general">>
  /\ asid = current /\ Rest({current}) /\ Nested(current)
  /\ Depth(current) <= NEST
  /\ cp0.epc = Latest(current).code /\ regs = Latest(current).code
  /\ cp0.status = [Latest(current).status EXCEPT !.exl = TRUE]
  /\ sp = Latest(current).sp

Returning ==
  /\ pc = <<"eret">>
  /\ asid = current /\ Rest({current}) /\ Nested(current)
  /\ area.epc = Latest(current).code /\ regs = Latest(current).code
  /\ area.status = [Latest(current).status EXCEPT !.exl = TRUE]
  /\ sp = Latest(current).sp
  /\ ~cp0.status.ie

(* thread_switch leaves o, which goes on later. *)
Leaving(o) ==
  /\ pc = <<"sw_save">>
  /\ asid = o /\ Rest({o}) /\ Nested(o)
  /\ regs = Latest(o).code /\ cp0.status = Latest(o).status
  /\ sp = Latest(o).sp
  /\ ~cp0.status.ie

(* thread_switch leaves a finished thread or the boot code for good. *)
Abandoning ==
  /\ pc = <<"sw_save">>
  /\ Rest({})
  /\ regs[2] \in dead \union {NULL}
  /\ \/ sp = StaticSp
     \/ asid \in dead /\ \E k \in 0 .. NEST : sp = Sp(asid, k)
  /\ cp0.status.ie => cp0.status.exl
  /\ cp0.status.exl => current \notin inuser \/ tlb[current] # NULL

(* A switch out of handle_tlb_refill: EXL is still set, the stack is there. *)
Escaping ==
  /\ pc = <<"sw_load">>
  /\ asid = current /\ Rest({})
  /\ sp = Sp(current, Depth(current))
  /\ cp0.status.exl /\ Resident

Entering ==
  /\ asid = current /\ Rest({current}) /\ current \in inuser
  /\ cp0.status = status(TRUE, TRUE, TRUE)
  /\ \/ pc = <<"write_cp0_epc">>
     \/ pc = <<"cpu_uspace_jump">> /\ cp0.epc = Code(current, 0, 0)

Stopped == pc = <<"halt">> /\ ~cp0.status.ie

Phase ==
  \/ Running \/ Refilling \/ Excepted \/ Returning
  \/ Resident /\ ((\E o \in Thread \ dead : Leaving(o)) \/ Abandoning)
  \/ Escaping \/ Entering \/ Stopped

SwitchInv == Types /\ StackPrivate /\ Phase

-----------------------------------------------------------------------------
(***************************************************************************)
(* Code points, stack pointers and stacks.                                 *)
(***************************************************************************)

LEMMA CodeParts ==
  ASSUME NEW t, NEW n, NEW v
  PROVE  /\ Code(t, n, v)[1] = "code" /\ Code(t, n, v)[2] = t
         /\ Code(t, n, v)[3] = n /\ Code(t, n, v)[4] = v
         /\ t \in Thread /\ n \in Nat /\ v \in {0, 1} => Code(t, n, v) \in Point
  BY DEF Code, Point

LEMMA SpParts ==
  ASSUME NEW t \in Thread, NEW k \in Nat
  PROVE  /\ Sp(t, k)[3] = k
         /\ Sp(t, k)[1] = "user" <=> t \in inuser
         /\ t \notin inuser => Sp(t, k)[1] = "kernel" /\ Sp(t, k)[2] = t
         /\ Sp(t, k) # StaticSp
         /\ Sp(t, k) \in Pointer
         /\ Below(Sp(t, k)) = Sp(t, k + 1)
         /\ k > 0 => Above(Sp(t, k)) = Sp(t, k - 1)
  BY ExceptionsAssumption DEF Sp, UserSp, KernelSp, StaticSp, Pointer, Below, Above

LEMMA StackParts ==
  ASSUME NEW t \in Thread, NEW u \in Thread
  PROVE  /\ StackOf(t) \in Slots
         /\ StackOf(t) = StackOf(u) => t = u
  BY DEF StackOf, Slots

(* The stack the CPU accesses is the one of the thread whose address space *)
(* is set, because the TLB leads nowhere else.                             *)
LEMMA OwnSlot ==
  ASSUME NEW t \in Thread, NEW k \in Nat, StackPrivate, Resident, asid = t,
         sp = Sp(t, k)
  PROVE  Slot = StackOf(t) /\ Frame(sp) = At(t, k)
<1>1. sp[3] = k /\ (sp[1] = "user" <=> t \in inuser)
  BY SpParts
<1>2. Slot = StackOf(t)
  <2>1. CASE t \in inuser
    <3>1. tlb[t] = t
      BY <1>1, <2>1 DEF Resident, StackPrivate
    <3> QED
      BY <1>1, <2>1, <3>1 DEF Slot, StackOf
  <2>2. CASE t \notin inuser
    <3>1. sp[1] = "kernel" /\ sp[2] = t
      BY <2>2, SpParts
    <3> QED
      BY <2>2, <3>1 DEF Slot, StackOf
  <2> QED
    BY <2>1, <2>2
<1> QED
  BY <1>1, <1>2 DEF Frame, At

(* A push on the stack of t, or the release of a frame. *)
Put(t, k, c) == stack' = [stack EXCEPT ![StackOf(t)][k] = c]

LEMMA PutAt ==
  ASSUME IsStack, NEW t \in Thread, NEW k \in 1 .. NEST + 1, NEW c,
         Put(t, k, c), inuser' = inuser
  PROVE  /\ IsStack'
         /\ At(t, k)' = c
         /\ \A i \in 1 .. NEST + 1 : i # k => At(t, i)' = At(t, i)
         /\ \A u \in Thread \ {t}, i \in 1 .. NEST + 1 : At(u, i)' = At(u, i)
<1> DEFINE s == StackOf(t)
           row == [stack[s] EXCEPT ![k] = c]
<1>1. s \in Slots /\ \A u \in Thread : StackOf(u)' = StackOf(u)
  BY StackParts DEF StackOf
<1>2. \A u \in Thread \ {t} : StackOf(u) \in Slots /\ StackOf(u) # s
  BY StackParts
<1>3. stack' = [stack EXCEPT ![s] = row]
  BY DEF Put
<1> HIDE DEF s
<1>4. /\ DOMAIN row = 1 .. NEST + 1
      /\ row = [i \in 1 .. NEST + 1 |-> row[i]]
      /\ row[k] = c
      /\ \A i \in 1 .. NEST + 1 : i # k => row[i] = stack[s][i]
  BY <1>1 DEF IsStack
<1> HIDE DEF row
<1>5. /\ DOMAIN stack' = Slots
      /\ stack' = [r \in Slots |-> stack'[r]]
      /\ stack'[s] = row
      /\ \A r \in Slots : r # s => stack'[r] = stack[r]
  BY <1>1, <1>3 DEF IsStack
<1>6. ASSUME NEW r \in Slots
      PROVE  /\ DOMAIN stack'[r] = 1 .. NEST + 1
             /\ stack'[r] = [i \in 1 .. NEST + 1 |-> stack'[r][i]]
  <2>1. CASE r = s
    BY <1>4, <1>5, <2>1
  <2>2. CASE r # s
    BY <1>5, <2>2 DEF IsStack
  <2> QED
    BY <2>1, <2>2
<1>7. IsStack'
  BY <1>5, <1>6 DEF IsStack, Slots
<1>8. StackOf(t)' = s /\ StackOf(t) = s
  BY <1>1 DEF s
<1> QED
  BY <1>1, <1>2, <1>4, <1>5, <1>7, <1>8 DEF At

-----------------------------------------------------------------------------
(***************************************************************************)
(* What a step leaves alone.                                               *)
(***************************************************************************)

(* The handlers that t has begun stay as they are while the frames below   *)
(* its latest activation do.                                               *)
LEMMA KeepNested ==
  ASSUME NEW t \in Thread, Nested(t), ExceptionsAssumption,
         work'[t] = work[t], t \in inuser' <=> t \in inuser,
         \A i \in 1 .. Depth(t) - 1 : At(t, i)' = At(t, i)
  PROVE  Nested(t)'
<1>1. Depth(t)' = Depth(t)
  BY DEF Depth
<1>2. \A k : Sp(t, k)' = Sp(t, k)
  BY DEF Sp, UserSp, KernelSp
<1>3. \A i \in 1 .. Depth(t) : IsActivation(work[t][i], t, i)'
  <2> SUFFICES ASSUME NEW i \in 1 .. Depth(t)
               PROVE  IsActivation(work[t][i], t, i)'
    OBVIOUS
  <2>1. PICK v \in {0, 1}, st \in Status :
          /\ work[t][i] = [code |-> Code(t, i - 1, v), status |-> st,
                           sp |-> Sp(t, i - 1)]
          /\ ~st.exl
          /\ v = 0 /\ i > 1 => ~st.ie
    BY DEF Nested, IsActivation
  <2>2. work'[t][i] = [code |-> Code(t, i - 1, v), status |-> st,
                       sp |-> Sp(t, i - 1)']
    BY <1>2, <2>1
  <2> QED
    BY <2>1, <2>2 DEF IsActivation
<1>4. \A i \in 1 .. Depth(t) - 1 : Pushed(At(t, i), work[t][i], t)'
  BY DEF Nested, Pushed
<1> QED
  BY <1>1, <1>3, <1>4 DEF Nested

LEMMA KeepParked ==
  ASSUME NEW t \in Thread, Parked(t),
         work'[t] = work[t], t \in inuser' <=> t \in inuser,
         At(t, Depth(t))' = At(t, Depth(t)), stack_top'[t] = stack_top[t]
  PROVE  Parked(t)'
<1>1. Depth(t)' = Depth(t) /\ Latest(t)' = Latest(t)
  BY DEF Depth, Latest
<1>2. \A k : Sp(t, k)' = Sp(t, k)
  BY DEF Sp, UserSp, KernelSp
<1> QED
  BY <1>1, <1>2 DEF Parked

(* A step that changes only what belongs to o, or ends threads. *)
LEMMA KeepRest ==
  ASSUME NEW X, NEW Y, Rest(X), dead \union X \subseteq dead' \union Y,
         \A t \in Thread \ (dead' \union Y) :
            /\ work'[t] = work[t] /\ (t \in inuser' <=> t \in inuser)
            /\ stack_top'[t] = stack_top[t]
            /\ \A i \in 1 .. NEST + 1 : At(t, i)' = At(t, i)
  PROVE  Rest(Y)'
<1> SUFFICES ASSUME NEW t \in Thread \ (dead' \union Y)
             PROVE  Nested(t)' /\ Parked(t)'
  BY DEF Rest
<1>1. Nested(t) /\ Parked(t)
  BY DEF Rest
<1>2. Depth(t) \in 1 .. NEST + 1
  BY <1>1 DEF Nested
<1>3. At(t, Depth(t))' = At(t, Depth(t))
  <2>1. Depth(t)' = Depth(t)
    BY DEF Depth
  <2>2. \A i \in 1 .. NEST + 1 : At(t, i)' = At(t, i)
    OBVIOUS
  <2> QED
    BY <1>2, <2>1, <2>2 DEF At
<1>4. \A i \in 1 .. Depth(t) - 1 : At(t, i)' = At(t, i)
  <2>1. \A i \in 1 .. Depth(t) - 1 : i \in 1 .. NEST + 1
    BY <1>2, ExceptionsAssumption
  <2> QED
    BY <2>1
<1> QED
  BY <1>1, <1>3, <1>4, KeepNested, KeepParked, ExceptionsAssumption

LEMMA SameParts ==
  ASSUME UNCHANGED <<stack, work, inuser>>, NEW t
  PROVE  /\ Depth(t)' = Depth(t) /\ Latest(t)' = Latest(t)
         /\ \A i : At(t, i)' = At(t, i)
         /\ \A k : Sp(t, k)' = Sp(t, k)
  BY DEF At, Depth, Latest, Sp, UserSp, KernelSp, StackOf

LEMMA SameRest ==
  ASSUME NEW X, Rest(X), UNCHANGED <<stack, stack_top, work, inuser, dead>>
  PROVE  Rest(X)'
<1>1. \A t \in Thread \ (dead' \union X) :
            /\ work'[t] = work[t] /\ (t \in inuser' <=> t \in inuser)
            /\ stack_top'[t] = stack_top[t]
            /\ \A i \in 1 .. NEST + 1 : At(t, i)' = At(t, i)
  BY SameParts
<1> QED
  BY <1>1, KeepRest

LEMMA SameNested ==
  ASSUME NEW t \in Thread, Nested(t), UNCHANGED <<stack, work, inuser>>
  PROVE  Nested(t)'
<1>1. \A i \in 1 .. Depth(t) - 1 : At(t, i)' = At(t, i)
  BY SameParts
<1> QED
  BY <1>1, KeepNested, ExceptionsAssumption

LEMMA SameParked ==
  ASSUME NEW t \in Thread, Parked(t),
         UNCHANGED <<stack, stack_top, work, inuser>>
  PROVE  Parked(t)'
  BY SameParts DEF Parked

(* A place that may miss does not depend on the TLB nor on the frame of    *)
(* handle_tlb_refill.                                                      *)
LEMMA SameMiss ==
  ASSUME NEW p, NEW r, NEW s, NEW st, MayMiss(p, r, s, st),
         current \in Thread,
         UNCHANGED <<stack, stack_top, work, inuser, current, area>>
  PROVE  MayMiss(p, r, s, st)'
<1> DEFINE c == current
           n == Depth(c)
           a == Latest(c)
           f == At(c, n)
           o == Sp(c, n)
<1>1. c' = c /\ n' = n /\ a' = a
  BY SameParts DEF Depth, Latest
<1>2. f' = f /\ o' = o
  BY <1>1 DEF At, StackOf, Sp, UserSp, KernelSp
<1>3. Nested(c)'
  <2> SUFFICES ASSUME NEW t \in Thread, t = c
               PROVE  Nested(t)'
    BY <1>1
  <2> QED
    BY SameNested DEF MayMiss
<1>4. ASSUME Parked(c) PROVE Parked(c)'
  <2> SUFFICES ASSUME NEW t \in Thread, t = c
               PROVE  Parked(t)'
    BY <1>1
  <2> QED
    BY <1>4, SameParked
<1>5. InArea => InArea'
  BY <1>1 DEF InArea
<1>6. AtCode(p, r, s, st) => AtCode(p, r, s, st)'
  BY <1>1 DEF AtCode
<1>7. AtSave(p, r, s, st) => AtSave(p, r, s, st)'
  BY <1>1, <1>2, <1>5 DEF AtSave
<1>8. AtMove(p, r, s, st) => AtMove(p, r, s, st)'
  BY <1>1, <1>2, <1>5 DEF AtMove
<1>9. AtUnload(p, r, s, st) => AtUnload(p, r, s, st)'
  BY <1>1, <1>2 DEF AtUnload, Pushed
<1>10. AtLoad(p, r, s, st) => AtLoad(p, r, s, st)'
  BY <1>1, <1>2 DEF AtLoad
<1>11. AtSwitch(p, r, s, st) => AtSwitch(p, r, s, st)'
  BY <1>1, <1>2, <1>4 DEF AtSwitch
<1> QED
  BY <1>1, <1>3, <1>6, <1>7, <1>8, <1>9, <1>10, <1>11 DEF MayMiss

-----------------------------------------------------------------------------
(***************************************************************************)
(* What the invariant says in each place.                                  *)
(***************************************************************************)

LEMMA LatestParts ==
  ASSUME NEW t \in Thread, Nested(t)
  PROVE  /\ Depth(t) \in Nat \ {0} /\ Depth(t) - 1 \in Nat
         /\ Depth(t) \in 1 .. NEST + 1
         /\ Latest(t).sp = Sp(t, Depth(t) - 1)
         /\ Latest(t).status \in Status /\ ~Latest(t).status.exl
         /\ \E v \in {0, 1} :
              /\ Latest(t).code = Code(t, Depth(t) - 1, v)
              /\ v = 0 /\ Depth(t) > 1 => ~Latest(t).status.ie
<1>1. Depth(t) \in 1 .. NEST + 1 /\ NEST \in Nat
  BY ExceptionsAssumption DEF Nested
<1>2. IsActivation(Latest(t), t, Depth(t))
  BY <1>1 DEF Nested, Latest
<1> QED
  BY <1>1, <1>2 DEF IsActivation

(* A saved context is never that of code. *)
LEMMA CodePlace ==
  ASSUME NEW t \in Thread, Nested(t)
  PROVE  Latest(t).code[1] = "code"
  BY LatestParts, CodeParts

LEMMA Places ==
  /\ Refilling => pc[1] \in {"handle_tlb_refill", "wrapped_tlb_refill"}
  /\ Excepted => pc[1] = "handle_general"
  /\ Returning => pc[1] = "eret"
  /\ (\E o \in Thread \ dead : Leaving(o)) => pc[1] = "sw_save"
  /\ Abandoning => pc[1] = "sw_save"
  /\ Escaping => pc[1] = "sw_load"
  /\ Entering => pc[1] \in {"write_cp0_epc", "cpu_uspace_jump"}
  /\ Stopped => pc[1] = "halt"
<1>1. Refilling => pc[1] \in {"handle_tlb_refill", "wrapped_tlb_refill"}
  BY DEF Refilling
<1>2. Excepted => pc[1] = "handle_general"
  BY DEF Excepted
<1>3. Returning => pc[1] = "eret"
  BY DEF Returning
<1>4. (\E o \in Thread \ dead : Leaving(o)) => pc[1] = "sw_save"
  BY DEF Leaving
<1>5. Abandoning => pc[1] = "sw_save"
  BY DEF Abandoning
<1>6. Escaping => pc[1] = "sw_load"
  BY DEF Escaping
<1>7. Entering => pc[1] \in {"write_cp0_epc", "cpu_uspace_jump"}
  BY DEF Entering
<1>8. Stopped => pc[1] = "halt"
  BY DEF Stopped
<1> QED
  BY <1>1, <1>2, <1>3, <1>4, <1>5, <1>6, <1>7, <1>8

LEMMA MissPlaces ==
  ASSUME NEW p, NEW r, NEW s, NEW st
  PROVE  /\ AtSave(p, r, s, st) => p[1] = "save"
         /\ AtMove(p, r, s, st) => p[1] = "move"
         /\ AtUnload(p, r, s, st) => p[1] = "unload"
         /\ AtLoad(p, r, s, st) => p[1] = "load"
         /\ AtSwitch(p, r, s, st) => p[1] = "sw_load"
         /\ current \in Thread /\ Nested(current) /\ AtCode(p, r, s, st)
              => p[1] = "code"
<1>1. AtSave(p, r, s, st) => p[1] = "save"
  BY DEF AtSave
<1>2. AtMove(p, r, s, st) => p[1] = "move"
  BY DEF AtMove
<1>3. AtUnload(p, r, s, st) => p[1] = "unload"
  BY DEF AtUnload
<1>4. AtLoad(p, r, s, st) => p[1] = "load"
  BY DEF AtLoad
<1>5. AtSwitch(p, r, s, st) => p[1] = "sw_load"
  BY DEF AtSwitch
<1>6. current \in Thread /\ Nested(current) /\ AtCode(p, r, s, st)
        => p[1] = "code"
  BY CodePlace DEF AtCode
<1> QED
  BY <1>1, <1>2, <1>3, <1>4, <1>5, <1>6

(* The place of the CPU and what is known there. *)
LEMMA StateOf ==
  ASSUME SwitchInv
  PROVE  /\ pc[1] = "code" => Running /\ AtCode(pc, regs, sp, cp0.status)
         /\ pc[1] = "save" => Running /\ AtSave(pc, regs, sp, cp0.status)
         /\ pc[1] = "move" => Running /\ AtMove(pc, regs, sp, cp0.status)
         /\ pc[1] = "unload" => Running /\ AtUnload(pc, regs, sp, cp0.status)
         /\ pc[1] = "load" => Running /\ AtLoad(pc, regs, sp, cp0.status)
         /\ pc[1] = "sw_load" =>
              Escaping \/ (Running /\ AtSwitch(pc, regs, sp, cp0.status))
         /\ pc[1] = "handle_general" => Excepted
         /\ pc[1] = "eret" => Returning
         /\ pc[1] \in {"handle_tlb_refill", "wrapped_tlb_refill"} => Refilling
         /\ pc[1] = "sw_save" =>
              Resident /\ ((\E o \in Thread \ dead : Leaving(o)) \/ Abandoning)
         /\ pc[1] \in {"write_cp0_epc", "cpu_uspace_jump"} => Entering
         /\ pc[1] \in {"save", "move", "unload", "load"}
              => Depth(current) <= NEST
<1> DEFINE a == AtSave(pc, regs, sp, cp0.status)
           b == AtMove(pc, regs, sp, cp0.status)
           c == AtUnload(pc, regs, sp, cp0.status)
           d == AtLoad(pc, regs, sp, cp0.status)
           e == AtSwitch(pc, regs, sp, cp0.status)
           f == AtCode(pc, regs, sp, cp0.status)
           L == \E o \in Thread \ dead : Leaving(o)
           w == pc[1]
           B == Depth(current) <= NEST
<1>1. Running => f \/ (B /\ (a \/ b \/ c \/ d)) \/ e
  BY DEF Running, MayMiss
<1>2. \/ Running \/ Refilling \/ Excepted \/ Returning
      \/ Resident /\ (L \/ Abandoning)
      \/ Escaping \/ Entering \/ Stopped
  BY DEF SwitchInv, Phase
<1>3. /\ a => w = "save"
      /\ b => w = "move"
      /\ c => w = "unload"
      /\ d => w = "load"
      /\ e => w = "sw_load"
  BY MissPlaces
<1>4. Running /\ f => w = "code"
  BY MissPlaces DEF SwitchInv, Types, Running, MayMiss
<1>5. /\ Refilling => w \in {"handle_tlb_refill", "wrapped_tlb_refill"}
      /\ Excepted => w = "handle_general"
      /\ Returning => w = "eret"
      /\ L => w = "sw_save"
      /\ Abandoning => w = "sw_save"
      /\ Escaping => w = "sw_load"
      /\ Entering => w \in {"write_cp0_epc", "cpu_uspace_jump"}
      /\ Stopped => w = "halt"
  BY Places
<1> HIDE DEF a, b, c, d, e, f, L, w, B
<1>6. /\ w = "code" => Running /\ f
      /\ w = "save" => Running /\ a
      /\ w = "move" => Running /\ b
      /\ w = "unload" => Running /\ c
      /\ w = "load" => Running /\ d
      /\ w = "sw_load" => Escaping \/ (Running /\ e)
      /\ w \in {"save", "move", "unload", "load"} => B
  BY <1>1, <1>2, <1>3, <1>4, <1>5
<1>7. /\ w = "handle_general" => Excepted
      /\ w = "eret" => Returning
      /\ w \in {"handle_tlb_refill", "wrapped_tlb_refill"} => Refilling
      /\ w = "sw_save" => Resident /\ (L \/ Abandoning)
      /\ w \in {"write_cp0_epc", "cpu_uspace_jump"} => Entering
  BY <1>1, <1>2, <1>3, <1>4, <1>5
<1> QED
  BY <1>6, <1>7 DEF a, b, c, d, e, f, L, w, B

(* The CPU never runs into what is left over. *)
LEMMA PlaceNames ==
  ASSUME SwitchInv
  PROVE  pc[1] # "junk"
<1>1. Running => pc[1] \in {"code", "save", "move", "unload", "load", "sw_load"}
  <2> SUFFICES ASSUME Running
               PROVE  pc[1] \in {"code", "save", "move", "unload", "load", "sw_load"}
    OBVIOUS
  <2>1. /\ current \in Thread /\ Nested(current)
        /\ \/ AtCode(pc, regs, sp, cp0.status)
           \/ AtSave(pc, regs, sp, cp0.status) \/ AtMove(pc, regs, sp, cp0.status)
           \/ AtUnload(pc, regs, sp, cp0.status) \/ AtLoad(pc, regs, sp, cp0.status)
           \/ AtSwitch(pc, regs, sp, cp0.status)
    BY DEF Running, MayMiss, SwitchInv, Types
  <2> QED
    BY <2>1, MissPlaces
<1> QED
  BY <1>1, Places DEF SwitchInv, Phase

LEMMA CodeState ==
  ASSUME SwitchInv, InCode
  PROVE  /\ asid = current /\ Rest({current}) /\ Nested(current)
         /\ AtCode(pc, regs, sp, cp0.status)
  BY StateOf DEF InCode, Running, MayMiss

LEMMA CodeParts2 ==
  ASSUME SwitchInv, InCode
  PROVE  /\ pc[2] = current /\ Level = Depth(current) - 1 /\ pc[4] \in {0, 1}
         /\ pc = Code(current, Level, pc[4]) /\ regs = pc
         /\ sp = Sp(current, Level) /\ sp[3] = Level
         /\ Level \in 0 .. NEST
         /\ cp0.status = Latest(current).status /\ ~cp0.status.exl
         /\ pc[4] = 0 /\ Level > 0 => ~cp0.status.ie
<1>1. Nested(current) /\ AtCode(pc, regs, sp, cp0.status) /\ current \in Thread
  BY CodeState DEF SwitchInv, Types
<1>2. PICK v \in {0, 1} :
        /\ pc = Code(current, Depth(current) - 1, v)
        /\ v = 0 /\ Depth(current) > 1 => ~cp0.status.ie
  BY <1>1, LatestParts DEF AtCode
<1>3. pc[2] = current /\ pc[3] = Depth(current) - 1 /\ pc[4] = v
  BY <1>2, CodeParts
<1>4. Depth(current) \in 1 .. NEST + 1 /\ NEST \in Nat
  BY <1>1, LatestParts, ExceptionsAssumption
<1>5. sp = Sp(current, Level) /\ sp[3] = Level
  BY <1>1, <1>3, <1>4, LatestParts, SpParts DEF AtCode, Level
<1>6. regs = pc /\ cp0.status = Latest(current).status /\ ~cp0.status.exl
  BY <1>1, LatestParts DEF AtCode
<1> QED
  BY <1>2, <1>3, <1>4, <1>5, <1>6 DEF Level

-----------------------------------------------------------------------------
(***************************************************************************)
(* Types.                                                                  *)
(***************************************************************************)

LEMMA SameStack ==
  ASSUME IsStack, stack' = stack
  PROVE  IsStack'
  BY DEF IsStack, Slots

LEMMA SameTypes ==
  ASSUME Types, IsCp0', IsArea',
         UNCHANGED <<stack, stack_top, work, tlb, inuser, dead, current>>
  PROVE  Types'
  BY SameStack DEF Types

LEMMA SameArea ==
  ASSUME IsArea, area' = area
  PROVE  IsArea'
  BY DEF IsArea, context

LEMMA NoExceptionType ==
  ASSUME NEW st \in Status, cp0' = NoException(st)
  PROVE  IsCp0' /\ cp0'.status = st
  BY DEF IsCp0, NoException

LEMMA KernelModeType ==
  /\ KernelMode \in Status
  /\ ~KernelMode.exl /\ ~KernelMode.ie /\ ~KernelMode.um
  BY DEF KernelMode, Status, status

LEMMA NoContextType ==
  ASSUME area' = NoContext
  PROVE  IsArea'
  BY KernelModeType DEF IsArea, NoContext, context

(* TakeException, field by field, for code that EXL does not protect. *)
LEMMA TakeParts ==
  ASSUME IsCp0, ~cp0.status.exl, NEW refill \in BOOLEAN, NEW cause, NEW badva,
         TakeException(refill, cause, badva)
  PROVE  /\ cp0' = [epc |-> pc, status |-> [cp0.status EXCEPT !.exl = TRUE],
                    cause |-> cause, badva |-> badva]
         /\ IsCp0'
         /\ cp0'.epc = pc /\ cp0'.badva = badva
         /\ cp0'.status = [cp0.status EXCEPT !.exl = TRUE]
         /\ cp0'.status.exl
         /\ Masked' = cp0.status
<1> DEFINE new == [cp0.status EXCEPT !.exl = TRUE]
<1>1. new \in Status /\ new.exl
  BY DEF IsCp0, Status
<1>2. cp0' = [epc |-> pc, status |-> new, cause |-> cause, badva |-> badva]
  BY DEF IsCp0, TakeException
<1>3. [new EXCEPT !.exl = FALSE] = cp0.status
  BY DEF IsCp0, Status
<1> HIDE DEF new
<1>4. cp0'.epc = pc /\ cp0'.badva = badva /\ cp0'.status = new
  BY <1>2
<1>5. Masked' = cp0.status
  BY <1>3, <1>4 DEF Masked
<1>6. IsCp0'
  BY <1>1, <1>2, <1>4 DEF IsCp0
<1> QED
  BY <1>1, <1>2, <1>4, <1>5, <1>6 DEF new

-----------------------------------------------------------------------------
(***************************************************************************)
(* Exceptions are taken.                                                   *)
(***************************************************************************)

(* Only code runs with interrupts enabled. *)
LEMMA EnabledInCode ==
  ASSUME SwitchInv, cp0.status.ie, ~cp0.status.exl
  PROVE  InCode
<1>1. Excepted => cp0.status.exl
  <2> SUFFICES ASSUME Excepted PROVE cp0.status.exl
    OBVIOUS
  <2>1. Latest(current).status \in Status
    BY LatestParts DEF Excepted, SwitchInv, Types
  <2> QED
    BY <2>1 DEF Excepted, Status
<1>2. ~Refilling /\ ~Returning /\ ~Abandoning /\ ~Escaping /\ ~Stopped
  BY DEF Refilling, Returning, Abandoning, Escaping, Stopped
<1>3. ~Entering /\ ~(\E o \in Thread \ dead : Leaving(o))
  BY DEF Entering, status, Leaving
<1>4. Running
  BY <1>1, <1>2, <1>3 DEF SwitchInv, Phase
<1>5. AtCode(pc, regs, sp, cp0.status)
  BY <1>4, KernelModeType DEF Running, MayMiss, AtSave, AtMove, AtUnload, AtLoad,
                              AtSwitch
<1> QED
  BY <1>4, <1>5, MissPlaces DEF InCode, Running, MayMiss, SwitchInv, Types

LEMMA TakeGeneral ==
  ASSUME SwitchInv, InCode, MayNest, NEW cause, NEW badva,
         TakeException(FALSE, cause, badva)
  PROVE  SwitchInv'
<1>1. /\ asid = current /\ Rest({current}) /\ Nested(current)
      /\ AtCode(pc, regs, sp, cp0.status) /\ Types /\ StackPrivate
      /\ current \in Thread
  BY CodeState DEF SwitchInv, Types
<1>2. ~cp0.status.exl /\ sp[3] = Depth(current) - 1
  BY CodeParts2 DEF SwitchInv
<1>3. /\ UNCHANGED <<regs, sp, asid, area, frame, stack, stack_top, current,
                    inuser, dead, work, tlb>>
      /\ pc' = <<"handle_general">>
  BY DEF TakeException, memory, threads
<1>4. /\ IsCp0' /\ cp0'.epc = pc
      /\ cp0'.status = [cp0.status EXCEPT !.exl = TRUE]
  BY <1>1, <1>2, TakeParts DEF Types
<1>5. Types' /\ StackPrivate'
  BY <1>1, <1>3, <1>4, SameTypes, SameArea DEF Types, StackPrivate
<1>6. Nested(current)' /\ Depth(current)' = Depth(current)
      /\ Latest(current)' = Latest(current)
  <2> SUFFICES ASSUME NEW t \in Thread, t = current
               PROVE  Nested(t)' /\ Depth(t)' = Depth(t) /\ Latest(t)' = Latest(t)
    BY <1>1, <1>3
  <2> QED
    BY <1>1, <1>3, SameNested, SameParts
<1>7. Rest({current})'
  <2> SUFFICES ASSUME NEW t \in Thread, t = current
               PROVE  Rest({t})'
    BY <1>1, <1>3
  <2> QED
    BY <1>1, <1>3, SameRest
<1>8. Depth(current) <= NEST
  BY <1>1, <1>2, LatestParts, ExceptionsAssumption DEF MayNest
<1>9. Excepted'
  BY <1>1, <1>3, <1>4, <1>6, <1>7, <1>8 DEF Excepted, AtCode
<1> QED
  BY <1>5, <1>9 DEF SwitchInv, Phase

LEMMA TakeRefill ==
  ASSUME SwitchInv, Running, NEW cause, NEW badva,
         badva = "stack" => current \in inuser,
         TakeException(TRUE, cause, badva)
  PROVE  SwitchInv'
<1>1. /\ asid = current /\ Rest({current}) /\ MayMiss(pc, regs, sp, cp0.status)
      /\ Types /\ StackPrivate /\ current \in Thread
      /\ ~cp0.status.exl
  BY DEF SwitchInv, Types, Running, MayMiss
<1>2. /\ UNCHANGED <<regs, sp, asid, area, frame, stack, stack_top, current,
                    inuser, dead, work, tlb>>
      /\ pc' = <<"handle_tlb_refill">>
  BY <1>1 DEF TakeException, memory, threads
<1>3. /\ IsCp0' /\ cp0'.epc = pc /\ cp0'.badva = badva
      /\ cp0'.status.exl /\ Masked' = cp0.status
  BY <1>1, TakeParts DEF Types
<1>4. Types' /\ StackPrivate'
  BY <1>1, <1>2, <1>3, SameTypes, SameArea DEF Types, StackPrivate
<1>5. Rest({current})'
  <2> SUFFICES ASSUME NEW t \in Thread, t = current
               PROVE  Rest({t})'
    BY <1>1, <1>2
  <2> QED
    BY <1>1, <1>2, SameRest
<1>6. MayMiss(cp0.epc, regs, sp, Masked)'
  <2> SUFFICES ASSUME NEW p, NEW r, NEW s, NEW st,
                      p = pc, r = regs, s = sp, st = cp0.status
               PROVE  MayMiss(p, r, s, st)'
    BY <1>2, <1>3
  <2> QED
    BY <1>1, <1>2, SameMiss
<1>7. Refilling'
  BY <1>1, <1>2, <1>3, <1>5, <1>6 DEF Refilling
<1> QED
  BY <1>4, <1>7 DEF SwitchInv, Phase

LEMMA InterruptStep ==
  ASSUME SwitchInv, Interrupt
  PROVE  SwitchInv'
  BY EnabledInCode, TakeGeneral DEF Interrupt

LEMMA SyscallStep ==
  ASSUME SwitchInv, Syscall
  PROVE  SwitchInv'
  BY TakeGeneral DEF Syscall

LEMMA FatalStep ==
  ASSUME SwitchInv, Fatal
  PROVE  SwitchInv'
  BY TakeGeneral DEF Fatal

LEMMA UserAccessStep ==
  ASSUME SwitchInv, UserAccess
  PROVE  SwitchInv'
<1>1. InCode /\ MayNest
  BY DEF UserAccess
<1>2. PICK page \in {"data", "bad"}, refill \in BOOLEAN :
        TakeException(refill, "tlb", page)
  BY DEF UserAccess
<1>3. CASE refill = TRUE
  <2>1. Running
    BY <1>1, StateOf DEF InCode
  <2> QED
    BY <1>2, <1>3, <2>1, TakeRefill
<1>4. CASE refill = FALSE
  BY <1>1, <1>2, <1>4, TakeGeneral
<1> QED
  BY <1>3, <1>4

(* An access to the stack that misses does so in a place that can cope. *)
LEMMA StackMissStep ==
  ASSUME SwitchInv, StackMiss
  PROVE  SwitchInv'
<1>1. Running
  BY StateOf DEF InCode, StackMiss, Escaping
<1>2. current \in Thread /\ Nested(current)
  BY <1>1 DEF Running, MayMiss, SwitchInv, Types
<1>3. \E k \in Nat : sp = Sp(current, k)
  BY <1>1, <1>2, LatestParts DEF Running, MayMiss, AtCode, AtSave, AtMove, AtUnload,
                                 AtLoad, AtSwitch
<1>4. current \in inuser
  BY <1>2, <1>3, SpParts DEF StackMiss, Resident
<1> QED
  BY <1>1, <1>4, TakeRefill DEF StackMiss

-----------------------------------------------------------------------------
(***************************************************************************)
(* handle_general and its way back.                                        *)
(***************************************************************************)

LEMMA SameCurrent ==
  ASSUME current \in Thread, UNCHANGED <<stack, work, inuser, current>>
  PROVE  /\ Depth(current)' = Depth(current) /\ Latest(current)' = Latest(current)
         /\ At(current, Depth(current))' = At(current, Depth(current))
         /\ Sp(current, Depth(current))' = Sp(current, Depth(current))
         /\ Nested(current) => Nested(current)'
         /\ Rest({current}) /\ UNCHANGED <<stack_top, dead>> => Rest({current})'
<1> SUFFICES ASSUME NEW t \in Thread, t = current
             PROVE  /\ Depth(t)' = Depth(t) /\ Latest(t)' = Latest(t)
                    /\ At(t, Depth(t))' = At(t, Depth(t))
                    /\ Sp(t, Depth(t))' = Sp(t, Depth(t))
                    /\ Nested(t) => Nested(t)'
                    /\ Rest({t}) /\ UNCHANGED <<stack_top, dead>> => Rest({t})'
  OBVIOUS
<1>1. Depth(t)' = Depth(t) /\ Latest(t)' = Latest(t)
  BY SameParts
<1>2. At(t, Depth(t))' = At(t, Depth(t)) /\ Sp(t, Depth(t))' = Sp(t, Depth(t))
  BY <1>1 DEF At, StackOf, Sp, UserSp, KernelSp
<1>3. Nested(t) => Nested(t)'
  BY SameNested
<1>4. Rest({t}) /\ UNCHANGED <<stack_top, dead>> => Rest({t})'
  BY SameRest
<1> QED
  BY <1>1, <1>2, <1>3, <1>4

(* A frame written at the stack pointer is on the thread's own stack. *)
PutFrame(c) == stack' = [stack EXCEPT ![Slot][sp[3]] = c]

LEMMA PutOwn ==
  ASSUME NEW t \in Thread, asid = t, Resident, StackPrivate, IsStack,
         NEW n \in 1 .. NEST + 1, sp = Sp(t, n), NEW c,
         PutFrame(c), inuser' = inuser
  PROVE  /\ IsStack' /\ Frame(sp) = At(t, n) /\ At(t, n)' = c
         /\ \A i \in 1 .. NEST + 1 : i # n => At(t, i)' = At(t, i)
         /\ \A u \in Thread \ {t}, i \in 1 .. NEST + 1 : At(u, i)' = At(u, i)
<1>1. n \in Nat
  BY ExceptionsAssumption
<1>2. Slot = StackOf(t) /\ Frame(sp) = At(t, n) /\ sp[3] = n
  BY <1>1, OwnSlot, SpParts
<1>3. Put(t, n, c)
  BY <1>2 DEF Put, PutFrame
<1> QED
  BY <1>2, <1>3, PutAt

LEMMA handle_generalStep ==
  ASSUME SwitchInv, handle_general
  PROVE  SwitchInv'
<1>1. Excepted /\ Types /\ StackPrivate /\ current \in Thread
  BY StateOf DEF handle_general, SwitchInv, Types
<1>2. UNCHANGED <<regs, asid, frame, stack, stack_top, current, inuser, dead,
                  work, tlb>>
  BY DEF handle_general, memory, threads
<1>3. cp0' = NoException(KernelMode) /\ pc' = <<"save">> /\ sp' = Below(sp)
      /\ area' = context(Junk, cp0.epc, cp0.cause, cp0.badva, asid, cp0.status)
  BY DEF handle_general
<1>4. IsCp0' /\ cp0'.status = KernelMode
  BY <1>3, NoExceptionType, KernelModeType
<1>5. /\ IsArea' /\ area'.epc = cp0.epc /\ area'.status = cp0.status
      /\ area'.entryhi = asid
  BY <1>1, <1>3 DEF IsArea, context, Types, IsCp0
<1>6. Types' /\ StackPrivate'
  BY <1>1, <1>2, <1>4, <1>5, SameTypes DEF Types, StackPrivate
<1>7. /\ Nested(current)' /\ Rest({current})'
      /\ Depth(current)' = Depth(current) /\ Latest(current)' = Latest(current)
      /\ Sp(current, Depth(current))' = Sp(current, Depth(current))
  BY <1>1, <1>2, SameCurrent DEF Excepted
<1>8. sp' = Sp(current, Depth(current))
  BY <1>1, <1>3, LatestParts, SpParts DEF Excepted
<1>9. AtSave(pc, regs, sp, cp0.status)'
  BY <1>1, <1>2, <1>3, <1>4, <1>5, <1>7, <1>8 DEF AtSave, InArea, Excepted
<1>10. Running'
  BY <1>1, <1>2, <1>4, <1>7, <1>9, KernelModeType DEF Running, MayMiss, Excepted
<1> QED
  BY <1>6, <1>10 DEF SwitchInv, Phase

(* What the places with a frame at the stack pointer have in common. *)
LEMMA FramePlace ==
  ASSUME SwitchInv, asid = current, Nested(current), Rest({current}),
         sp = Sp(current, Depth(current)), Resident, NEW c,
         PutFrame(c), UNCHANGED <<current, inuser, dead, stack_top>>,
         \A t \in Thread \ {current} : work'[t] = work[t]
  PROVE  /\ current \in Thread /\ Depth(current) \in 1 .. NEST + 1
         /\ IsStack' /\ Frame(sp) = At(current, Depth(current))
         /\ stack'[StackOf(current)'][Depth(current)] = c
         /\ \A i \in 1 .. NEST + 1 :
              i # Depth(current) => At(current, i)' = At(current, i)
         /\ Rest({current})'
<1>1. current \in Thread /\ asid = current /\ Nested(current) /\ StackPrivate
      /\ IsStack /\ Rest({current})
  BY DEF SwitchInv, Types
<1>2. Depth(current) \in 1 .. NEST + 1
  BY <1>1 DEF Nested
<1> SUFFICES ASSUME NEW t \in Thread, t = current, NEW n \in 1 .. NEST + 1,
                    n = Depth(current)
             PROVE  /\ IsStack' /\ Frame(sp) = At(t, n)
                    /\ stack'[StackOf(t)'][n] = c
                    /\ \A i \in 1 .. NEST + 1 : i # n => At(t, i)' = At(t, i)
                    /\ Rest({t})'
  BY <1>1, <1>2
<1>3. /\ IsStack' /\ Frame(sp) = At(t, n) /\ At(t, n)' = c
      /\ \A i \in 1 .. NEST + 1 : i # n => At(t, i)' = At(t, i)
      /\ \A u \in Thread \ {t}, i \in 1 .. NEST + 1 : At(u, i)' = At(u, i)
  BY <1>1, PutOwn
<1>4. Rest({t})'
  <2>1. \A u \in Thread \ (dead' \union {t}) :
           /\ work'[u] = work[u] /\ (u \in inuser' <=> u \in inuser)
           /\ stack_top'[u] = stack_top[u]
           /\ \A i \in 1 .. NEST + 1 : At(u, i)' = At(u, i)
    BY <1>3
  <2> QED
    BY <1>1, <2>1, KeepRest
<1> QED
  BY <1>3, <1>4 DEF At

(* The same for a step that leaves the activations alone. *)
LEMMA FrameStep ==
  ASSUME SwitchInv, asid = current, Nested(current), Rest({current}),
         sp = Sp(current, Depth(current)), Resident, NEW c,
         PutFrame(c), UNCHANGED <<current, inuser, dead, stack_top, work>>
  PROVE  /\ IsStack' /\ Frame(sp) = At(current, Depth(current))
         /\ Depth(current)' = Depth(current) /\ Latest(current)' = Latest(current)
         /\ Sp(current, Depth(current))' = Sp(current, Depth(current))
         /\ At(current, Depth(current))' = c
         /\ Nested(current)' /\ Rest({current})'
<1>1. /\ current \in Thread /\ Depth(current) \in 1 .. NEST + 1
      /\ IsStack' /\ Frame(sp) = At(current, Depth(current))
      /\ stack'[StackOf(current)'][Depth(current)] = c
      /\ \A i \in 1 .. NEST + 1 :
           i # Depth(current) => At(current, i)' = At(current, i)
      /\ Rest({current})'
  BY FramePlace
<1>2. Depth(current)' = Depth(current) /\ Latest(current)' = Latest(current)
  BY DEF Depth, Latest
<1>3. Sp(current, Depth(current))' = Sp(current, Depth(current))
  BY <1>2 DEF Sp, UserSp, KernelSp
<1>4. At(current, Depth(current))' = c
  BY <1>1, <1>2 DEF At
<1>5. Nested(current)'
  <2> SUFFICES ASSUME NEW t \in Thread, t = current
               PROVE  Nested(t)'
    BY <1>1
  <2>1. \A i \in 1 .. Depth(t) - 1 : At(t, i)' = At(t, i)
    BY <1>1, ExceptionsAssumption
  <2>2. Nested(t)
    OBVIOUS
  <2> QED
    BY <2>1, <2>2, KeepNested, ExceptionsAssumption
<1> QED
  BY <1>1, <1>2, <1>3, <1>4, <1>5

LEMMA SaveRegistersStep ==
  ASSUME SwitchInv, SaveRegisters
  PROVE  SwitchInv'
<1> DEFINE c == [NoContext EXCEPT !.regs = regs]
<1>1. /\ Running /\ AtSave(pc, regs, sp, cp0.status) /\ Depth(current) <= NEST
      /\ Types /\ StackPrivate /\ current \in Thread /\ asid = current
  BY StateOf DEF SaveRegisters, SwitchInv, Types, Running
<1>2. UNCHANGED <<sp, cp0, asid, area, frame, stack_top, current, inuser, dead,
                  work, tlb>>
  BY DEF SaveRegisters, threads
<1>3. PutFrame(c) /\ Resident /\ pc' = <<"move">>
  BY DEF SaveRegisters, PutFrame
<1>4. c.regs = regs
  BY DEF NoContext, context
<1> HIDE DEF c
<1>5. /\ IsStack'
      /\ Depth(current)' = Depth(current) /\ Latest(current)' = Latest(current)
      /\ Sp(current, Depth(current))' = Sp(current, Depth(current))
      /\ At(current, Depth(current))' = c
      /\ Nested(current)' /\ Rest({current})'
  BY <1>1, <1>2, <1>3, FrameStep DEF AtSave, Running, MayMiss
<1>6. Types' /\ StackPrivate'
  BY <1>1, <1>2, <1>5, SameArea DEF Types, IsCp0, StackPrivate
<1>7. AtMove(pc, regs, sp, cp0.status)'
  BY <1>1, <1>2, <1>3, <1>4, <1>5 DEF AtMove, AtSave, InArea
<1>8. Running'
  BY <1>1, <1>2, <1>5, <1>7 DEF Running, MayMiss
<1> QED
  BY <1>6, <1>8 DEF SwitchInv, Phase

LEMMA UnloadStaticAreaStep ==
  ASSUME SwitchInv, UnloadStaticArea
  PROVE  SwitchInv'
<1>1. /\ Running /\ AtUnload(pc, regs, sp, cp0.status) /\ Depth(current) <= NEST
      /\ Types /\ StackPrivate /\ current \in Thread /\ asid = current
      /\ Nested(current) /\ Rest({current})
  BY StateOf DEF UnloadStaticArea, SwitchInv, Types, Running, MayMiss
<1>2. /\ UNCHANGED <<regs, sp, cp0, asid, frame, stack, stack_top, current, inuser,
                    dead, work, tlb>>
      /\ Resident /\ pc' = <<"load">>
      /\ area' = [area EXCEPT !.status = Frame(sp).status, !.epc = Frame(sp).epc]
  BY DEF UnloadStaticArea, threads, memory
<1>3. Frame(sp) = At(current, Depth(current))
  BY <1>1, <1>2, OwnSlot, LatestParts DEF AtUnload
<1>4. /\ Frame(sp).status = [Latest(current).status EXCEPT !.exl = TRUE]
      /\ Frame(sp).epc = Latest(current).code
      /\ Frame(sp).status \in Status
      /\ At(current, Depth(current)).regs = Latest(current).code
  BY <1>1, <1>3, LatestParts DEF AtUnload, Pushed, Status
<1>5. /\ IsArea' /\ area'.status = Frame(sp).status /\ area'.epc = Frame(sp).epc
  BY <1>1, <1>2, <1>4 DEF Types, IsArea, context
<1>6. Types' /\ StackPrivate'
  BY <1>1, <1>2, <1>5, SameTypes DEF Types, IsCp0, StackPrivate
<1>7. /\ Nested(current)' /\ Rest({current})'
      /\ Depth(current)' = Depth(current) /\ Latest(current)' = Latest(current)
      /\ At(current, Depth(current))' = At(current, Depth(current))
      /\ Sp(current, Depth(current))' = Sp(current, Depth(current))
  BY <1>1, <1>2, SameCurrent
<1>8. AtLoad(pc, regs, sp, cp0.status)'
  BY <1>1, <1>2, <1>4, <1>5, <1>7 DEF AtLoad, AtUnload
<1>9. Running'
  BY <1>1, <1>2, <1>7, <1>8 DEF Running, MayMiss
<1> QED
  BY <1>6, <1>9 DEF SwitchInv, Phase

LEMMA LoadRegistersStep ==
  ASSUME SwitchInv, LoadRegisters
  PROVE  SwitchInv'
<1>1. /\ Running /\ AtLoad(pc, regs, sp, cp0.status)
      /\ Types /\ StackPrivate /\ current \in Thread /\ asid = current
      /\ Nested(current)
  BY StateOf DEF LoadRegisters, SwitchInv, Types, Running, MayMiss
<1>2. UNCHANGED <<cp0, asid, area, frame, stack_top, current, inuser, dead,
                  work, tlb>>
  BY DEF LoadRegisters, threads
<1>3. /\ PutFrame(NoContext) /\ Resident /\ pc' = <<"eret">>
      /\ regs' = Frame(sp).regs /\ sp' = Above(sp)
  BY DEF LoadRegisters, PutFrame
<1>4. /\ IsStack' /\ Frame(sp) = At(current, Depth(current))
      /\ Depth(current)' = Depth(current) /\ Latest(current)' = Latest(current)
      /\ Nested(current)' /\ Rest({current})'
  BY <1>1, <1>2, <1>3, FrameStep DEF AtLoad, Running, MayMiss
<1>5. Types' /\ StackPrivate'
  BY <1>1, <1>2, <1>4, SameArea DEF Types, IsCp0, StackPrivate
<1>6. sp' = Latest(current).sp
  BY <1>1, <1>3, LatestParts, SpParts DEF AtLoad
<1>7. Returning'
  BY <1>1, <1>2, <1>3, <1>4, <1>6 DEF Returning, AtLoad
<1> QED
  BY <1>5, <1>7 DEF SwitchInv, Phase

LEMMA ReturnFromExceptionStep ==
  ASSUME SwitchInv, ReturnFromException
  PROVE  SwitchInv'
<1> DEFINE st == [area.status EXCEPT !.exl = FALSE]
<1>1. Returning /\ Types /\ StackPrivate /\ current \in Thread
  BY StateOf DEF ReturnFromException, SwitchInv, Types
<1>2. /\ UNCHANGED <<regs, sp, asid, frame, stack, stack_top, current, inuser,
                    dead, work, tlb>>
      /\ pc' = area.epc /\ cp0' = NoException(st) /\ area' = NoContext
  BY DEF ReturnFromException, Eret, threads, memory
<1>3. st = Latest(current).status /\ st \in Status /\ ~st.exl
  <2>1. Latest(current).status \in Status /\ ~Latest(current).status.exl
    BY <1>1, LatestParts DEF Returning
  <2>2. st = [[Latest(current).status EXCEPT !.exl = TRUE] EXCEPT !.exl = FALSE]
    BY <1>1 DEF Returning
  <2> QED
    BY <2>1, <2>2 DEF Status
<1> HIDE DEF st
<1>4. IsCp0' /\ cp0'.status = st /\ IsArea'
  BY <1>2, <1>3, NoExceptionType, NoContextType
<1>5. Types' /\ StackPrivate'
  BY <1>1, <1>2, <1>4, SameTypes DEF StackPrivate
<1>6. /\ Nested(current)' /\ Rest({current})' /\ Latest(current)' = Latest(current)
  BY <1>1, <1>2, SameCurrent DEF Returning
<1>7. AtCode(pc, regs, sp, cp0.status)'
  BY <1>1, <1>2, <1>3, <1>4, <1>6 DEF AtCode, Returning
<1>8. Running'
  BY <1>1, <1>2, <1>3, <1>4, <1>6, <1>7 DEF Running, MayMiss, Returning
<1> QED
  BY <1>5, <1>8 DEF SwitchInv, Phase

-----------------------------------------------------------------------------
(***************************************************************************)
(* Activations begin, go on and end.                                       *)
(***************************************************************************)

LEMMA KeepActivation ==
  ASSUME NEW t, NEW i, NEW a, IsActivation(a, t, i),
         t \in inuser' <=> t \in inuser
  PROVE  IsActivation(a, t, i)'
<1>1. Sp(t, i - 1)' = Sp(t, i - 1)
  BY DEF Sp, UserSp, KernelSp
<1> QED
  BY <1>1 DEF IsActivation

(* The first m - 1 activations stay, the mth is the latest from now on. *)
LEMMA NestedTo ==
  ASSUME NEW t \in Thread, Nested(t), t \in inuser' <=> t \in inuser,
         NEW m \in 1 .. NEST + 1, m - 1 <= Depth(t), Len(work'[t]) = m,
         \A i \in 1 .. m - 1 : work'[t][i] = work[t][i],
         IsActivation(work'[t][m], t, m),
         \A i \in 1 .. m - 1 : i < Depth(t) => At(t, i)' = At(t, i),
         m - 1 = Depth(t) => Pushed(At(t, m - 1)', work[t][m - 1], t)
  PROVE  Nested(t)' /\ Latest(t)' = work'[t][m] /\ Depth(t)' = m
<1>1. Depth(t)' = m /\ Latest(t)' = work'[t][m]
  BY DEF Depth, Latest
<1>2. Depth(t) \in 1 .. NEST + 1 /\ NEST \in Nat
  BY ExceptionsAssumption DEF Nested
<1>3. ASSUME NEW i \in 1 .. m PROVE IsActivation(work[t][i], t, i)'
  <2> SUFFICES ASSUME NEW a, a = work'[t][i] PROVE IsActivation(a, t, i)'
    OBVIOUS
  <2>1. IsActivation(a, t, i)
    <3>1. CASE i = m
      BY <3>1
    <3>2. CASE i # m
      <4>1. i \in 1 .. m - 1 /\ i \in 1 .. Depth(t)
        BY <1>2, <3>2
      <4> QED
        BY <4>1 DEF Nested
    <3> QED
      BY <3>1, <3>2
  <2> QED
    BY <2>1, KeepActivation
<1>4. ASSUME NEW i \in 1 .. m - 1 PROVE Pushed(At(t, i), work[t][i], t)'
  <2>1. Pushed(At(t, i)', work[t][i], t)
    <3>1. CASE i = Depth(t)
      <4>1. i = m - 1
        BY <1>2, <3>1
      <4> QED
        BY <3>1, <4>1
    <3>2. CASE i # Depth(t)
      <4>1. i \in 1 .. Depth(t) - 1 /\ i < Depth(t)
        BY <1>2, <3>2
      <4>2. At(t, i)' = At(t, i) /\ Pushed(At(t, i), work[t][i], t)
        BY <4>1 DEF Nested
      <4> QED
        BY <4>2
    <3> QED
      BY <3>1, <3>2
  <2>2. work'[t][i] = work[t][i]
    OBVIOUS
  <2> QED
    BY <2>1, <2>2 DEF Pushed
<1>5. Nested(t)'
  BY <1>1, <1>3, <1>4 DEF Nested
<1> QED
  BY <1>1, <1>5

LEMMA ActivationType ==
  ASSUME NEW t \in Thread, NEW k \in Nat, NEW v \in {0, 1}, NEW st \in Status
  PROVE  [code |-> Code(t, k, v), status |-> st, sp |-> Sp(t, k)] \in Activation
  BY CodeParts, SpParts DEF Activation

LEMMA MoveStaticAreaStep ==
  ASSUME SwitchInv, MoveStaticArea
  PROVE  SwitchInv'
<1> DEFINE t == current
           n == Depth(t)
           c == [area EXCEPT !.regs = Frame(sp).regs]
           a == [code |-> Code(t, n, 0), status |-> KernelMode, sp |-> Sp(t, n)]
<1>1. /\ Running /\ AtMove(pc, regs, sp, cp0.status) /\ n <= NEST
      /\ Types /\ StackPrivate /\ t \in Thread /\ asid = t
      /\ Nested(t) /\ sp = Sp(t, n) /\ cp0.status = KernelMode
  BY StateOf DEF MoveStaticArea, SwitchInv, Types, Running, MayMiss, AtMove
<1>2. n \in 1 .. NEST /\ n + 1 \in 1 .. NEST + 1 /\ n \in Nat /\ sp[3] = n
  BY <1>1, LatestParts, SpParts, ExceptionsAssumption
<1>3. UNCHANGED <<sp, cp0, asid, frame, stack_top, current, inuser, dead, tlb>>
  BY DEF MoveStaticArea
<1>4. /\ PutFrame(c) /\ Resident /\ area' = NoContext
      /\ pc' = Code(t, n, 0) /\ regs' = pc'
  BY <1>2 DEF MoveStaticArea, PutFrame
<1>5. a \in Activation /\ a.code = Code(t, n, 0) /\ a.status = KernelMode
      /\ a.sp = Sp(t, n)
  BY <1>1, <1>2, ActivationType, KernelModeType
<1>6. work' = [work EXCEPT ![t] = Append(@, a)]
  BY <1>1, <1>2 DEF MoveStaticArea
<1> HIDE DEF a
<1>7. /\ work' \in [Thread -> Seq(Activation)]
      /\ Len(work'[t]) = n + 1 /\ work'[t][n + 1] = a
      /\ \A i \in 1 .. n : work'[t][i] = work[t][i]
      /\ \A u \in Thread \ {t} : work'[u] = work[u]
  BY <1>1, <1>5, <1>6 DEF Types, Depth
<1> HIDE DEF c
<1>8. /\ IsStack' /\ Frame(sp) = At(t, n)
      /\ stack'[StackOf(t)'][n] = c
      /\ \A i \in 1 .. NEST + 1 : i # n => At(current, i)' = At(current, i)
      /\ Rest({t})'
  BY <1>1, <1>3, <1>4, <1>7, FramePlace DEF Running
<1>9. Pushed(c, Latest(t), t)
  BY <1>1, <1>8 DEF c, Pushed, AtMove, InArea, Types, IsArea, context
<1>10. Nested(t)' /\ Latest(t)' = a
  <2> SUFFICES ASSUME NEW u \in Thread, u = t, NEW k \in 1 .. NEST, k = n,
                      NEW m \in 1 .. NEST + 1, m = k + 1
               PROVE  Nested(u)' /\ Latest(u)' = a
    BY <1>1, <1>2, <1>3
  <2>1. m - 1 = k /\ k + 1 = m /\ Depth(u) = k /\ k \in 1 .. NEST + 1
    BY <1>2, ExceptionsAssumption
  <2>2. At(u, m - 1)' = c
    BY <1>3, <1>8, <2>1 DEF At
  <2>3. \A i \in 1 .. m - 1 : i < Depth(u) => At(u, i)' = At(u, i)
    BY <1>3, <1>8, <2>1, ExceptionsAssumption
  <2>4. Pushed(At(u, m - 1)', work[u][m - 1], u)
    BY <1>9, <2>1, <2>2 DEF Latest
  <2>5. Len(work'[u]) = m /\ work'[u][m] = a
        /\ \A i \in 1 .. m - 1 : work'[u][i] = work[u][i]
    BY <1>7, <2>1
  <2>6. IsActivation(a, u, m)
    <3>1. a = [code |-> Code(u, m - 1, 0), status |-> KernelMode,
               sp |-> Sp(u, m - 1)]
      BY <2>1 DEF a
    <3> QED
      BY <3>1, KernelModeType DEF IsActivation
  <2>7. Nested(u) /\ (u \in inuser' <=> u \in inuser) /\ m - 1 <= Depth(u)
    BY <1>1, <1>3, <2>1
  <2> QED
    BY <2>3, <2>4, <2>5, <2>6, <2>7, NestedTo
<1>11. Types' /\ StackPrivate'
  BY <1>1, <1>3, <1>4, <1>7, <1>8, NoContextType DEF Types, IsCp0, StackPrivate
<1>12. AtCode(pc, regs, sp, cp0.status)'
  BY <1>1, <1>3, <1>4, <1>5, <1>10 DEF AtCode
<1>13. Running'
  BY <1>1, <1>3, <1>8, <1>10, <1>12, KernelModeType DEF Running, MayMiss
<1> QED
  BY <1>11, <1>13 DEF SwitchInv, Phase

(* The running activation goes on; the TLB may change under it. *)
LEMMA ContinueStep ==
  ASSUME SwitchInv, InCode, NEW v \in {0, 1}, NEW st \in Status, ~st.exl,
         v = 0 /\ Level > 0 => ~st.ie,
         Continue(Code(current, Level, v), st),
         UNCHANGED <<sp, area, frame, stack, stack_top, current, inuser, dead>>,
         asid' = current, tlb' \in [Thread -> Thread \union {NULL}], StackPrivate'
  PROVE  SwitchInv'
<1> DEFINE t == current
           a == [code |-> Code(t, Level, v), status |-> st, sp |-> Sp(t, Level)]
<1>1. /\ asid = t /\ Rest({t}) /\ Nested(t) /\ Types /\ t \in Thread
  BY CodeState DEF SwitchInv, Types
<1>2. Level = Depth(t) - 1 /\ sp = Sp(t, Level) /\ Level \in 0 .. NEST
      /\ Level \in Nat /\ Depth(t) = Level + 1 /\ Depth(t) \in 1 .. NEST + 1
      /\ NEST \in Nat
  BY <1>1, CodeParts2, LatestParts, ExceptionsAssumption
<1>3. /\ pc' = Code(t, Level, v) /\ regs' = pc'
      /\ cp0' = [cp0 EXCEPT !.status = st]
      /\ work' = [work EXCEPT ![t] = [@ EXCEPT ![Len(@)] = a]]
  BY <1>2 DEF Continue
<1>4. IsCp0' /\ cp0'.status = st
  BY <1>1, <1>3 DEF Types, IsCp0
<1>5. a \in Activation /\ a.code = Code(t, Level, v) /\ a.status = st
      /\ a.sp = Sp(t, Level)
  BY <1>1, <1>2, ActivationType
<1> HIDE DEF a
<1>6. /\ work' \in [Thread -> Seq(Activation)]
      /\ Len(work'[t]) = Depth(t) /\ work'[t][Depth(t)] = a
      /\ \A i \in 1 .. Depth(t) - 1 : work'[t][i] = work[t][i]
      /\ \A u \in Thread \ {t} : work'[u] = work[u]
  <2>1. work[t] \in Seq(Activation) /\ Len(work[t]) = Depth(t)
    BY <1>1 DEF Types, Depth
  <2> DEFINE w == [work[t] EXCEPT ![Len(work[t])] = a]
  <2>2. /\ w \in Seq(Activation) /\ Len(w) = Depth(t) /\ w[Depth(t)] = a
        /\ \A i \in 1 .. Depth(t) - 1 : w[i] = work[t][i]
    BY <1>2, <1>5, <2>1
  <2>3. work' = [work EXCEPT ![t] = w]
    BY <1>3
  <2> HIDE DEF w
  <2>4. work' \in [Thread -> Seq(Activation)] /\ work'[t] = w
        /\ \A u \in Thread \ {t} : work'[u] = work[u]
    BY <1>1, <2>2, <2>3 DEF Types
  <2> QED
    BY <2>2, <2>4
<1>7. Nested(t)' /\ Latest(t)' = a
  <2> SUFFICES ASSUME NEW u \in Thread, u = t, NEW m \in 1 .. NEST + 1, m = Depth(t)
               PROVE  Nested(u)' /\ Latest(u)' = a
    BY <1>1, <1>2
  <2>1. m - 1 = Level /\ Depth(u) = m /\ m - 1 <= Depth(u) /\ m - 1 # Depth(u)
        /\ (m > 1 <=> Level > 0)
    BY <1>2
  <2>2. \A i \in 1 .. m - 1 : At(u, i)' = At(u, i)
    BY DEF At, StackOf
  <2>3. IsActivation(a, u, m)
    <3>1. a = [code |-> Code(u, m - 1, v), status |-> st, sp |-> Sp(u, m - 1)]
      BY <2>1 DEF a
    <3> QED
      BY <2>1, <3>1 DEF IsActivation
  <2>4. Len(work'[u]) = m /\ work'[u][m] = a
        /\ \A i \in 1 .. m - 1 : work'[u][i] = work[u][i]
    BY <1>6, <2>1
  <2>5. Nested(u) /\ (u \in inuser' <=> u \in inuser)
    BY <1>1
  <2> QED
    BY <2>1, <2>2, <2>3, <2>4, <2>5, NestedTo
<1>8. Rest({t})'
  <2> SUFFICES ASSUME NEW u \in Thread, u = t PROVE Rest({u})'
    BY <1>1
  <2>1. \A x \in Thread \ (dead' \union {u}) :
           /\ work'[x] = work[x] /\ (x \in inuser' <=> x \in inuser)
           /\ stack_top'[x] = stack_top[x]
           /\ \A i \in 1 .. NEST + 1 : At(x, i)' = At(x, i)
    BY <1>6 DEF At, StackOf
  <2> QED
    BY <1>1, <2>1, KeepRest
<1>9. Types'
  BY <1>1, <1>4, <1>6, SameStack, SameArea DEF Types
<1>10. AtCode(pc, regs, sp, cp0.status)'
  BY <1>2, <1>3, <1>4, <1>5, <1>7 DEF AtCode
<1>11. Running'
  BY <1>4, <1>7, <1>8, <1>10 DEF Running, MayMiss
<1> QED
  BY <1>9, <1>11 DEF SwitchInv, Phase

LEMMA ReturnStep ==
  ASSUME SwitchInv, Return
  PROVE  SwitchInv'
<1> DEFINE t == current
           n == Depth(t)
<1>1. /\ asid = t /\ Rest({t}) /\ Nested(t) /\ Types /\ StackPrivate /\ t \in Thread
      /\ InCode /\ cp0.status \in Status /\ work[t] \in Seq(Activation)
  BY CodeState DEF SwitchInv, Types, Return, InKernel, IsCp0
<1>2. /\ Level = n - 1 /\ sp = Sp(t, n - 1) /\ ~cp0.status.exl
      /\ n \in 2 .. NEST + 1 /\ NEST \in Nat
  BY <1>1, CodeParts2, LatestParts, ExceptionsAssumption DEF Return
<1>3. /\ UNCHANGED <<sp, cp0, asid, area, frame, stack, stack_top, current, inuser,
                    dead, tlb>>
      /\ pc' = <<"unload">> /\ ~cp0.status.ie
      /\ work' = [work EXCEPT ![t] = Front(@)]
  BY DEF Return, memory
<1>4. /\ work' \in [Thread -> Seq(Activation)]
      /\ Len(work'[t]) = n - 1
      /\ \A i \in 1 .. n - 1 : work'[t][i] = work[t][i]
      /\ \A u \in Thread \ {t} : work'[u] = work[u]
  <2>1. Len(work[t]) = n
    BY DEF Depth
  <2> DEFINE w == Front(work[t])
  <2> HIDE DEF n
  <2>2. /\ w \in Seq(Activation) /\ Len(w) = n - 1
        /\ \A i \in 1 .. n - 1 : w[i] = work[t][i]
    BY <1>1, <1>2, <2>1 DEF Front
  <2>3. work' = [work EXCEPT ![t] = w]
    BY <1>3
  <2> HIDE DEF w
  <2>4. work' \in [Thread -> Seq(Activation)] /\ work'[t] = w
        /\ \A u \in Thread \ {t} : work'[u] = work[u]
    BY <1>1, <2>2, <2>3 DEF Types
  <2> QED
    BY <2>2, <2>4
<1>5. /\ Nested(t)' /\ Latest(t)' = work[t][n - 1] /\ Depth(t)' = n - 1
      /\ Pushed(At(t, Depth(t)), Latest(t), t)'
      /\ Sp(t, Depth(t))' = Sp(t, n - 1)
  <2> SUFFICES ASSUME NEW u \in Thread, u = t, NEW m \in 1 .. NEST + 1, m = n - 1
               PROVE  /\ Nested(u)' /\ Latest(u)' = work[u][m] /\ Depth(u)' = m
                      /\ Pushed(At(u, Depth(u)), Latest(u), u)'
                      /\ Sp(u, Depth(u))' = Sp(u, m)
    BY <1>1, <1>2, <1>3
  <2>1. /\ Depth(u) = m + 1 /\ m - 1 <= Depth(u) /\ m - 1 # Depth(u)
        /\ m \in 1 .. Depth(u) - 1 /\ m \in 1 .. Depth(u)
    BY <1>2
  <2>2. \A i : At(u, i)' = At(u, i)
    BY <1>3 DEF At, StackOf
  <2>3. IsActivation(work[u][m], u, m) /\ Pushed(At(u, m), work[u][m], u)
    BY <1>1, <2>1 DEF Nested
  <2>4. Len(work'[u]) = m /\ work'[u][m] = work[u][m]
        /\ \A i \in 1 .. m - 1 : work'[u][i] = work[u][i]
    BY <1>4, <2>1
  <2>5. Nested(u) /\ (u \in inuser' <=> u \in inuser)
    BY <1>1, <1>3
  <2>6. Nested(u)' /\ Latest(u)' = work[u][m] /\ Depth(u)' = m
    BY <2>1, <2>2, <2>3, <2>4, <2>5, NestedTo
  <2>7. Sp(u, Depth(u))' = Sp(u, m)
    BY <1>3, <2>6 DEF Sp, UserSp, KernelSp
  <2>8. At(u, Depth(u))' = At(u, m)
    BY <1>3, <2>6 DEF At, StackOf
  <2>9. Pushed(At(u, Depth(u)), Latest(u), u)'
    BY <2>3, <2>6, <2>8 DEF Pushed
  <2> QED
    BY <2>6, <2>7, <2>9
<1>6. Rest({t})'
  <2> SUFFICES ASSUME NEW u \in Thread, u = t PROVE Rest({u})'
    BY <1>1, <1>3
  <2>1. \A x \in Thread \ (dead' \union {u}) :
           /\ work'[x] = work[x] /\ (x \in inuser' <=> x \in inuser)
           /\ stack_top'[x] = stack_top[x]
           /\ \A i \in 1 .. NEST + 1 : At(x, i)' = At(x, i)
    BY <1>3, <1>4 DEF At, StackOf
  <2> QED
    BY <1>1, <1>3, <2>1, KeepRest
<1>7. Types' /\ StackPrivate'
  BY <1>1, <1>3, <1>4, SameStack, SameArea DEF Types, IsCp0, StackPrivate
<1>8. AtUnload(pc, regs, sp, cp0.status)'
  BY <1>2, <1>3, <1>5 DEF AtUnload
<1>9. Running'
  BY <1>1, <1>2, <1>3, <1>5, <1>6, <1>8 DEF Running, MayMiss
<1> QED
  BY <1>7, <1>9 DEF SwitchInv, Phase

-----------------------------------------------------------------------------
(***************************************************************************)
(* The C code.                                                             *)
(***************************************************************************)

LEMMA StatusType ==
  ASSUME NEW e \in BOOLEAN, NEW i \in BOOLEAN, NEW u \in BOOLEAN
  PROVE  /\ status(e, i, u) \in Status
         /\ status(e, i, u).exl = e /\ status(e, i, u).ie = i
         /\ status(e, i, u).um = u
  BY DEF status, Status

LEMMA StatusExl ==
  ASSUME NEW e \in BOOLEAN, NEW i \in BOOLEAN, NEW u \in BOOLEAN, NEW x \in BOOLEAN
  PROVE  [status(e, i, u) EXCEPT !.exl = x] = status(x, i, u)
  BY DEF status

LEMMA SetInterruptsStep ==
  ASSUME SwitchInv, SetInterrupts
  PROVE  SwitchInv'
<1> DEFINE st == [cp0.status EXCEPT !.ie = ~@]
<1>1. /\ InCode /\ Types /\ StackPrivate /\ asid = current
      /\ cp0.status \in Status
  BY CodeState DEF SetInterrupts, InKernel, SwitchInv, Types, IsCp0
<1>2. /\ pc = Code(current, Level, pc[4]) /\ pc[4] \in {0, 1}
      /\ ~cp0.status.exl /\ Level \in 0 .. NEST
  BY <1>1, CodeParts2
<1>3. st \in Status /\ ~st.exl
  BY <1>1, <1>2 DEF Status
<1>4. pc[4] = 0 /\ Level > 0 => FALSE
  BY <1>2 DEF SetInterrupts, Handling
<1>5. Continue(pc, st) /\ UNCHANGED <<sp, asid, area, frame, stack, stack_top,
                                      current, inuser, dead, tlb>>
  BY DEF SetInterrupts, memory
<1>6. tlb' \in [Thread -> Thread \union {NULL}] /\ StackPrivate' /\ asid' = current
  BY <1>1, <1>5 DEF Types, StackPrivate
<1> HIDE DEF st
<1>7. Continue(Code(current, Level, pc[4]), st)
  BY <1>2, <1>5
<1> QED
  BY <1>1, <1>2, <1>3, <1>4, <1>5, <1>6, <1>7, ContinueStep

LEMMA interruptStep ==
  ASSUME SwitchInv, interrupt
  PROVE  SwitchInv'
<1>1. /\ InCode /\ Types /\ StackPrivate /\ asid = current
      /\ cp0.status \in Status
  BY CodeState DEF interrupt, Handling, InKernel, SwitchInv, Types, IsCp0
<1>2. pc[2] = current /\ ~cp0.status.exl
  BY <1>1, CodeParts2
<1>3. /\ Continue(Code(current, Level, 1), cp0.status)
      /\ UNCHANGED <<sp, asid, area, frame, stack, stack_top, current, inuser,
                    dead, tlb>>
  BY <1>2 DEF interrupt, memory
<1>4. tlb' \in [Thread -> Thread \union {NULL}] /\ StackPrivate' /\ asid' = current
  BY <1>1, <1>3 DEF Types, StackPrivate
<1> QED
  BY <1>1, <1>2, <1>3, <1>4, ContinueStep

LEMMA syscallStep ==
  ASSUME SwitchInv, syscall
  PROVE  SwitchInv'
<1> DEFINE st == status(FALSE, TRUE, FALSE)
<1>1. /\ InCode /\ Types /\ StackPrivate /\ asid = current
  BY CodeState DEF syscall, Handling, InKernel, SwitchInv
<1>2. pc[2] = current
  BY <1>1, CodeParts2
<1>3. /\ Continue(Code(current, Level, 1), st)
      /\ UNCHANGED <<sp, asid, area, frame, stack, stack_top, current, inuser,
                    dead, tlb>>
  BY <1>2 DEF syscall, memory
<1>4. tlb' \in [Thread -> Thread \union {NULL}] /\ StackPrivate' /\ asid' = current
  BY <1>1, <1>3 DEF Types, StackPrivate
<1>5. st \in Status /\ ~st.exl
  BY StatusType
<1> HIDE DEF st
<1> QED
  BY <1>1, <1>3, <1>4, <1>5, ContinueStep

(* A refill maps the stack of the current thread in its own address space. *)
LEMMA StoreRandom ==
  ASSUME tlb \in [Thread -> Thread \union {NULL}], StackPrivate, NEW page,
         NEW as \in Thread, page = "stack" => as = current,
         tlb_store_random(page, as)
  PROVE  tlb' \in [Thread -> Thread \union {NULL}] /\ StackPrivate'
<1>1. PICK victim \in Thread :
        tlb' = IF page = "stack"
               THEN [[tlb EXCEPT ![victim] = NULL] EXCEPT ![as] = current]
               ELSE [tlb EXCEPT ![victim] = NULL]
  BY DEF tlb_store_random
<1>2. CASE page = "stack"
  BY <1>1, <1>2 DEF StackPrivate
<1>3. CASE page # "stack"
  BY <1>1, <1>3 DEF StackPrivate
<1> QED
  BY <1>2, <1>3

(* The frame at the stack pointer of a handler is the one it was entered   *)
(* with.                                                                   *)
LEMMA HandlerFrame ==
  ASSUME SwitchInv, InCode, Resident, Level > 0
  PROVE  Pushed(Frame(sp), work[current][Level], current)
<1>1. /\ asid = current /\ Nested(current) /\ StackPrivate /\ current \in Thread
  BY CodeState DEF SwitchInv, Types
<1>2. Level = Depth(current) - 1 /\ sp = Sp(current, Level) /\ Level \in 0 .. NEST
      /\ NEST \in Nat /\ Depth(current) \in 1 .. NEST + 1
  BY <1>1, CodeParts2, LatestParts, ExceptionsAssumption
<1>3. Frame(sp) = At(current, Level)
  BY <1>1, <1>2, OwnSlot
<1>4. Level \in 1 .. Depth(current) - 1
  BY <1>2
<1> QED
  BY <1>1, <1>3, <1>4 DEF Nested

LEMMA tlb_invalidStep ==
  ASSUME SwitchInv, tlb_invalid
  PROVE  SwitchInv'
<1>1. /\ InCode /\ Types /\ StackPrivate /\ asid = current /\ current \in Thread
      /\ cp0.status \in Status /\ Resident /\ Level > 0
  BY CodeState DEF tlb_invalid, Handling, InKernel, SwitchInv, Types, IsCp0
<1>2. pc[2] = current /\ ~cp0.status.exl
  BY <1>1, CodeParts2
<1>3. /\ Continue(Code(current, Level, 1), cp0.status)
      /\ UNCHANGED <<sp, area, frame, stack, stack_top, current, inuser, dead>>
  BY <1>2 DEF tlb_invalid, memory
<1>4. asid' = current
  BY <1>1, HandlerFrame DEF tlb_invalid, Pushed
<1>5. tlb' \in [Thread -> Thread \union {NULL}] /\ StackPrivate'
  <2>1. CASE Frame(sp).badva = "stack"
    <3>1. tlb' = [tlb EXCEPT ![current] = current]
      BY <1>4, <2>1 DEF tlb_invalid
    <3> QED
      BY <1>1, <3>1 DEF Types, StackPrivate
  <2>2. CASE tlb' = tlb
    BY <1>1, <2>2 DEF Types, StackPrivate
  <2>3. CASE tlb_store_random("data", asid')
    <3>1. tlb_store_random("data", current)
      BY <1>4, <2>3
    <3> QED
      BY <1>1, <3>1, StoreRandom DEF Types
  <2> QED
    BY <2>1, <2>2, <2>3 DEF tlb_invalid
<1> QED
  BY <1>1, <1>2, <1>3, <1>4, <1>5, ContinueStep

LEMMA panicStep ==
  ASSUME SwitchInv, panic
  PROVE  SwitchInv'
<1>1. /\ InCode /\ Types /\ StackPrivate /\ Level > 0 /\ pc[4] = 0
  BY DEF panic, Handling, InKernel, SwitchInv
<1>2. ~cp0.status.ie
  BY <1>1, CodeParts2
<1>3. /\ UNCHANGED <<cp0, area, stack, stack_top, current, inuser, dead, work, tlb>>
      /\ pc' = <<"halt">>
  BY DEF panic, memory, threads
<1>4. Types' /\ StackPrivate'
  BY <1>1, <1>3, SameTypes, SameArea DEF Types, IsCp0, StackPrivate
<1>5. Stopped'
  BY <1>2, <1>3 DEF Stopped
<1> QED
  BY <1>4, <1>5 DEF SwitchInv, Phase

LEMMA scheduleStep ==
  ASSUME SwitchInv, NEW t \in Thread, schedule(t)
  PROVE  SwitchInv'
<1>1. /\ InCode /\ Types /\ StackPrivate /\ current \in Thread \ dead
      /\ asid = current /\ Rest({current}) /\ Nested(current)
      /\ AtCode(pc, regs, sp, cp0.status) /\ ~cp0.status.ie /\ Resident
      /\ t \notin dead
  BY CodeState DEF schedule, MayReschedule, InKernel, SwitchInv, Types
<1>2. /\ UNCHANGED <<regs, sp, cp0, asid, area, frame, stack, stack_top, inuser,
                    dead, work, tlb>>
      /\ current' = t /\ pc' = <<"sw_save">>
  BY DEF schedule, thread_switch, memory
<1>3. Types' /\ StackPrivate'
  BY <1>1, <1>2, SameStack, SameArea DEF Types, IsCp0, StackPrivate
<1>4. Resident'
  BY <1>1, <1>2 DEF Resident
<1> SUFFICES ASSUME NEW o \in Thread \ dead, o = current
             PROVE  Leaving(o)'
  <2>1. PICK o \in Thread \ dead : o = current
    BY <1>1
  <2>2. \E x \in Thread \ dead' : Leaving(x)'
    BY <1>1, <1>2
  <2> QED
    BY <1>3, <1>4, <2>2 DEF SwitchInv, Phase
<1>5. Rest({o})' /\ Nested(o)' /\ Latest(o)' = Latest(o)
  BY <1>1, <1>2, SameRest, SameNested, SameParts
<1> QED
  BY <1>1, <1>2, <1>5 DEF Leaving, AtCode

-----------------------------------------------------------------------------
(***************************************************************************)
(* A thread ends.                                                          *)
(***************************************************************************)

LEMMA thread_finishStep ==
  ASSUME SwitchInv, NEW t \in Thread, thread_finish(t), Rest({current}), Resident,
         \/ sp = StaticSp
         \/ asid = current /\ \E k \in 0 .. NEST : sp = Sp(current, k),
         cp0.status.ie => cp0.status.exl,
         cp0.status.exl => t \notin inuser \/ tlb[t] # NULL
  PROVE  SwitchInv'
<1>1. Types /\ StackPrivate /\ current \in Thread
  BY DEF SwitchInv, Types
<1>2. /\ UNCHANGED <<sp, cp0, asid, area, frame, stack, stack_top, tlb, inuser>>
      /\ t \in Thread \ (dead \union {current}) /\ dead' = dead \union {current}
      /\ work' = [work EXCEPT ![current] = << >>]
      /\ regs' = <<"finished", current>> /\ current' = t /\ pc' = <<"sw_save">>
  BY DEF thread_finish, thread_switch, memory
<1>3. /\ work' \in [Thread -> Seq(Activation)]
      /\ \A u \in Thread \ {current} : work'[u] = work[u]
  BY <1>1, <1>2 DEF Types
<1>4. Types' /\ StackPrivate'
  BY <1>1, <1>2, <1>3, SameStack, SameArea DEF Types, IsCp0, StackPrivate
<1>5. Resident'
  BY <1>2 DEF Resident
<1>6. Rest({})'
  <2>1. \A u \in Thread \ (dead' \union {}) :
           /\ work'[u] = work[u] /\ (u \in inuser' <=> u \in inuser)
           /\ stack_top'[u] = stack_top[u]
           /\ \A i \in 1 .. NEST + 1 : At(u, i)' = At(u, i)
    BY <1>2, <1>3 DEF At, StackOf
  <2> SUFFICES ASSUME NEW c, c = current PROVE Rest({})'
    OBVIOUS
  <2>2. Rest({c}) /\ dead \union {c} \subseteq dead' \union {}
    BY <1>2
  <2> QED
    BY <2>1, <2>2, KeepRest
<1>7. \A k : Sp(asid, k)' = Sp(asid, k)
  BY <1>2 DEF Sp, UserSp, KernelSp
<1>8. \/ sp' = StaticSp
      \/ asid' \in dead' /\ \E k \in 0 .. NEST : sp' = Sp(asid, k)'
  BY <1>2, <1>7
<1>9. regs'[2] \in dead' \union {NULL}
  BY <1>2
<1>10. Abandoning'
  BY <1>2, <1>6, <1>8, <1>9 DEF Abandoning
<1> QED
  BY <1>4, <1>5, <1>10 DEF SwitchInv, Phase

(* Code that runs with interrupts disabled may call thread_finish. *)
LEMMA FinishInCode ==
  ASSUME SwitchInv, InCode, Resident, ~cp0.status.ie, NEW t \in Thread,
         thread_finish(t)
  PROVE  SwitchInv'
<1>1. asid = current /\ Rest({current})
  BY CodeState
<1>2. sp = Sp(current, Level) /\ Level \in 0 .. NEST /\ ~cp0.status.exl
  BY CodeParts2
<1> QED
  BY <1>1, <1>2, thread_finishStep

LEMMA FinishStep ==
  ASSUME SwitchInv, NEW t \in Thread, Finish(t)
  PROVE  SwitchInv'
  BY FinishInCode DEF Finish, MayReschedule, InKernel

LEMMA InvalidKillStep ==
  ASSUME SwitchInv, NEW t \in Thread, InvalidKill(t)
  PROVE  SwitchInv'
<1>1. InCode /\ Resident /\ Level > 0 /\ pc[4] = 0 /\ thread_finish(t)
  BY DEF InvalidKill, Handling, InKernel
<1>2. ~cp0.status.ie
  BY <1>1, CodeParts2
<1> QED
  BY <1>1, <1>2, FinishInCode

LEMMA RefillKillStep ==
  ASSUME SwitchInv, NEW t \in Thread, RefillKill(t), KILL_MISSES = FALSE
  PROVE  SwitchInv'
<1>1. pc = <<"wrapped_tlb_refill">>
  BY DEF RefillKill
<1>2. Refilling
  BY <1>1, StateOf
<1>3. sp = StaticSp /\ Rest({current}) /\ cp0.status.exl
  BY <1>1, <1>2 DEF Refilling
<1>4. Resident
  BY <1>3 DEF Resident, StaticSp
<1>5. thread_finish(t) /\ (t \notin inuser \/ tlb[t] # NULL)
  BY DEF RefillKill
<1> QED
  BY <1>3, <1>4, <1>5, thread_finishStep

-----------------------------------------------------------------------------
(***************************************************************************)
(* handle_tlb_refill.                                                      *)
(***************************************************************************)

LEMMA handle_tlb_refillStep ==
  ASSUME SwitchInv, handle_tlb_refill
  PROVE  SwitchInv'
<1>1. /\ Refilling /\ Types /\ StackPrivate /\ current \in Thread
      /\ pc = <<"handle_tlb_refill">>
  BY StateOf DEF handle_tlb_refill, SwitchInv, Types
<1>2. /\ UNCHANGED <<cp0, asid, area, stack, stack_top, current, inuser, dead, work,
                    tlb>>
      /\ pc' = <<"wrapped_tlb_refill">> /\ sp' = StaticSp
      /\ frame' = [regs |-> regs, sp |-> sp]
  BY DEF handle_tlb_refill, memory, threads
<1>3. Types' /\ StackPrivate'
  BY <1>1, <1>2, SameTypes, SameArea DEF Types, IsCp0, StackPrivate
<1>4. Rest({current})'
  BY <1>1, <1>2, SameCurrent DEF Refilling
<1>5. MayMiss(cp0.epc, regs, sp, Masked)
  BY <1>1 DEF Refilling
<1>6. MayMiss(cp0.epc, frame.regs, frame.sp, Masked)'
  <2> SUFFICES ASSUME NEW p, NEW r, NEW s, NEW st,
                      p = cp0.epc, r = regs, s = sp, st = Masked
               PROVE  MayMiss(p, r, s, st)'
    BY <1>2 DEF Masked
  <2> QED
    BY <1>1, <1>2, <1>5, SameMiss
<1>7. Refilling'
  BY <1>1, <1>2, <1>4, <1>6 DEF Refilling
<1> QED
  BY <1>3, <1>7 DEF SwitchInv, Phase

LEMMA wrapped_tlb_refillStep ==
  ASSUME SwitchInv, wrapped_tlb_refill
  PROVE  SwitchInv'
<1>1. /\ Refilling /\ Types /\ StackPrivate /\ current \in Thread
      /\ pc = <<"wrapped_tlb_refill">> /\ asid = current
  BY StateOf DEF wrapped_tlb_refill, SwitchInv, Types, Refilling
<1>2. /\ UNCHANGED <<asid, area, stack, stack_top, current, inuser, dead, work>>
      /\ pc' = cp0.epc /\ sp' = frame.sp /\ regs' = frame.regs
      /\ cp0' = NoException(Masked)
  BY DEF wrapped_tlb_refill, Eret, memory, threads, Masked
<1>3. tlb' \in [Thread -> Thread \union {NULL}] /\ StackPrivate'
  BY <1>1, StoreRandom DEF wrapped_tlb_refill, Types
<1>4. MayMiss(cp0.epc, frame.regs, frame.sp, Masked) /\ Masked \in Status
  BY <1>1 DEF Refilling, MayMiss
<1>5. IsCp0' /\ cp0'.status = Masked
  BY <1>2, <1>4, NoExceptionType
<1>6. Types'
  BY <1>1, <1>2, <1>3, <1>5, SameStack, SameArea DEF Types
<1>7. Rest({current})'
  BY <1>1, <1>2, SameCurrent DEF Refilling
<1>8. MayMiss(pc, regs, sp, cp0.status)'
  <2> SUFFICES ASSUME NEW p, NEW r, NEW s, NEW st,
                      p = cp0.epc, r = frame.regs, s = frame.sp, st = Masked
               PROVE  MayMiss(p, r, s, st)'
    BY <1>2, <1>5
  <2> QED
    BY <1>1, <1>2, <1>4, SameMiss
<1>9. Running'
  BY <1>1, <1>2, <1>7, <1>8 DEF Running
<1> QED
  BY <1>3, <1>6, <1>9 DEF SwitchInv, Phase

-----------------------------------------------------------------------------
(***************************************************************************)
(* The jump to user space.                                                 *)
(***************************************************************************)

LEMMA process_stubStep ==
  ASSUME SwitchInv, process_stub
  PROVE  SwitchInv'
<1>1. /\ InCode /\ Types /\ StackPrivate /\ current \in User /\ current \in Thread
      /\ asid = current /\ Rest({current})
  BY CodeState DEF process_stub, InKernel, SwitchInv, Types
<1>2. /\ UNCHANGED <<asid, area, stack, stack_top, current, dead, work, tlb>>
      /\ cp0' = [cp0 EXCEPT !.status = status(TRUE, TRUE, TRUE)]
      /\ inuser' = inuser \union {current} /\ pc' = <<"write_cp0_epc">>
  BY DEF process_stub, memory
<1>3. IsCp0' /\ cp0'.status = status(TRUE, TRUE, TRUE)
  BY <1>1, <1>2, StatusType DEF Types, IsCp0
<1>4. Types' /\ StackPrivate'
  BY <1>1, <1>2, <1>3, SameStack, SameArea DEF Types, StackPrivate
<1>5. Rest({current})'
  <2> SUFFICES ASSUME NEW u \in Thread, u = current PROVE Rest({u})'
    BY <1>1, <1>2
  <2>1. \A x \in Thread \ (dead' \union {u}) :
           /\ work'[x] = work[x] /\ (x \in inuser' <=> x \in inuser)
           /\ stack_top'[x] = stack_top[x]
           /\ \A i \in 1 .. NEST + 1 : At(x, i)' = At(x, i)
    BY <1>2 DEF At, StackOf
  <2> QED
    BY <1>1, <1>2, <2>1, KeepRest
<1>6. Entering'
  BY <1>1, <1>2, <1>3, <1>5 DEF Entering
<1> QED
  BY <1>4, <1>6 DEF SwitchInv, Phase

LEMMA write_cp0_epcStep ==
  ASSUME SwitchInv, write_cp0_epc
  PROVE  SwitchInv'
<1>1. Entering /\ Types /\ StackPrivate /\ current \in Thread
  BY StateOf DEF write_cp0_epc, SwitchInv, Types
<1>2. /\ UNCHANGED <<asid, area, stack, stack_top, current, inuser, dead, work, tlb>>
      /\ cp0' = [cp0 EXCEPT !.epc = Code(current, 0, 0)]
      /\ pc' = <<"cpu_uspace_jump">>
  BY DEF write_cp0_epc, memory, threads
<1>3. IsCp0' /\ cp0'.status = cp0.status /\ cp0'.epc = Code(current, 0, 0)
  BY <1>1, <1>2 DEF Types, IsCp0
<1>4. Types' /\ StackPrivate'
  BY <1>1, <1>2, <1>3, SameTypes, SameArea DEF Types, StackPrivate
<1>5. Rest({current})'
  BY <1>1, <1>2, SameCurrent DEF Entering
<1>6. Entering'
  BY <1>1, <1>2, <1>3, <1>5 DEF Entering
<1> QED
  BY <1>4, <1>6 DEF SwitchInv, Phase

LEMMA cpu_uspace_jumpStep ==
  ASSUME SwitchInv, cpu_uspace_jump
  PROVE  SwitchInv'
<1> DEFINE t == current
           st == status(FALSE, TRUE, TRUE)
           a == [code |-> Code(t, 0, 0), status |-> st, sp |-> UserSp(0)]
<1>1. /\ Entering /\ Types /\ StackPrivate /\ t \in Thread /\ t \in inuser
      /\ pc = <<"cpu_uspace_jump">> /\ cp0.epc = Code(t, 0, 0)
      /\ asid = t /\ Rest({t})
  BY StateOf DEF cpu_uspace_jump, SwitchInv, Types, Entering
<1>2. /\ UNCHANGED <<asid, area, stack, stack_top, current, inuser, dead, tlb>>
      /\ pc' = Code(t, 0, 0) /\ regs' = Code(t, 0, 0) /\ sp' = UserSp(0)
      /\ work' = [work EXCEPT ![t] = <<a>>]
      /\ cp0' = NoException([cp0.status EXCEPT !.exl = FALSE])
  BY <1>1 DEF cpu_uspace_jump, Eret, memory
<1>3. [cp0.status EXCEPT !.exl = FALSE] = st
  <2>1. cp0.status = status(TRUE, TRUE, TRUE)
    BY <1>1 DEF Entering
  <2>2. [status(TRUE, TRUE, TRUE) EXCEPT !.exl = FALSE] = st
    BY StatusExl
  <2> QED
    BY <2>1, <2>2
<1>4. st \in Status /\ ~st.exl
  BY StatusType
<1> HIDE DEF st
<1>5. IsCp0' /\ cp0'.status = st
  BY <1>2, <1>3, <1>4, NoExceptionType
<1>6. /\ a = [code |-> Code(t, 0, 0), status |-> st, sp |-> Sp(t, 0)]
      /\ a \in Activation /\ a.code = Code(t, 0, 0) /\ a.status = st
      /\ a.sp = UserSp(0)
  BY <1>1, <1>4, ActivationType DEF Sp
<1> HIDE DEF a
<1>7. /\ work' \in [Thread -> Seq(Activation)]
      /\ work'[t] = <<a>>
      /\ \A u \in Thread \ {t} : work'[u] = work[u]
  BY <1>1, <1>2, <1>6 DEF Types
<1>8. Types' /\ StackPrivate'
  BY <1>1, <1>2, <1>5, <1>7, SameStack, SameArea DEF Types, StackPrivate
<1>9. Rest({t})'
  <2> SUFFICES ASSUME NEW u \in Thread, u = t PROVE Rest({u})'
    BY <1>1, <1>2
  <2>1. \A x \in Thread \ (dead' \union {u}) :
           /\ work'[x] = work[x] /\ (x \in inuser' <=> x \in inuser)
           /\ stack_top'[x] = stack_top[x]
           /\ \A i \in 1 .. NEST + 1 : At(x, i)' = At(x, i)
    BY <1>2, <1>7 DEF At, StackOf
  <2> QED
    BY <1>1, <1>2, <2>1, KeepRest
<1>10. Nested(t)' /\ Latest(t)' = a
  <2> SUFFICES ASSUME NEW u \in Thread, u = t
               PROVE  Nested(u)' /\ Latest(u)' = a
    BY <1>1, <1>2
  <2>1. Depth(u)' = 1 /\ Latest(u)' = a /\ work'[u][1] = a
    BY <1>7 DEF Depth, Latest
  <2>2. IsActivation(work[u][1], u, 1)'
    <3>1. Sp(u, 0)' = Sp(u, 0)
      BY <1>2 DEF Sp, UserSp, KernelSp
    <3>2. work'[u][1] = [code |-> Code(u, 1 - 1, 0), status |-> st,
                         sp |-> Sp(u, 1 - 1)']
      BY <1>6, <2>1, <3>1
    <3>3. \E v \in {0, 1}, x \in Status :
            /\ work'[u][1] = [code |-> Code(u, 1 - 1, v), status |-> x,
                              sp |-> Sp(u, 1 - 1)']
            /\ ~x.exl
            /\ v = 0 /\ 1 > 1 => ~x.ie
      <4> st \in Status
        BY <1>4
      <4> WITNESS 0 \in {0, 1}, st \in Status
      <4> QED
        BY <1>4, <3>2
    <3> QED
      BY <3>3 DEF IsActivation
  <2> QED
    BY <2>1, <2>2, ExceptionsAssumption DEF Nested
<1>11. AtCode(pc, regs, sp, cp0.status)'
  BY <1>2, <1>5, <1>6, <1>10 DEF AtCode
<1>12. Running'
  BY <1>1, <1>2, <1>4, <1>5, <1>9, <1>10, <1>11 DEF Running, MayMiss
<1> QED
  BY <1>8, <1>12 DEF SwitchInv, Phase

-----------------------------------------------------------------------------
(***************************************************************************)
(* cpu_switch_context.                                                     *)
(***************************************************************************)

LEMMA SwitchLoadStep ==
  ASSUME SwitchInv, SwitchLoad
  PROVE  SwitchInv'
<1> DEFINE a == Latest(current)
           f == Frame(sp)
<1>1. /\ Types /\ StackPrivate /\ current \in Thread \ dead /\ asid = current
      /\ Nested(current) /\ Parked(current) /\ Rest({current})
      /\ sp = Sp(current, Depth(current))
  <2>1. CASE Escaping
    BY <2>1 DEF Escaping, Rest, SwitchInv, Types
  <2>2. CASE Running /\ AtSwitch(pc, regs, sp, cp0.status)
    BY <2>2 DEF Running, AtSwitch, MayMiss, SwitchInv, Types
  <2> QED
    BY <2>1, <2>2, StateOf DEF SwitchLoad
<1>2. /\ UNCHANGED <<asid, area, frame, stack_top, current, inuser, dead, work, tlb>>
      /\ Resident /\ PutFrame(NoContext) /\ pc' = f.regs /\ regs' = f.regs
      /\ cp0' = [cp0 EXCEPT !.status = f.status] /\ sp' = Above(sp)
  BY DEF SwitchLoad, threads, PutFrame
<1>3. /\ IsStack' /\ f = At(current, Depth(current))
      /\ Depth(current)' = Depth(current) /\ Latest(current)' = a
      /\ Nested(current)' /\ Rest({current})'
  BY <1>1, <1>2, FrameStep
<1>4. f.regs = a.code /\ f.status = a.status
  BY <1>1, <1>3 DEF Parked
<1>5. a.status \in Status /\ ~a.status.exl /\ sp' = a.sp
  BY <1>1, <1>2, LatestParts, SpParts
<1> HIDE DEF a, f
<1>6. IsCp0' /\ cp0'.status = a.status
  BY <1>1, <1>2, <1>4, <1>5 DEF Types, IsCp0
<1>7. Types' /\ StackPrivate'
  BY <1>1, <1>2, <1>3, <1>6, SameArea DEF Types, StackPrivate
<1>8. AtCode(pc, regs, sp, cp0.status)'
  BY <1>2, <1>3, <1>4, <1>5, <1>6 DEF AtCode
<1>9. Running'
  BY <1>1, <1>2, <1>3, <1>5, <1>6, <1>8 DEF Running, MayMiss
<1> QED
  BY <1>7, <1>9 DEF SwitchInv, Phase

(* Once every thread that lives is parked, the next one can be loaded. *)
LEMMA SaveThenLoad ==
  ASSUME SwitchInv, SwitchSave, IsStack', Rest({})',
         stack_top' = [t \in Thread |-> stack_top'[t]],
         cp0.status.exl => current \notin inuser \/ tlb[current] # NULL
  PROVE  SwitchInv'
<1> DEFINE st == [cp0.status EXCEPT !.ie = FALSE]
<1>1. Types /\ StackPrivate /\ current \in Thread \ dead /\ cp0.status \in Status
  BY DEF SwitchInv, Types, IsCp0
<1>2. /\ UNCHANGED <<area, frame, current, inuser, dead, work, tlb>>
      /\ cp0' = [cp0 EXCEPT !.status = st] /\ asid' = current
      /\ sp' = stack_top'[current] /\ pc' = <<"sw_load">>
  BY DEF SwitchSave, threads
<1>3. st \in Status /\ ~st.ie /\ st.exl = cp0.status.exl
  BY <1>1 DEF Status
<1> HIDE DEF st
<1>4. IsCp0' /\ cp0'.status = st
  BY <1>1, <1>2, <1>3 DEF Types, IsCp0
<1>5. Types' /\ StackPrivate'
  BY <1>1, <1>2, <1>4, SameArea DEF Types, StackPrivate
<1>6. Nested(current)' /\ Parked(current)'
  BY <1>1, <1>2 DEF Rest
<1>7. sp' = Sp(current, Depth(current))'
  BY <1>2, <1>6 DEF Parked
<1>8. Rest({current})'
  BY DEF Rest
<1>9. CASE st.exl = TRUE
  <2>1. Resident'
    <3> SUFFICES ASSUME sp'[1] = "user" PROVE tlb'[asid'] # NULL
      BY DEF Resident
    <3>1. current \in inuser
      BY <1>1, <1>2, <1>7 DEF Sp, KernelSp
    <3> QED
      BY <1>2, <1>3, <1>9, <3>1
  <2>2. Escaping'
    BY <1>2, <1>4, <1>7, <1>9, <2>1 DEF Escaping
  <2> QED
    BY <1>5, <2>2 DEF SwitchInv, Phase
<1>10. CASE st.exl = FALSE
  <2>1. AtSwitch(pc, regs, sp, cp0.status)'
    BY <1>2, <1>3, <1>4, <1>6, <1>7 DEF AtSwitch
  <2>2. Running'
    BY <1>2, <1>3, <1>4, <1>6, <1>8, <1>10, <2>1 DEF Running, MayMiss
  <2> QED
    BY <1>5, <2>2 DEF SwitchInv, Phase
<1> QED
  BY <1>3, <1>9, <1>10 DEF Status

(* What SwitchSave writes on a stack, in the terms of PutAt. *)
LEMMA SwitchPut ==
  ASSUME SwitchSave, NEW t \in Thread, NEW k \in Nat, StackPrivate, asid = t,
         sp = Sp(t, k), NEW m, m = k + 1
  PROVE  Put(t, m, [NoContext EXCEPT !.regs = regs, !.status = cp0.status])
<1>1. sp # StaticSp /\ sp[3] = k
  BY SpParts
<1>2. Slot = StackOf(t)
  BY OwnSlot DEF SwitchSave
<1> QED
  BY <1>1, <1>2 DEF SwitchSave, Put

LEMMA SaveLeaving ==
  ASSUME SwitchInv, SwitchSave, NEW o \in Thread \ dead, Leaving(o)
  PROVE  SwitchInv'
<1> DEFINE c == [NoContext EXCEPT !.regs = regs, !.status = cp0.status]
<1>1. Types /\ StackPrivate /\ IsStack /\ inuser' = inuser /\ dead' = dead
      /\ work' = work /\ stack_top = [t \in Thread |-> stack_top[t]]
  BY DEF SwitchInv, Types, SwitchSave, threads
<1>2. /\ asid = o /\ Rest({o}) /\ Nested(o) /\ regs = Latest(o).code
      /\ cp0.status = Latest(o).status /\ sp = Latest(o).sp
  BY DEF Leaving
<1>3. PICK n \in 1 .. NEST + 1 : n = Depth(o) /\ n - 1 \in Nat /\ sp = Sp(o, n - 1)
  BY <1>2, LatestParts
<1>4. regs[2] = o
  BY <1>2, LatestParts, CodeParts
<1>5. c.regs = regs /\ c.status = cp0.status
  BY DEF NoContext, context
<1>6. NEST \in Nat /\ n = (n - 1) + 1
  BY <1>3, ExceptionsAssumption
<1>7. Put(o, n, c)
  BY <1>1, <1>2, <1>3, <1>6, SwitchPut
<1> HIDE DEF c
<1>8. /\ IsStack' /\ At(o, n)' = c
      /\ \A i \in 1 .. NEST + 1 : i # n => At(o, i)' = At(o, i)
      /\ \A u \in Thread \ {o}, i \in 1 .. NEST + 1 : At(u, i)' = At(u, i)
  BY <1>1, <1>7, PutAt
<1>9. stack_top' = [stack_top EXCEPT ![o] = Below(sp)]
  BY <1>4 DEF SwitchSave
<1>10. Below(sp) = Sp(o, n)
  BY <1>3, <1>6, SpParts
<1>11. /\ stack_top' = [t \in Thread |-> stack_top'[t]]
       /\ stack_top'[o] = Sp(o, n)
       /\ \A u \in Thread \ {o} : stack_top'[u] = stack_top[u]
  <2> HIDE DEF Below
  <2> QED
    BY <1>1, <1>9, <1>10
<1>12. Rest({o})'
  <2>1. \A u \in Thread \ (dead' \union {o}) :
           /\ work'[u] = work[u] /\ (u \in inuser' <=> u \in inuser)
           /\ stack_top'[u] = stack_top[u]
           /\ \A i \in 1 .. NEST + 1 : At(u, i)' = At(u, i)
    BY <1>1, <1>8, <1>11
  <2> QED
    BY <1>1, <1>2, <2>1, KeepRest
<1>13. Nested(o)'
  <2>1. \A i \in 1 .. Depth(o) - 1 : At(o, i)' = At(o, i)
    BY <1>3, <1>6, <1>8
  <2> QED
    BY <1>1, <1>2, <2>1, KeepNested, ExceptionsAssumption
<1>14. Parked(o)'
  <2>1. Depth(o)' = n /\ Latest(o)' = Latest(o)
    BY <1>1, <1>3 DEF Depth, Latest
  <2>2. At(o, Depth(o))' = c
    BY <1>8, <2>1 DEF At
  <2>3. Sp(o, Depth(o))' = Sp(o, n)
    BY <1>1, <2>1 DEF Sp, UserSp, KernelSp
  <2> QED
    BY <1>2, <1>5, <1>11, <2>1, <2>2, <2>3 DEF Parked
<1>15. Rest({})'
  BY <1>12, <1>13, <1>14 DEF Rest
<1>16. ~cp0.status.exl
  BY <1>2, LatestParts
<1> QED
  BY <1>8, <1>11, <1>15, <1>16, SaveThenLoad

LEMMA SaveAbandoning ==
  ASSUME SwitchInv, SwitchSave, Abandoning
  PROVE  SwitchInv'
<1>1. Types /\ StackPrivate /\ IsStack /\ inuser' = inuser /\ dead' = dead
      /\ work' = work /\ stack_top = [t \in Thread |-> stack_top[t]]
      /\ dead \subseteq Thread /\ Rest({})
  BY DEF SwitchInv, Types, SwitchSave, threads, Abandoning
<1>2. /\ stack_top' = [t \in Thread |-> stack_top'[t]]
      /\ \A u \in Thread \ dead : stack_top'[u] = stack_top[u]
  <2>1. CASE regs[2] \in Thread
    <3>1. regs[2] \in dead
      BY <2>1, ExceptionsAssumption DEF Abandoning
    <3>2. PICK d \in dead : stack_top' = [stack_top EXCEPT ![d] = Below(sp)]
      BY <2>1, <3>1 DEF SwitchSave
    <3> QED
      BY <1>1, <3>2
  <2>2. CASE regs[2] \notin Thread
    BY <1>1, <2>2 DEF SwitchSave
  <2> QED
    BY <2>1, <2>2
<1>3. /\ IsStack'
      /\ \A u \in Thread \ dead, i \in 1 .. NEST + 1 : At(u, i)' = At(u, i)
  <2>1. CASE sp = StaticSp
    <3>1. stack' = stack
      BY <2>1 DEF SwitchSave
    <3> QED
      BY <1>1, <3>1, SameStack DEF At, StackOf
  <2>2. CASE asid \in dead /\ \E k \in 0 .. NEST : sp = Sp(asid, k)
    <3> DEFINE c == [NoContext EXCEPT !.regs = regs, !.status = cp0.status]
    <3>1. PICK k \in 0 .. NEST : sp = Sp(asid, k)
      BY <2>2
    <3>2. PICK d \in Thread : d = asid /\ d \in dead
      BY <1>1, <2>2
    <3>3. NEST \in Nat /\ k \in Nat /\ k + 1 \in 1 .. NEST + 1 /\ sp = Sp(d, k)
      BY <3>1, <3>2, ExceptionsAssumption
    <3>4. PICK m \in 1 .. NEST + 1 : m = k + 1
      BY <3>3
    <3>5. Put(d, m, c)
      BY <1>1, <3>2, <3>3, <3>4, SwitchPut
    <3> HIDE DEF c
    <3>6. IsStack' /\ \A u \in Thread \ {d}, i \in 1 .. NEST + 1 : At(u, i)' = At(u, i)
      BY <1>1, <3>5, PutAt
    <3> QED
      BY <3>2, <3>6
  <2> QED
    BY <2>1, <2>2 DEF Abandoning
<1>4. Rest({})'
  <2>1. \A u \in Thread \ (dead' \union {}) :
           /\ work'[u] = work[u] /\ (u \in inuser' <=> u \in inuser)
           /\ stack_top'[u] = stack_top[u]
           /\ \A i \in 1 .. NEST + 1 : At(u, i)' = At(u, i)
    BY <1>1, <1>2, <1>3
  <2> QED
    BY <1>1, <2>1, KeepRest
<1> QED
  BY <1>2, <1>3, <1>4, SaveThenLoad DEF Abandoning

LEMMA SwitchSaveStep ==
  ASSUME SwitchInv, SwitchSave
  PROVE  SwitchInv'
  BY StateOf, SaveLeaving, SaveAbandoning DEF SwitchSave

-----------------------------------------------------------------------------
(***************************************************************************)
(* The theorems.                                                           *)
(***************************************************************************)

LEMMA SwitchInit == Init => SwitchInv
<1> SUFFICES ASSUME Init PROVE SwitchInv
  OBVIOUS
<1> DEFINE up == status(FALSE, TRUE, FALSE)
           first(t) == [code |-> Code(t, 0, 0), status |-> up, sp |-> KernelSp(t, 0)]
<1>1. up \in Status /\ ~up.exl
  BY StatusType
<1>2. /\ inuser = {} /\ dead = {} /\ tlb = [t \in Thread |-> NULL]
      /\ current \in Thread \ User /\ pc = <<"sw_save">> /\ sp = StaticSp
      /\ regs = <<"boot", NULL>> /\ area = NoContext
      /\ cp0 = NoException(KernelMode)
      /\ stack_top = [t \in Thread |-> KernelSp(t, 1)]
      /\ work = [t \in Thread |-> <<first(t)>>]
  BY DEF Init
<1> HIDE DEF up
<1>3. IsCp0 /\ cp0.status = KernelMode /\ IsArea
  BY <1>2, KernelModeType DEF IsCp0, NoException, IsArea, NoContext, context
<1>4. IsStack
  BY DEF Init, IsStack
<1>5. ASSUME NEW t \in Thread, NEW k \in Nat
      PROVE  Sp(t, k) = KernelSp(t, k)
  BY <1>2 DEF Sp
<1>6. ASSUME NEW t \in Thread
      PROVE  /\ first(t) \in Activation
             /\ work[t] = <<first(t)>> /\ Depth(t) = 1 /\ Latest(t) = first(t)
             /\ Latest(t).code = Code(t, 0, 0) /\ Latest(t).status = up
  BY <1>1, <1>2, <1>5, ActivationType DEF Depth, Latest
<1> HIDE DEF first
<1>7. work \in [Thread -> Seq(Activation)]
  <2>1. \A t \in Thread : <<first(t)>> \in Seq(Activation)
    BY <1>6
  <2> QED
    BY <1>2, <2>1
<1>8. Types /\ StackPrivate
  BY <1>2, <1>3, <1>4, <1>7 DEF Types, StackPrivate
<1>9. ASSUME NEW t \in Thread
      PROVE  Nested(t) /\ Parked(t)
  <2>1. IsActivation(work[t][1], t, 1)
    <3>1. work[t][1] = [code |-> Code(t, 1 - 1, 0), status |-> up,
                        sp |-> Sp(t, 1 - 1)]
      BY <1>5, <1>6 DEF first
    <3>2. \E v \in {0, 1}, x \in Status :
            /\ work[t][1] = [code |-> Code(t, 1 - 1, v), status |-> x,
                             sp |-> Sp(t, 1 - 1)]
            /\ ~x.exl
            /\ v = 0 /\ 1 > 1 => ~x.ie
      <4> up \in Status
        BY <1>1
      <4> WITNESS 0 \in {0, 1}, up \in Status
      <4> QED
        BY <1>1, <3>1
    <3> QED
      BY <3>2 DEF IsActivation
  <2>2. Nested(t)
    <3>1. Depth(t) = 1 /\ 1 \in 1 .. NEST + 1
      BY <1>6, ExceptionsAssumption
    <3>2. \A i \in 1 .. Depth(t) : i = 1
      BY <3>1
    <3>3. \A i \in 1 .. Depth(t) - 1 : FALSE
      BY <3>1
    <3> QED
      BY <2>1, <3>1, <3>2, <3>3 DEF Nested
  <2>3. At(t, 1) = [NoContext EXCEPT !.regs = Code(t, 0, 0), !.status = up]
    <3>1. StackOf(t) = <<"kernel", t>> /\ StackOf(t) \in Slots
      BY <1>2, StackParts DEF StackOf
    <3>2. 1 \in 1 .. NEST + 1
      BY ExceptionsAssumption
    <3> DEFINE ctx(x, i) == IF x[1] = "kernel" /\ i = 1
                            THEN [NoContext EXCEPT !.regs = Code(x[2], 0, 0),
                                                   !.status = up]
                            ELSE NoContext
    <3>3. stack = [x \in Slots |-> [i \in 1 .. NEST + 1 |-> ctx(x, i)]]
      BY DEF Init, up
    <3>4. ctx(<<"kernel", t>>, 1)
            = [NoContext EXCEPT !.regs = Code(t, 0, 0), !.status = up]
      OBVIOUS
    <3> HIDE DEF ctx
    <3>5. At(t, 1) = ctx(<<"kernel", t>>, 1)
      BY <3>1, <3>2, <3>3 DEF At
    <3> QED
      BY <3>4, <3>5
  <2>4. At(t, 1).regs = Code(t, 0, 0) /\ At(t, 1).status = up
    BY <2>3 DEF NoContext, context
  <2>5. stack_top[t] = Sp(t, 1)
    BY <1>2, <1>5
  <2>6. Parked(t)
    BY <1>6, <2>4, <2>5 DEF Parked
  <2> QED
    BY <2>2, <2>6
<1>10. Abandoning
  BY <1>2, <1>3, <1>9, KernelModeType DEF Abandoning, Rest
<1>11. Resident
  BY <1>2 DEF Resident, StaticSp
<1> QED
  BY <1>8, <1>10, <1>11 DEF SwitchInv, Phase

LEMMA SwitchStutter ==
  ASSUME SwitchInv, UNCHANGED vars
  PROVE  SwitchInv'
<1> USE DEF vars
<1>1. Types' /\ StackPrivate' /\ current \in Thread /\ asid' = asid /\ sp' = sp
      /\ pc' = pc /\ Types /\ regs' = regs /\ cp0' = cp0 /\ current' = current
      /\ area' = area /\ dead' = dead /\ inuser' = inuser /\ tlb' = tlb
      /\ frame' = frame
  BY SameTypes, SameArea DEF SwitchInv, Types, IsCp0, StackPrivate
<1>2. \A X : Rest(X) => Rest(X)'
  BY SameRest
<1>3. \A p, r, s, st : MayMiss(p, r, s, st) => MayMiss(p, r, s, st)'
  BY <1>1, SameMiss
<1>4. \A t \in Thread : Nested(t) => Nested(t)'
  BY SameNested
<1>5. \A t : /\ Depth(t)' = Depth(t) /\ Latest(t)' = Latest(t)
             /\ \A k : Sp(t, k)' = Sp(t, k)
  BY SameParts
<1>6. Resident => Resident'
  BY DEF Resident
<1>7. Masked' = Masked
  BY DEF Masked
<1>8. Running => Running'
  BY <1>1, <1>2, <1>3 DEF Running
<1>9. Refilling => Refilling'
  BY <1>1, <1>2, <1>3, <1>7 DEF Refilling
<1>10. Excepted => Excepted'
  BY <1>1, <1>2, <1>4, <1>5 DEF Excepted
<1>11. Returning => Returning'
  BY <1>1, <1>2, <1>4, <1>5 DEF Returning
<1>12. \A o \in Thread : Leaving(o) => Leaving(o)'
  BY <1>1, <1>2, <1>4, <1>5 DEF Leaving
<1>13. Abandoning => Abandoning'
  BY <1>1, <1>2, <1>5 DEF Abandoning
<1>14. Escaping => Escaping'
  BY <1>1, <1>2, <1>5, <1>6 DEF Escaping
<1>15. Entering => Entering'
  BY <1>1, <1>2 DEF Entering
<1>16. Stopped => Stopped'
  BY <1>1 DEF Stopped
<1> QED
  BY <1>1, <1>6, <1>8, <1>9, <1>10, <1>11, <1>12, <1>13, <1>14, <1>15, <1>16
     DEF SwitchInv, Phase

LEMMA SwitchNext ==
  ASSUME SwitchInv, KILL_MISSES = FALSE, [Next]_vars
  PROVE  SwitchInv'
<1>1. CASE Handler
  <2>1. CASE \E t \in Thread : RefillKill(t)
    BY <2>1, RefillKillStep
  <2> QED
    BY <1>1, <2>1, handle_generalStep, SaveRegistersStep, MoveStaticAreaStep,
       UnloadStaticAreaStep, LoadRegistersStep, ReturnFromExceptionStep,
       SwitchSaveStep, SwitchLoadStep, handle_tlb_refillStep,
       wrapped_tlb_refillStep, write_cp0_epcStep, cpu_uspace_jumpStep,
       StackMissStep DEF Handler
<1>2. CASE Program
  <2>1. CASE \E t \in Thread : InvalidKill(t) \/ schedule(t) \/ Finish(t)
    BY <2>1, InvalidKillStep, scheduleStep, FinishStep
  <2> QED
    BY <1>2, <2>1, SetInterruptsStep, interruptStep, syscallStep,
       tlb_invalidStep, panicStep, ReturnStep, process_stubStep, InterruptStep,
       SyscallStep, UserAccessStep, FatalStep, StackMissStep DEF Program
<1>3. CASE Halted
  BY <1>3, SwitchStutter DEF Halted
<1>4. CASE UNCHANGED vars
  BY <1>4, SwitchStutter
<1> QED
  BY <1>1, <1>2, <1>3, <1>4 DEF Next

LEMMA SwitchCorrect == KILL_MISSES = FALSE /\ Spec => []SwitchInv
<1> SUFFICES ASSUME KILL_MISSES = FALSE PROVE Spec => []SwitchInv
  OBVIOUS
<1>1. Init => SwitchInv
  BY SwitchInit
<1>2. SwitchInv /\ [Next]_vars => SwitchInv'
  BY SwitchNext
<1> QED
  BY <1>1, <1>2, PTL DEF Spec

(***************************************************************************)
(* The TLB leads no thread to the stack of another one, however TLB        *)
(* misses, nested exceptions and switches of threads interleave: at every  *)
(* store the address space in EntryHi is the one of current_thread         *)
(* (thread_switch and cpu_switch_context change the two apart).  A refill  *)
(* must not end a thread in favour of one whose stack is not in the TLB.   *)
(***************************************************************************)
THEOREM StackPrivateCorrect ==
  KILL_MISSES = FALSE /\ Spec => []StackPrivate
<1>1. SwitchInv => StackPrivate
  BY DEF SwitchInv
<1> QED
  BY <1>1, SwitchCorrect, PTL

(***************************************************************************)
(* Code of a thread or of a handler always runs with its own registers,    *)
(* Status, stack pointer and address space, at any depth of nested         *)
(* exceptions and for any number of threads (handle_general,               *)
(* handle_tlb_refill, cpu_switch_context).                                 *)
(***************************************************************************)
THEOREM ResumesOwnCorrect ==
  KILL_MISSES = FALSE /\ Spec => []ResumesOwn
<1>1. SwitchInv => ResumesOwn
  <2> SUFFICES ASSUME SwitchInv PROVE ResumesOwn
    OBVIOUS
  <2>1. pc[1] # "junk"
    BY PlaceNames
  <2>2. ASSUME InCode
        PROVE  /\ regs = pc /\ asid = current /\ work[current] # << >>
               /\ Last(work[current])
                    = [code |-> pc, status |-> cp0.status, sp |-> sp]
    <3>1. /\ asid = current /\ Nested(current) /\ current \in Thread
          /\ AtCode(pc, regs, sp, cp0.status) /\ work[current] \in Seq(Activation)
      BY <2>2, CodeState DEF SwitchInv, Types
    <3>2. Depth(current) \in Nat \ {0} /\ Depth(current) = Len(work[current])
      BY <3>1, LatestParts DEF Depth
    <3>3. Latest(current) \in Activation /\ Last(work[current]) = Latest(current)
      BY <3>1, <3>2 DEF Latest, Last
    <3>4. Latest(current) = [code |-> Latest(current).code,
                             status |-> Latest(current).status,
                             sp |-> Latest(current).sp]
      BY <3>3 DEF Activation
    <3> QED
      BY <3>1, <3>2, <3>3, <3>4 DEF AtCode
  <2> QED
    BY <2>1, <2>2 DEF ResumesOwn, Junk
<1> QED
  BY <1>1, SwitchCorrect, PTL

(***************************************************************************)
(* While code runs, every interrupted context is in a frame of the stack   *)
(* of its own thread, and every thread that was switched away from has its *)
(* context at stack_top (MoveStaticArea of handle_general,                 *)
(* cpu_switch_context).                                                    *)
(***************************************************************************)
THEOREM ContextsOnStackCorrect ==
  KILL_MISSES = FALSE /\ Spec => []ContextsOnStack
<1>1. SwitchInv => ContextsOnStack
  <2> SUFFICES ASSUME SwitchInv, InCode, NEW t \in Thread \ dead
               PROVE  LET n == Len(work[t]) IN
                      /\ \A i \in 1 .. n - 1 :
                           LET f == stack[StackOf(t)][i] IN
                           /\ f.regs = work[t][i].code
                           /\ f.epc = work[t][i].code
                           /\ f.status = [work[t][i].status EXCEPT !.exl = TRUE]
                      /\ t # current =>
                           /\ stack[StackOf(t)][n].regs = work[t][n].code
                           /\ stack[StackOf(t)][n].status = work[t][n].status
                           /\ stack_top[t] = Below(work[t][n].sp)
    BY DEF ContextsOnStack
  <2>1. Rest({current}) /\ Nested(current) /\ current \in Thread
    BY CodeState DEF SwitchInv, Types
  <2>2. Nested(t) /\ (t # current => Parked(t))
    BY <2>1 DEF Rest
  <2>3. Depth(t) - 1 \in Nat /\ (Depth(t) - 1) + 1 = Depth(t)
    BY <2>2, LatestParts
  <2>4. Below(Latest(t).sp) = Sp(t, Depth(t))
    BY <2>2, <2>3, LatestParts, SpParts
  <2>5. \A i \in 1 .. Len(work[t]) - 1 : Pushed(stack[StackOf(t)][i], work[t][i], t)
    BY <2>2 DEF Nested, Depth, At
  <2> QED
    BY <2>2, <2>4, <2>5 DEF Parked, Pushed, At, Depth, Latest
<1> QED
  BY <1>1, SwitchCorrect, PTL
=============================================================================
