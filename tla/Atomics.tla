------------------------------ MODULE Atomics ------------------------------
(***************************************************************************)
(* The atomic operations of kernel/adt/atomic.h: loops of load linked and  *)
(* store conditional, on one variable that several CPUs share.  One action *)
(* is one access to the variable; the instructions in between touch only   *)
(* registers of the CPU.  The link bit is hardware: a load linked sets it, *)
(* and a store of another CPU to the same word or the return from an       *)
(* exception clears it.                                                    *)
(***************************************************************************)
EXTENDS Naturals

CONSTANTS Cpu,         \* the CPUs
          RANGE,       \* values of native_t, 2^32
          Ops,         \* the operations that are called: [fn, num]
          EXCEPTIONS,  \* bound on the exceptions of a behaviour
          NONE

Function == {"get", "set", "test_and_set", "add", "post_add", "sub"}

ASSUME AtomicsAssumption ==
  /\ RANGE \in Nat \ {0, 1}
  /\ Ops \subseteq [fn : Function, num : 0 .. RANGE - 1]
  /\ EXCEPTIONS \in Nat
  /\ NONE \notin Ops

VARIABLES value,       \* var->value
          call,        \* the operation a CPU is in, or NONE
          pc,          \* idle, ll (before the load), sc (before the store), ret
          orig,        \* register orig
          link,        \* the CPUs whose link bit is set
          ret,         \* the value to be returned
          exceptions   \* exceptions so far

vars == <<value, call, pc, orig, link, ret, exceptions>>

Value == 0 .. RANGE - 1

addu(a, b) == (a + b) % RANGE
subu(a, b) == (a + RANGE - b) % RANGE

Init ==
  /\ value = 0
  /\ call = [c \in Cpu |-> NONE]
  /\ pc = [c \in Cpu |-> "idle"]
  /\ orig = [c \in Cpu |-> 0]
  /\ link = {}
  /\ ret = [c \in Cpu |-> 0]
  /\ exceptions = 0

Invoke(c, op) ==
  /\ pc[c] = "idle"
  /\ call' = [call EXCEPT ![c] = op]
  /\ pc' = [pc EXCEPT ![c] = "ll"]
  /\ UNCHANGED <<value, orig, link, ret, exceptions>>

(* The variable is written by c: the links of the other CPUs break. *)
Store(c, v) == value' = v /\ link' = link \cap {c}

Finish(c, r) == pc' = [pc EXCEPT ![c] = "ret"] /\ ret' = [ret EXCEPT ![c] = r]

atomic_get(c) ==
  /\ pc[c] = "ll"
  /\ call[c].fn = "get"
  /\ Finish(c, value)
  /\ UNCHANGED <<value, call, orig, link, exceptions>>

atomic_set(c) ==
  /\ pc[c] = "ll"
  /\ call[c].fn = "set"
  /\ Store(c, call[c].num)
  /\ Finish(c, 0)
  /\ UNCHANGED <<call, orig, exceptions>>

(* ll, and in atomic_test_and_set the branch out when the value is set. *)
ll(c) ==
  /\ pc[c] = "ll"
  /\ call[c].fn \notin {"get", "set"}
  /\ orig' = [orig EXCEPT ![c] = value]
  /\ link' = link \cup {c}
  /\ IF call[c].fn = "test_and_set" /\ value # 0
     THEN Finish(c, value)
     ELSE pc' = [pc EXCEPT ![c] = "sc"] /\ UNCHANGED ret
  /\ UNCHANGED <<value, call, exceptions>>

(* What is stored, and what is returned once the store has succeeded. *)
Stored(c) ==
  CASE call[c].fn = "test_and_set" -> 1
    [] call[c].fn = "sub"          -> subu(orig[c], call[c].num)
    [] OTHER                       -> addu(orig[c], call[c].num)

Returned(c) ==
  CASE call[c].fn \in {"test_and_set", "post_add"} -> orig[c]
    [] call[c].fn = "sub"                          -> subu(orig[c], call[c].num)
    [] OTHER                                       -> addu(orig[c], call[c].num)

sc(c) ==
  /\ pc[c] = "sc"
  /\ c \in link
  /\ value' = Stored(c)
  /\ link' = {}
  /\ Finish(c, Returned(c))
  /\ UNCHANGED <<call, orig, exceptions>>

sc_fails_again(c) ==   \* mutant: the branch goes to the store, not the load
  /\ pc[c] = "sc"
  /\ c \notin link
  /\ UNCHANGED vars

sc_fails_through(c) ==   \* mutant: the branch back is missing
  /\ pc[c] = "sc"
  /\ c \notin link
  /\ Finish(c, Returned(c))
  /\ UNCHANGED <<value, call, orig, link, exceptions>>

sc_fails(c) ==
  /\ pc[c] = "sc"
  /\ c \notin link
  /\ pc' = [pc EXCEPT ![c] = "ll"]
  /\ UNCHANGED <<value, call, orig, link, ret, exceptions>>

Leave(c) ==
  /\ pc[c] = "ret"
  /\ pc' = [pc EXCEPT ![c] = "idle"]
  /\ call' = [call EXCEPT ![c] = NONE]
  /\ ret' = [ret EXCEPT ![c] = 0]
  /\ UNCHANGED <<value, orig, link, exceptions>>

(* An exception is taken and returned from. *)
exception(c) ==
  /\ exceptions < EXCEPTIONS
  /\ c \in link
  /\ exceptions' = exceptions + 1
  /\ link' = link \ {c}
  /\ UNCHANGED <<value, call, pc, orig, ret>>

Step(c) ==
  \/ atomic_get(c) \/ atomic_set(c) \/ ll(c)
  \/ sc(c) \/ sc_fails(c) \/ Leave(c)

Next == \E c \in Cpu : Step(c) \/ exception(c) \/ \E op \in Ops : Invoke(c, op)

Spec == Init /\ [][Next]_vars

(* A CPU keeps executing instructions. *)
FairSpec == Spec /\ \A c \in Cpu : WF_vars(Step(c))

-----------------------------------------------------------------------------
TypeOK ==
  /\ value \in Value
  /\ call \in [Cpu -> Ops \cup {NONE}]
  /\ pc \in [Cpu -> {"idle", "ll", "sc", "ret"}]
  /\ orig \in [Cpu -> Value]
  /\ link \subseteq Cpu
  /\ ret \in [Cpu -> Value]
  /\ exceptions \in Nat

(***************************************************************************)
(* A CPU that stands before its store and still has the link holds the     *)
(* current value of the variable in orig, and in atomic_test_and_set that  *)
(* value is 0: whatever other CPUs and exceptions did since the load.      *)
(***************************************************************************)
LinkedIsCurrent ==
  /\ \A c \in Cpu : pc[c] = "idle" <=> call[c] = NONE
  /\ \A c \in Cpu : pc[c] = "sc" /\ c \in link => orig[c] = value
  /\ \A c \in Cpu : pc[c] = "sc" => call[c].fn \notin {"get", "set"}
  /\ \A c \in Cpu : pc[c] = "sc" /\ call[c].fn = "test_and_set" => orig[c] = 0

(***************************************************************************)
(* Refinement: every operation of kernel/adt/atomic.h takes effect in one  *)
(* step and returns the original or the new value as its comment says.     *)
(* Where a comment and the code differ in the value left behind, which is  *)
(* atomic_test_and_set on a value above 1, AtomicVariable follows the code.*)
(***************************************************************************)
Abstract == INSTANCE AtomicVariable WITH done <- {c \in Cpu : pc[c] = "ret"}

AtomicSpec == Abstract!Spec

(***************************************************************************)
(* The loops are lock-free: while some CPU is in an operation, some        *)
(* operation finishes, since a store fails only when another one has       *)
(* succeeded or an exception came.                                         *)
(***************************************************************************)
LockFree == (\E c \in Cpu : pc[c] \in {"ll", "sc"}) ~> (\E c \in Cpu : pc[c] = "ret")
=============================================================================
