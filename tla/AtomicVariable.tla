--------------------------- MODULE AtomicVariable ---------------------------
(***************************************************************************)
(* What callers of kernel/adt/atomic.h can rely on: an operation on an     *)
(* atomic variable takes effect in one step between its call and its       *)
(* return, and returns the value that its comment names.  The new value is *)
(* the one of the comment too, except for atomic_test_and_set: it is to    *)
(* "Set the value of an atomic variable to 1" (atomic.h:69), but the code  *)
(* stores only when it finds 0 and leaves any other value as it is.  The   *)
(* two agree on a flag, whose values are 0 and 1.                          *)
(***************************************************************************)
EXTENDS Naturals

CONSTANTS Cpu, RANGE, Ops, NONE

VARIABLES value,   \* the variable
          call,    \* the operation that a CPU executes, or NONE
          done,    \* the CPUs whose operation has taken effect
          ret      \* what it returned

vars == <<value, call, done, ret>>

sum(a, b) == (a + b) % RANGE
difference(a, b) == (a + RANGE - b) % RANGE

(* The new value of the variable and the result of an operation. *)
Effect(op, v) ==
  CASE op.fn = "get"          -> [value |-> v, ret |-> v]
    [] op.fn = "set"          -> [value |-> op.num, ret |-> 0]
    [] op.fn = "test_and_set" -> [value |-> IF v = 0 THEN 1 ELSE v, ret |-> v]
    [] op.fn = "add"          -> [value |-> sum(v, op.num), ret |-> sum(v, op.num)]
    [] op.fn = "post_add"     -> [value |-> sum(v, op.num), ret |-> v]
    [] op.fn = "sub"          -> [value |-> difference(v, op.num), ret |-> difference(v, op.num)]

Init ==
  /\ value = 0
  /\ call = [c \in Cpu |-> NONE]
  /\ done = {}
  /\ ret = [c \in Cpu |-> 0]

Call(c, op) ==
  /\ call[c] = NONE
  /\ call' = [call EXCEPT ![c] = op]
  /\ UNCHANGED <<value, done, ret>>

Perform(c) ==
  /\ call[c] # NONE
  /\ c \notin done
  /\ value' = Effect(call[c], value).value
  /\ ret' = [ret EXCEPT ![c] = Effect(call[c], value).ret]
  /\ done' = done \cup {c}
  /\ UNCHANGED call

Return(c) ==
  /\ c \in done
  /\ call' = [call EXCEPT ![c] = NONE]
  /\ ret' = [ret EXCEPT ![c] = 0]
  /\ done' = done \ {c}
  /\ UNCHANGED value

Next == \E c \in Cpu : (\E op \in Ops : Call(c, op)) \/ Perform(c) \/ Return(c)

Spec == Init /\ [][Next]_vars
=============================================================================
