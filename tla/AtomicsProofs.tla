--------------------------- MODULE AtomicsProofs ---------------------------
(***************************************************************************)
(* Proof that the loops of kernel/adt/atomic.h implement AtomicVariable,   *)
(* for any number of CPUs, any width of the variable and any exceptions.   *)
(* The invariant is that a CPU whose link is intact knows the value.       *)
(***************************************************************************)
EXTENDS Atomics, TLAPS

(* The arithmetic of the CPU stays in its registers. *)
LEMMA Arithmetic ==
  ASSUME NEW a \in Value, NEW b \in Value
  PROVE  addu(a, b) \in Value /\ subu(a, b) \in Value
BY AtomicsAssumption DEF addu, subu, Value

(* The initial state satisfies the invariant. *)
LEMMA InitInvariant == Init => TypeOK /\ LinkedIsCurrent
BY AtomicsAssumption DEF Init, TypeOK, LinkedIsCurrent, Value

(* What is stored and returned is a value. *)
LEMMA Results ==
  ASSUME TypeOK, LinkedIsCurrent, NEW c \in Cpu, pc[c] = "sc"
  PROVE  /\ call[c] \in Ops /\ call[c].fn \in Function /\ call[c].num \in Value
         /\ Stored(c) \in Value /\ Returned(c) \in Value
<1>1. call[c] \in Ops /\ call[c].fn \in Function /\ call[c].num \in Value
  BY AtomicsAssumption DEF TypeOK, LinkedIsCurrent, Value
<1>2. orig[c] \in Value
  BY DEF TypeOK
<1>3. addu(orig[c], call[c].num) \in Value /\ subu(orig[c], call[c].num) \in Value
  BY <1>1, <1>2, Arithmetic
<1>4. 1 \in Value
  BY AtomicsAssumption DEF Value
<1>5. Stored(c) \in Value
  BY <1>3, <1>4 DEF Stored
<1>6. Returned(c) \in Value
  BY <1>2, <1>3 DEF Returned
<1> QED
  BY <1>1, <1>5, <1>6

(* Every step keeps the types and the invariant. *)
LEMMA StepInvariant ==
  ASSUME TypeOK, LinkedIsCurrent, [Next]_vars
  PROVE  TypeOK' /\ LinkedIsCurrent'
<1> USE DEF TypeOK, LinkedIsCurrent
<1>1. ASSUME NEW c \in Cpu, NEW op \in Ops, Invoke(c, op)
      PROVE  TypeOK' /\ LinkedIsCurrent'
  BY <1>1, AtomicsAssumption DEF Invoke
<1>2. ASSUME NEW c \in Cpu, atomic_get(c)
      PROVE  TypeOK' /\ LinkedIsCurrent'
  BY <1>2 DEF atomic_get, Finish
<1>3. ASSUME NEW c \in Cpu, atomic_set(c)
      PROVE  TypeOK' /\ LinkedIsCurrent'
  <2>1. call[c].num \in Value /\ 0 \in Value
    BY <1>3, AtomicsAssumption DEF atomic_set, Value
  <2> QED
    BY <1>3, <2>1 DEF atomic_set, Finish, Store
<1>4. ASSUME NEW c \in Cpu, ll(c)
      PROVE  TypeOK' /\ LinkedIsCurrent'
  <2>1. CASE call[c].fn = "test_and_set" /\ value # 0
    BY <1>4, <2>1 DEF ll, Finish
  <2>2. CASE ~(call[c].fn = "test_and_set" /\ value # 0)
    BY <1>4, <2>2 DEF ll
  <2> QED
    BY <2>1, <2>2
<1>5. ASSUME NEW c \in Cpu, sc(c)
      PROVE  TypeOK' /\ LinkedIsCurrent'
  <2>1. Stored(c) \in Value /\ Returned(c) \in Value
    BY <1>5, Results DEF sc
  <2> QED
    BY <1>5, <2>1 DEF sc, Finish
<1>6. ASSUME NEW c \in Cpu, sc_fails(c)
      PROVE  TypeOK' /\ LinkedIsCurrent'
  BY <1>6 DEF sc_fails
<1>7. ASSUME NEW c \in Cpu, Leave(c)
      PROVE  TypeOK' /\ LinkedIsCurrent'
  BY <1>7, AtomicsAssumption DEF Leave, Value
<1>8. ASSUME NEW c \in Cpu, exception(c)
      PROVE  TypeOK' /\ LinkedIsCurrent'
  BY <1>8 DEF exception
<1>9. CASE UNCHANGED vars
  BY <1>9 DEF vars
<1> QED
  BY <1>1, <1>2, <1>3, <1>4, <1>5, <1>6, <1>7, <1>8, <1>9 DEF Next, Step

(* A CPU that reaches its store with the link intact knows the value. *)
THEOREM LinkCorrect == Spec => [](TypeOK /\ LinkedIsCurrent)
<1> QED
  BY InitInvariant, StepInvariant, PTL DEF Spec

-----------------------------------------------------------------------------
(* Every step of the loops is a step of AtomicVariable or invisible there. *)
LEMMA StepRefines ==
  ASSUME TypeOK, LinkedIsCurrent, [Next]_vars
  PROVE  [Abstract!Next]_(Abstract!vars)
<1> DEFINE done == {c \in Cpu : pc[c] = "ret"}
<1> USE DEF TypeOK, LinkedIsCurrent
<1>1. ASSUME NEW c \in Cpu, NEW op \in Ops, Invoke(c, op)
      PROVE  Abstract!Call(c, op)
  BY <1>1 DEF Invoke, Abstract!Call
<1>2. ASSUME NEW c \in Cpu, atomic_get(c)
      PROVE  Abstract!Perform(c)
  BY <1>2 DEF atomic_get, Finish, Abstract!Perform, Abstract!Effect
<1>3. ASSUME NEW c \in Cpu, atomic_set(c)
      PROVE  Abstract!Perform(c)
  BY <1>3 DEF atomic_set, Finish, Store, Abstract!Perform, Abstract!Effect
<1>4. ASSUME NEW c \in Cpu, ll(c)
      PROVE  Abstract!Perform(c) \/ UNCHANGED Abstract!vars
  <2>1. CASE call[c].fn = "test_and_set" /\ value # 0
    BY <1>4, <2>1 DEF ll, Finish, Abstract!Perform, Abstract!Effect
  <2>2. CASE ~(call[c].fn = "test_and_set" /\ value # 0)
    BY <1>4, <2>2 DEF ll, Abstract!vars
  <2> QED
    BY <2>1, <2>2
<1>5. ASSUME NEW c \in Cpu, sc(c)
      PROVE  Abstract!Perform(c)
  <2>1. /\ call[c] # NONE /\ pc[c] = "sc" /\ orig[c] = value
        /\ call[c].fn \in {"test_and_set", "add", "post_add", "sub"}
        /\ call[c].fn = "test_and_set" => value = 0
    BY <1>5, Results DEF sc, Function
  <2>2. value' = Abstract!Effect(call[c], value).value
    BY <1>5, <2>1 DEF sc, Stored, addu, subu, Abstract!Effect, Abstract!sum, Abstract!difference
  <2>3. Returned(c) = Abstract!Effect(call[c], value).ret
    BY <1>5, <2>1 DEF sc, Returned, addu, subu, Abstract!Effect, Abstract!sum, Abstract!difference
  <2>4. done' = done \cup {c}
    BY <1>5, <2>1 DEF sc, Finish
  <2> QED
    BY <1>5, <2>1, <2>2, <2>3, <2>4 DEF sc, Finish, Abstract!Perform
<1>6. ASSUME NEW c \in Cpu, sc_fails(c)
      PROVE  UNCHANGED Abstract!vars
  BY <1>6 DEF sc_fails, Abstract!vars
<1>7. ASSUME NEW c \in Cpu, Leave(c)
      PROVE  Abstract!Return(c)
  BY <1>7 DEF Leave, Abstract!Return
<1>8. ASSUME NEW c \in Cpu, exception(c)
      PROVE  UNCHANGED Abstract!vars
  BY <1>8 DEF exception, Abstract!vars
<1>9. CASE UNCHANGED vars
  BY <1>9 DEF vars, Abstract!vars
<1> QED
  BY <1>1, <1>2, <1>3, <1>4, <1>5, <1>6, <1>7, <1>8, <1>9
  DEF Next, Step, Abstract!Next

(* The loops implement atomic operations: kernel/adt/atomic.h keeps the    *)
(* promise of AtomicVariable.                                              *)
THEOREM AtomicCorrect == Spec => AtomicSpec
<1>1. Init => Abstract!Init
  BY DEF Init, Abstract!Init
<1>2. TypeOK /\ LinkedIsCurrent /\ [Next]_vars => [Abstract!Next]_(Abstract!vars)
  BY StepRefines
<1> QED
  BY <1>1, <1>2, LinkCorrect, PTL DEF Spec, AtomicSpec, Abstract!Spec
=============================================================================
