----------------------------- MODULE Allocator -----------------------------
(***************************************************************************)
(* What kernel/mm/malloc.h promises to the callers of malloc and free: a   *)
(* pointer that malloc returns is aligned and the start of at least the    *)
(* requested space, which no other live allocation touches and which stays *)
(* as it is until it is freed.  A request may fail.                        *)
(***************************************************************************)
EXTENDS Naturals

CONSTANTS MEMORY,     \* number of addresses
          ALIGNMENT,  \* alignment of pointers
          Sizes       \* sizes that callers request

VARIABLES live,       \* the extents that callers hold
          asked       \* the size of the request in progress, if there is one

Extent == [addr : 0 .. MEMORY, size : 0 .. MEMORY]

Disjoint(x, y) == x.addr + x.size <= y.addr \/ y.addr + y.size <= x.addr

Init == live = {} /\ asked = {}

Ask(size) ==
  /\ asked = {}
  /\ asked' = {size}
  /\ UNCHANGED live

Malloc(x) ==
  /\ x \in Extent
  /\ x.addr % ALIGNMENT = 0
  /\ x.addr + x.size <= MEMORY
  /\ \E size \in asked : x.size >= size
  /\ \A y \in live : Disjoint(x, y)
  /\ x \notin live
  /\ live' = live \cup {x}
  /\ asked' = {}

Fail == asked # {} /\ asked' = {} /\ UNCHANGED live

Free(x) ==
  /\ asked = {}
  /\ x \in live
  /\ live' = live \ {x}
  /\ UNCHANGED asked

Next ==
  \/ \E size \in Sizes : Ask(size)
  \/ \E x \in live' : Malloc(x)
  \/ \E x \in live : Free(x)
  \/ Fail

Spec == Init /\ [][Next]_<<live, asked>>
=============================================================================
