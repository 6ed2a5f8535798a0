----------------------------- MODULE LinkedList -----------------------------
(***************************************************************************)
(* The circular doubly linked lists of kernel/adt/list.h on the level of   *)
(* their pointers.  A list is identified with the link in its head; an     *)
(* assignment to a pointer is an update of next or prev, in the order of   *)
(* the code, so that a pointer that an earlier assignment changed is read  *)
(* in its new value.                                                       *)
(***************************************************************************)
EXTENDS Naturals, Sequences, FiniteSets

CONSTANTS List,   \* heads of lists
          Link,   \* links embedded in items
          NULL

ASSUME LinkAssumption == NULL \notin List \cup Link /\ List \cap Link = {}

ASSUME FiniteAssumption == IsFiniteSet(Link)

VARIABLES m,       \* the pointers: [next, prev]
          result   \* what the last operation returned

vars == <<m, result>>

Node == List \cup Link

(* list_init for every list and link_init for every item. *)
list_init == [p \in Node |-> IF p \in List THEN p ELSE NULL]

Init == m = [next |-> list_init, prev |-> list_init] /\ result = NULL

link_connected(h, x) == h.prev[x] # NULL /\ h.next[x] # NULL

list_empty(h, l) == h.next[l] = l

-----------------------------------------------------------------------------
(* The assignments p->next = v and p->prev = v. *)
SetNext(h, p, v) == [next |-> [h.next EXCEPT ![p] = v], prev |-> h.prev]
SetPrev(h, p, v) == [next |-> h.next, prev |-> [h.prev EXCEPT ![p] = v]]

list_append(h, l, x) ==
  LET a == SetPrev(SetNext(h, x, l), x, h.prev[l])
      b == SetNext(a, a.prev[l], x)
  IN  SetPrev(b, l, x)

list_prepend_early(h, l, x) ==   \* mutant: the head is redirected too early
  LET a == SetPrev(SetNext(h, x, h.next[l]), x, l)
      b == SetNext(a, l, x)
  IN  SetPrev(b, b.next[l], x)

list_prepend(h, l, x) ==
  LET a == SetPrev(SetNext(h, x, h.next[l]), x, l)
      b == SetPrev(a, a.next[l], x)
  IN  SetNext(b, l, x)

link_init(h, x) == SetNext(SetPrev(h, x, NULL), x, NULL)

Unlink(h, x) ==
  LET a == SetPrev(h, h.next[x], h.prev[x])
  IN  SetNext(a, a.prev[x], a.next[x])

list_remove_dangling(h, x) ==   \* mutant: the item keeps its pointers
  IF link_connected(h, x) THEN Unlink(h, x) ELSE h

list_remove(h, x) == link_init(IF link_connected(h, x) THEN Unlink(h, x) ELSE h, x)

list_pop(h, l) == list_remove(h, h.next[l])

-----------------------------------------------------------------------------
(* Callers link only items that are not linked: list.h does not check it. *)
Append_(l, x) ==
  /\ ~link_connected(m, x)
  /\ m' = list_append(m, l, x)
  /\ result' = NULL

Prepend_(l, x) ==
  /\ ~link_connected(m, x)
  /\ m' = list_prepend(m, l, x)
  /\ result' = NULL

Remove_(x) ==
  /\ m' = list_remove(m, x)
  /\ result' = NULL

Pop_(l) ==
  \/ list_empty(m, l) /\ result' = NULL /\ UNCHANGED m
  \/ ~list_empty(m, l) /\ result' = m.next[l] /\ m' = list_pop(m, l)

list_rotate(l) ==
  \/ list_empty(m, l) /\ result' = NULL /\ UNCHANGED m
  \/ /\ ~list_empty(m, l)
     /\ result' = m.next[l]
     /\ m' = list_append(list_pop(m, l), l, m.next[l])

Next ==
  \/ \E l \in List, x \in Link : Append_(l, x) \/ Prepend_(l, x)
  \/ \E x \in Link : Remove_(x)
  \/ \E l \in List : Pop_(l) \/ list_rotate(l)

Spec == Init /\ [][Next]_vars

-----------------------------------------------------------------------------
TypeOK ==
  /\ m \in [next : [Node -> Node \cup {NULL}], prev : [Node -> Node \cup {NULL}]]
  /\ result \in Link \cup {NULL}

(* The list whose ring p is in, when o gives it for the items. *)
Owner(o, p) == IF p \in List THEN p ELSE o[p]

Owns(h, o) == \A p \in Node : h.next[p] # NULL => Owner(o, h.next[p]) = Owner(o, p)

(***************************************************************************)
(* The pointers always form rings: next and prev are inverse on everything *)
(* that is linked, a list head always is, an item is linked in both        *)
(* directions or in none, and no ring passes two heads.  So an item can be *)
(* taken out in constant time without knowing its list, and a second       *)
(* list_remove does no harm.                                               *)
(***************************************************************************)
Rings(h) ==
  /\ \A l \in List : h.next[l] # NULL
  /\ \A p \in Node : h.next[p] # NULL => h.prev[h.next[p]] = p
  /\ \A p \in Node : h.prev[p] # NULL => h.next[h.prev[p]] = p
  /\ \A p \in Node : h.next[p] = NULL <=> h.prev[p] = NULL

RingsIntact == Rings(m) /\ \E o \in [Link -> List \cup {NULL}] : Owns(m, o)

(***************************************************************************)
(* Refinement: the items that list_foreach visits, at most as many as      *)
(* there are items.  Walking the pointers sees exactly the sequence that   *)
(* the operations built (kernel/adt/list.h against the module Lists).      *)
(***************************************************************************)
list_foreach(l) ==
  LET items[n \in 0 .. Cardinality(Link)] ==
        [p \in Node \cup {NULL} |->
           IF n = 0 \/ p \notin Link THEN << >> ELSE <<p>> \o items[n - 1][m.next[p]]]
  IN  items[Cardinality(Link)][m.next[l]]

Abstract == INSTANCE Lists WITH contents <- [l \in List |-> list_foreach(l)]

ListsSpec == Abstract!Spec
=============================================================================
