-------------------------- MODULE LinkedListProofs --------------------------
(***************************************************************************)
(* Proof that the pointers of kernel/adt/list.h always form rings, for any *)
(* number of lists and items, and that they implement the sequences of the *)
(* module Lists.  The operations are shown to keep the shape of any        *)
(* memory, so that list_rotate, which is two of them, follows.             *)
(***************************************************************************)
EXTENDS LinkedList, TLAPS, FiniteSetTheorems, WellFoundedInduction, NaturalsInduction

Memory == [next : [Node -> Node \cup {NULL}], prev : [Node -> Node \cup {NULL}]]

(* The pointer assignments of list_append, as two function updates: with   *)
(* last the previous last node, next of the item and of last change, and   *)
(* prev of the item and of the head.                                       *)
LEMMA AppendPointers ==
  ASSUME NEW h \in Memory, NEW l \in List, NEW x \in Link, h.prev[l] # NULL, h.prev[l] # x
  PROVE  list_append(h, l, x) =
           [next |-> [[h.next EXCEPT ![x] = l] EXCEPT ![h.prev[l]] = x],
            prev |-> [[h.prev EXCEPT ![x] = h.prev[l]] EXCEPT ![l] = x]]
<1>1. l \in Node /\ x \in Node /\ l # x
  BY LinkAssumption DEF Node
<1> QED
  BY <1>1 DEF list_append, SetNext, SetPrev, Memory

(* list_append keeps the rings when the item is not linked. *)
LEMMA AppendKeepsRings ==
  ASSUME NEW h \in Memory, Rings(h), NEW l \in List, NEW x \in Link, h.next[x] = NULL
  PROVE  list_append(h, l, x) \in Memory /\ Rings(list_append(h, l, x))
<1> DEFINE last == h.prev[l]
           n == [[h.next EXCEPT ![x] = l] EXCEPT ![last] = x]
           q == [[h.prev EXCEPT ![x] = last] EXCEPT ![l] = x]
<1>1. /\ l \in Node /\ x \in Node /\ l # x /\ l # NULL /\ x # NULL
      /\ last \in Node /\ last # x
  BY LinkAssumption DEF Rings, Memory, Node
<1>2. list_append(h, l, x) = [next |-> n, prev |-> q]
  BY <1>1, AppendPointers, LinkAssumption DEF Node
<1>3. /\ h.next \in [Node -> Node \cup {NULL}] /\ h.prev \in [Node -> Node \cup {NULL}]
      /\ NULL \notin Node
  BY LinkAssumption DEF Memory, Node
<1>4. n \in [Node -> Node \cup {NULL}] /\ q \in [Node -> Node \cup {NULL}]
  BY <1>1, <1>3
<1>5. \A p \in Node : n[p] = IF p = last THEN x ELSE IF p = x THEN l ELSE h.next[p]
  BY <1>1, <1>3
<1>6. \A p \in Node : q[p] = IF p = l THEN x ELSE IF p = x THEN last ELSE h.prev[p]
  BY <1>1, <1>3
<1>7. h.next[last] = l /\ h.prev[l] = last
  BY <1>1, <1>3 DEF Rings
<1> HIDE DEF n, q, last
<1>8. \A k \in List : n[k] # NULL
  BY <1>1, <1>3, <1>5 DEF Rings, Node
<1>9. \A p \in Node : n[p] # NULL => q[n[p]] = p
  BY <1>1, <1>3, <1>5, <1>6, <1>7 DEF Rings
<1>10. \A p \in Node : q[p] # NULL => n[q[p]] = p
  BY <1>1, <1>3, <1>5, <1>6, <1>7 DEF Rings
<1>11. \A p \in Node : n[p] = NULL <=> q[p] = NULL
  BY <1>1, <1>3, <1>5, <1>6, <1>7 DEF Rings
<1> QED
  BY <1>2, <1>4, <1>8, <1>9, <1>10, <1>11 DEF Rings, Memory
(* The same for list_prepend, with the first node in the place of last. *)
LEMMA PrependPointers ==
  ASSUME NEW h \in Memory, NEW l \in List, NEW x \in Link
  PROVE  list_prepend(h, l, x) =
           [next |-> [[h.next EXCEPT ![x] = h.next[l]] EXCEPT ![l] = x],
            prev |-> [[h.prev EXCEPT ![x] = l] EXCEPT ![h.next[l]] = x]]
<1>1. l \in Node /\ x \in Node /\ l # x
  BY LinkAssumption DEF Node
<1> QED
  BY <1>1 DEF list_prepend, SetNext, SetPrev, Memory

(* list_prepend keeps the rings when the item is not linked. *)
LEMMA PrependKeepsRings ==
  ASSUME NEW h \in Memory, Rings(h), NEW l \in List, NEW x \in Link, h.next[x] = NULL
  PROVE  list_prepend(h, l, x) \in Memory /\ Rings(list_prepend(h, l, x))
<1> DEFINE first == h.next[l]
           n == [[h.next EXCEPT ![x] = first] EXCEPT ![l] = x]
           q == [[h.prev EXCEPT ![x] = l] EXCEPT ![first] = x]
<1>1. /\ l \in Node /\ x \in Node /\ l # x /\ l # NULL /\ x # NULL
      /\ first \in Node /\ first # x
  BY LinkAssumption DEF Rings, Memory, Node
<1>2. list_prepend(h, l, x) = [next |-> n, prev |-> q]
  BY PrependPointers
<1>3. /\ h.next \in [Node -> Node \cup {NULL}] /\ h.prev \in [Node -> Node \cup {NULL}]
      /\ NULL \notin Node
  BY LinkAssumption DEF Memory, Node
<1>4. n \in [Node -> Node \cup {NULL}] /\ q \in [Node -> Node \cup {NULL}]
  BY <1>1, <1>3
<1>5. \A p \in Node : n[p] = IF p = l THEN x ELSE IF p = x THEN first ELSE h.next[p]
  BY <1>1, <1>3
<1>6. \A p \in Node : q[p] = IF p = first THEN x ELSE IF p = x THEN l ELSE h.prev[p]
  BY <1>1, <1>3
<1>7. h.next[l] = first /\ h.prev[first] = l
  BY <1>1, <1>3 DEF Rings
<1> HIDE DEF n, q, first
<1>8. \A k \in List : n[k] # NULL
  BY <1>1, <1>3, <1>5 DEF Rings, Node
<1>9. \A p \in Node : n[p] # NULL => q[n[p]] = p
  BY <1>1, <1>3, <1>5, <1>6, <1>7 DEF Rings
<1>10. \A p \in Node : q[p] # NULL => n[q[p]] = p
  BY <1>1, <1>3, <1>5, <1>6, <1>7 DEF Rings
<1>11. \A p \in Node : n[p] = NULL <=> q[p] = NULL
  BY <1>1, <1>3, <1>5, <1>6, <1>7 DEF Rings
<1> QED
  BY <1>2, <1>4, <1>8, <1>9, <1>10, <1>11 DEF Rings, Memory

(* What list_remove leaves of the pointers of a linked item's neighbours. *)
LEMMA RemovePointers ==
  ASSUME NEW h \in Memory, Rings(h), NEW x \in Link, h.next[x] # NULL
  PROVE  list_remove(h, x) =
           [next |-> [[h.next EXCEPT ![h.prev[x]] = h.next[x]] EXCEPT ![x] = NULL],
            prev |-> [[h.prev EXCEPT ![h.next[x]] = h.prev[x]] EXCEPT ![x] = NULL]]
<1>1. x \in Node /\ link_connected(h, x)
  BY DEF Node, Rings, link_connected
<1>2. Unlink(h, x) = [next |-> [h.next EXCEPT ![h.prev[x]] = h.next[x]],
                      prev |-> [h.prev EXCEPT ![h.next[x]] = h.prev[x]]]
  BY <1>1 DEF Unlink, SetNext, SetPrev, Memory, Rings
<1> QED
  BY <1>1, <1>2 DEF list_remove, link_init, SetNext, SetPrev

(* list_remove keeps the rings, for a linked item and for any other. *)
LEMMA RemoveKeepsRings ==
  ASSUME NEW h \in Memory, Rings(h), NEW x \in Link
  PROVE  /\ list_remove(h, x) \in Memory
         /\ Rings(list_remove(h, x))
         /\ list_remove(h, x).next[x] = NULL
<1>1. CASE h.next[x] = NULL
  <2>1. x \in Node /\ h.prev[x] = NULL
    BY <1>1 DEF Node, Rings
  <2>2. list_remove(h, x) = link_init(h, x)
    BY <1>1 DEF list_remove, link_connected
  <2>3. link_init(h, x) = h
    BY <1>1, <2>1 DEF link_init, SetNext, SetPrev, Memory
  <2> QED
    BY <1>1, <2>2, <2>3
<1>2. CASE h.next[x] # NULL
  <2> DEFINE before == h.prev[x]
             after  == h.next[x]
             n == [[h.next EXCEPT ![before] = after] EXCEPT ![x] = NULL]
             q == [[h.prev EXCEPT ![after] = before] EXCEPT ![x] = NULL]
  <2>1. /\ h.next \in [Node -> Node \cup {NULL}] /\ h.prev \in [Node -> Node \cup {NULL}]
        /\ NULL \notin Node /\ x \in Node /\ x \notin List
    BY LinkAssumption DEF Memory, Node
  <2>2. before \in Node /\ after \in Node /\ h.next[before] = x /\ h.prev[after] = x
    BY <1>2, <2>1 DEF Rings
  <2>3. before = x <=> after = x
    BY <2>1, <2>2
  <2>4. list_remove(h, x) = [next |-> n, prev |-> q]
    BY <1>2, RemovePointers
  <2>5. n \in [Node -> Node \cup {NULL}] /\ q \in [Node -> Node \cup {NULL}]
    BY <2>1, <2>2
  <2>6. \A p \in Node : n[p] = IF p = x THEN NULL ELSE IF p = before THEN after ELSE h.next[p]
    BY <2>1, <2>2
  <2>7. \A p \in Node : q[p] = IF p = x THEN NULL ELSE IF p = after THEN before ELSE h.prev[p]
    BY <2>1, <2>2
  <2>8. h.next[x] = after /\ h.prev[x] = before
    OBVIOUS
  <2> HIDE DEF n, q, before, after
  <2>9. \A k \in List : n[k] # NULL
    BY <2>1, <2>2, <2>6 DEF Rings, Node
  <2>10. \A p \in Node : n[p] # NULL => q[n[p]] = p
    BY <2>1, <2>2, <2>3, <2>6, <2>7, <2>8 DEF Rings
  <2>11. \A p \in Node : q[p] # NULL => n[q[p]] = p
    BY <2>1, <2>2, <2>3, <2>6, <2>7, <2>8 DEF Rings
  <2>12. \A p \in Node : n[p] = NULL <=> q[p] = NULL
    BY <2>1, <2>2, <2>3, <2>6, <2>7, <2>8 DEF Rings
  <2> QED
    BY <2>1, <2>4, <2>5, <2>6, <2>9, <2>10, <2>11, <2>12 DEF Rings, Memory
<1> QED
  BY <1>1, <1>2

(* A list keeps its items when one is added: it owns the new one as well. *)
LEMMA AppendOwns ==
  ASSUME NEW h \in Memory, Rings(h), NEW l \in List, NEW x \in Link, h.next[x] = NULL,
         NEW o \in [Link -> List \cup {NULL}], Owns(h, o)
  PROVE  /\ [o EXCEPT ![x] = l] \in [Link -> List \cup {NULL}]
         /\ Owns(list_append(h, l, x), [o EXCEPT ![x] = l])
         /\ Owns(list_prepend(h, l, x), [o EXCEPT ![x] = l])
<1> DEFINE o1 == [o EXCEPT ![x] = l]
           last == h.prev[l]
           first == h.next[l]
<1>1. /\ l \in Node /\ x \in Node /\ x \notin List /\ l # NULL /\ NULL \notin Node
      /\ last \in Node /\ last # x /\ first \in Node /\ first # x
      /\ h.next[last] = l
  BY LinkAssumption DEF Rings, Memory, Node
<1>2. \A p \in Node : Owner(o1, p) = IF p = x THEN l ELSE Owner(o, p)
  BY <1>1 DEF Owner, Node
<1>3. \A p \in Node : h.next[p] # x /\ h.next[p] \in Node \cup {NULL}
  BY <1>1 DEF Rings, Memory
<1>4. Owner(o, l) = l /\ Owner(o, last) = l /\ Owner(o, first) = l
  BY <1>1 DEF Owns, Owner
<1>5. \A p \in Node : list_append(h, l, x).next[p] =
                       IF p = last THEN x ELSE IF p = x THEN l ELSE h.next[p]
  BY <1>1, AppendPointers DEF Memory
<1>6. \A p \in Node : list_prepend(h, l, x).next[p] =
                       IF p = l THEN x ELSE IF p = x THEN first ELSE h.next[p]
  BY <1>1, PrependPointers DEF Memory
<1> HIDE DEF o1, last, first
<1>7. Owns(list_append(h, l, x), o1)
  BY <1>1, <1>2, <1>3, <1>4, <1>5 DEF Owns
<1>8. Owns(list_prepend(h, l, x), o1)
  BY <1>1, <1>2, <1>3, <1>4, <1>6 DEF Owns
<1> QED
  BY <1>7, <1>8 DEF o1

(* Taking an item out changes nobody's owner. *)
LEMMA RemoveOwns ==
  ASSUME NEW h \in Memory, Rings(h), NEW x \in Link,
         NEW o \in [Link -> List \cup {NULL}], Owns(h, o)
  PROVE  Owns(list_remove(h, x), o)
<1>1. CASE h.next[x] = NULL
  <2>1. x \in Node /\ h.prev[x] = NULL
    BY <1>1 DEF Node, Rings
  <2>2. list_remove(h, x) = h
    BY <1>1, <2>1 DEF list_remove, link_connected, link_init, SetNext, SetPrev, Memory
  <2> QED
    BY <2>2
<1>2. CASE h.next[x] # NULL
  <2> DEFINE before == h.prev[x]
             after  == h.next[x]
  <2>1. /\ x \in Node /\ NULL \notin Node
        /\ before \in Node /\ after \in Node /\ h.next[before] = x
    BY <1>2, LinkAssumption DEF Rings, Memory, Node
  <2>2. \A p \in Node : list_remove(h, x).next[p] =
                         IF p = x THEN NULL ELSE IF p = before THEN after ELSE h.next[p]
    BY <1>2, <2>1, RemovePointers DEF Memory
  <2>3. Owner(o, before) = Owner(o, x) /\ Owner(o, x) = Owner(o, after)
    BY <1>2, <2>1 DEF Owns
  <2> HIDE DEF before, after
  <2> QED
    BY <2>1, <2>2, <2>3 DEF Owns
<1> QED
  BY <1>1, <1>2

(* The first node of a list that is not empty is an item, not a head. *)
LEMMA FirstIsItem ==
  ASSUME NEW h \in Memory, Rings(h), NEW l \in List, ~list_empty(h, l),
         NEW o \in [Link -> List \cup {NULL}], Owns(h, o)
  PROVE  h.next[l] \in Link
<1>1. h.next[l] \in Node /\ l \in Node /\ h.next[l] # NULL
  BY DEF Rings, Memory, Node
<1>2. Owner(o, h.next[l]) = l
  BY <1>1 DEF Owns, Owner
<1> QED
  BY <1>1, <1>2 DEF Owner, list_empty, Node

(* Every operation of kernel/adt/list.h leaves the memory typed and every *)
(* list a ring of its own.                                                *)
LEMMA StepKeepsRings ==
  ASSUME TypeOK, RingsIntact, Next
  PROVE  TypeOK' /\ RingsIntact'
<1>1. PICK o \in [Link -> List \cup {NULL}] : Owns(m, o)
  BY DEF RingsIntact
<1>2. m \in Memory /\ Rings(m) /\ result \in Link \cup {NULL}
  BY DEF TypeOK, RingsIntact, Memory
<1>3. ASSUME NEW l \in List, NEW x \in Link, Append_(l, x)
      PROVE  TypeOK' /\ RingsIntact'
  <2>1. m.next[x] = NULL
    BY <1>2, <1>3 DEF Append_, link_connected, Rings, Node
  <2>2. m' \in Memory /\ Rings(m')
    BY <1>2, <1>3, <2>1, AppendKeepsRings DEF Append_
  <2>3. \E w \in [Link -> List \cup {NULL}] : Owns(m', w)
    BY <1>1, <1>2, <1>3, <2>1, AppendOwns DEF Append_
  <2> QED
    BY <1>3, <2>2, <2>3 DEF Append_, TypeOK, RingsIntact, Memory
<1>4. ASSUME NEW l \in List, NEW x \in Link, Prepend_(l, x)
      PROVE  TypeOK' /\ RingsIntact'
  <2>1. m.next[x] = NULL
    BY <1>2, <1>4 DEF Prepend_, link_connected, Rings, Node
  <2>2. m' \in Memory /\ Rings(m')
    BY <1>2, <1>4, <2>1, PrependKeepsRings DEF Prepend_
  <2>3. \E w \in [Link -> List \cup {NULL}] : Owns(m', w)
    BY <1>1, <1>2, <1>4, <2>1, AppendOwns DEF Prepend_
  <2> QED
    BY <1>4, <2>2, <2>3 DEF Prepend_, TypeOK, RingsIntact, Memory
<1>5. ASSUME NEW x \in Link, Remove_(x)
      PROVE  TypeOK' /\ RingsIntact'
  <2>1. m' \in Memory /\ Rings(m')
    BY <1>2, <1>5, RemoveKeepsRings DEF Remove_
  <2>2. Owns(m', o)
    BY <1>1, <1>2, <1>5, RemoveOwns DEF Remove_
  <2> QED
    BY <1>5, <2>1, <2>2 DEF Remove_, TypeOK, RingsIntact, Memory
<1>6. ASSUME NEW l \in List, Pop_(l)
      PROVE  TypeOK' /\ RingsIntact'
  <2>1. CASE list_empty(m, l)
    BY <1>6, <2>1 DEF Pop_, TypeOK, RingsIntact
  <2>2. CASE ~list_empty(m, l)
    <3>1. m.next[l] \in Link
      BY <1>1, <1>2, <2>2, FirstIsItem
    <3>2. m' = list_remove(m, m.next[l]) /\ result' = m.next[l]
      BY <1>6, <2>2 DEF Pop_, list_pop
    <3>3. m' \in Memory /\ Rings(m')
      BY <1>2, <3>1, <3>2, RemoveKeepsRings
    <3>4. Owns(m', o)
      BY <1>1, <1>2, <3>1, <3>2, RemoveOwns
    <3> QED
      BY <3>1, <3>2, <3>3, <3>4 DEF TypeOK, RingsIntact, Memory
  <2> QED
    BY <2>1, <2>2
<1>7. ASSUME NEW l \in List, list_rotate(l)
      PROVE  TypeOK' /\ RingsIntact'
  <2>1. CASE list_empty(m, l)
    BY <1>7, <2>1 DEF list_rotate, TypeOK, RingsIntact
  <2>2. CASE ~list_empty(m, l)
    <3> DEFINE x == m.next[l]
               h == list_remove(m, x)
    <3>1. x \in Link
      BY <1>1, <1>2, <2>2, FirstIsItem
    <3>2. m' = list_append(h, l, x) /\ result' = x
      BY <1>7, <2>2 DEF list_rotate, list_pop
    <3>3. h \in Memory /\ Rings(h) /\ h.next[x] = NULL
      BY <1>2, <3>1, RemoveKeepsRings
    <3>4. Owns(h, o)
      BY <1>1, <1>2, <3>1, RemoveOwns
    <3> HIDE DEF x, h
    <3>5. m' \in Memory /\ Rings(m')
      BY <3>1, <3>2, <3>3, AppendKeepsRings
    <3>6. \E w \in [Link -> List \cup {NULL}] : Owns(m', w)
      BY <1>1, <3>1, <3>2, <3>3, <3>4, AppendOwns
    <3> QED
      BY <3>1, <3>2, <3>5, <3>6 DEF TypeOK, RingsIntact, Memory
  <2> QED
    BY <2>1, <2>2
<1> QED
  BY <1>3, <1>4, <1>5, <1>6, <1>7 DEF Next

(* The lists of kernel/adt/list.h are always rings, next and prev inverse, *)
(* one list to a ring, whatever calls are made on them in whatever order.  *)
THEOREM ListsCorrect == Spec => [](TypeOK /\ RingsIntact)
<1>1. Init => TypeOK /\ RingsIntact
  <2> SUFFICES ASSUME Init PROVE TypeOK /\ RingsIntact
    OBVIOUS
  <2>1. /\ m = [next |-> list_init, prev |-> list_init] /\ result = NULL
        /\ list_init \in [Node -> Node \cup {NULL}]
        /\ \A p \in Node : list_init[p] = IF p \in List THEN p ELSE NULL
    BY DEF Init, list_init, Node
  <2>2. TypeOK /\ Rings(m)
    BY <2>1, LinkAssumption DEF TypeOK, Rings, Node
  <2>3. Owns(m, [x \in Link |-> NULL])
    BY <2>1, LinkAssumption DEF Owns, Owner, Node
  <2> QED
    BY <2>2, <2>3 DEF RingsIntact
<1>2. TypeOK /\ RingsIntact /\ [Next]_vars => TypeOK' /\ RingsIntact'
  <2>1. TypeOK /\ RingsIntact /\ UNCHANGED vars => TypeOK' /\ RingsIntact'
    BY DEF TypeOK, RingsIntact, vars
  <2> QED
    BY <2>1, StepKeepsRings
<1> QED
  BY <1>1, <1>2, PTL DEF Spec

-----------------------------------------------------------------------------
(***************************************************************************)
(* The sequences c that the pointers stand for.  In front of the items of  *)
(* a list is its head, behind the last item as well.                       *)
(***************************************************************************)
Place(s, l, i) == IF i = 0 THEN l ELSE s[i]

After(s, l, i) == IF i < Len(s) THEN s[i + 1] ELSE l

Trace(h, c) ==
  /\ c \in [List -> Seq(Link)]
  /\ \A l \in List : \A i \in 0 .. Len(c[l]) : h.next[Place(c[l], l, i)] = After(c[l], l, i)
  /\ \A k, l \in List : \A i \in 1 .. Len(c[k]), j \in 1 .. Len(c[l]) :
       c[k][i] = c[l][j] => k = l /\ i = j
  /\ \A x \in Link : h.next[x] # NULL => \E l \in List : \E i \in 1 .. Len(c[l]) : c[l][i] = x

(* The places of all lists are different nodes. *)
LEMMA PlacesDiffer ==
  ASSUME NEW h, NEW c, Trace(h, c), NEW k \in List, NEW l \in List,
         NEW i \in 0 .. Len(c[k]), NEW j \in 0 .. Len(c[l]),
         Place(c[k], k, i) = Place(c[l], l, j)
  PROVE  k = l /\ i = j
<1>1. c[k] \in Seq(Link) /\ c[l] \in Seq(Link)
  BY DEF Trace
<1>2. i # 0 => i \in 1 .. Len(c[k]) /\ c[k][i] \in Link
  BY <1>1
<1>3. j # 0 => j \in 1 .. Len(c[l]) /\ c[l][j] \in Link
  BY <1>1
<1>4. CASE i = 0 \/ j = 0
  BY <1>2, <1>3, <1>4, LinkAssumption DEF Place
<1>5. CASE i # 0 /\ j # 0
  BY <1>2, <1>3, <1>5 DEF Place, Trace
<1> QED BY <1>4, <1>5

(* What is at and behind a place. *)
LEMMA PlaceFacts ==
  ASSUME NEW h, NEW c, Trace(h, c), NEW l \in List, NEW i \in 0 .. Len(c[l])
  PROVE  /\ c[l] \in Seq(Link) /\ Len(c[l]) \in Nat
         /\ Place(c[l], l, i) \in Node /\ After(c[l], l, i) \in Node
         /\ h.next[Place(c[l], l, i)] = After(c[l], l, i)
         /\ After(c[l], l, i) # NULL /\ Place(c[l], l, i) # NULL
         /\ (Place(c[l], l, i) \in Link => i \in 1 .. Len(c[l]) /\ c[l][i] = Place(c[l], l, i))
<1>1. c[l] \in Seq(Link) /\ Len(c[l]) \in Nat
  BY DEF Trace
<1>2. i # 0 => i \in 1 .. Len(c[l]) /\ c[l][i] \in Link
  BY <1>1
<1>3. i < Len(c[l]) => i + 1 \in 1 .. Len(c[l]) /\ c[l][i + 1] \in Link
  BY <1>1
<1>4. Place(c[l], l, i) \in Node /\ After(c[l], l, i) \in Node
  BY <1>2, <1>3 DEF Place, After, Node
<1>5. h.next[Place(c[l], l, i)] = After(c[l], l, i)
  BY DEF Trace
<1>6. Place(c[l], l, i) \in Link => i \in 1 .. Len(c[l]) /\ c[l][i] = Place(c[l], l, i)
  BY <1>2, LinkAssumption DEF Place
<1> QED BY <1>1, <1>4, <1>5, <1>6, LinkAssumption DEF Node

(* An item that is not linked is at no place. *)
LEMMA NotPlaced ==
  ASSUME NEW h, NEW c, Trace(h, c), NEW x \in Link, h.next[x] = NULL,
         NEW l \in List, NEW i \in 0 .. Len(c[l])
  PROVE  Place(c[l], l, i) # x
BY PlaceFacts

(* The node before a place is what prev points at. *)
LEMMA PrevOfPlace ==
  ASSUME NEW h \in Memory, Rings(h), NEW c, Trace(h, c), NEW l \in List, NEW i \in 0 .. Len(c[l])
  PROVE  h.prev[After(c[l], l, i)] = Place(c[l], l, i)
BY PlaceFacts DEF Rings

-----------------------------------------------------------------------------
(***************************************************************************)
(* list_foreach.  Its loop is a recursive function of the number of items  *)
(* still to be visited and of a node; any function that obeys the same     *)
(* equation is equal to it.                                                *)
(***************************************************************************)
Limit == Cardinality(Link)

Loop(h, f, n, p) == IF n = 0 \/ p \notin Link THEN << >> ELSE <<p>> \o f[n - 1][h.next[p]]

Loops(h, f) == f = [n \in 0 .. Limit |-> [p \in Node \cup {NULL} |-> Loop(h, f, n, p)]]

(* The loop of list_foreach is a solution of the equation, if there is one. *)
LEMMA ForeachLoops ==
  ASSUME NEW l \in List
  PROVE  list_foreach(l) = (CHOOSE f : Loops(m, f))[Limit][m.next[l]]
BY DEF list_foreach, Loops, Loop, Limit

(* A nonempty set of naturals has a least element. *)
LEMMA NatMin ==
  ASSUME NEW T, T \subseteq Nat, T # {}
  PROVE  \E i \in T : \A j \in T : i <= j
<1>1. PICK i \in T : \A j \in T : ~(<<j, i>> \in OpToRel(<, Nat))
  BY WFMin, NatLessThanWellFounded
<1>2. \A j \in T : ~(j < i)
  BY <1>1 DEF OpToRel
<1> QED BY <1>2

(* The number of items is a natural number. *)
LEMMA LimitNat == Limit \in Nat
BY FiniteAssumption, FS_CardinalityType DEF Limit

(* The equation at a node and a count. *)
LEMMA LoopsAt ==
  ASSUME NEW h, NEW f, Loops(h, f), NEW n \in 0 .. Limit, NEW p \in Node \cup {NULL}
  PROVE  f[n][p] = Loop(h, f, n, p)
<1> DEFINE g == [k \in 0 .. Limit |-> [q \in Node \cup {NULL} |-> Loop(h, f, k, q)]]
<1>1. g[n][p] = Loop(h, f, n, p)
  OBVIOUS
<1>2. f = g
  BY DEF Loops
<1> HIDE DEF g
<1> QED BY <1>1, <1>2

(* The equation has one solution: at the least count at which two differ   *)
(* they would agree on the rest of the walk.                               *)
LEMMA LoopsUnique ==
  ASSUME NEW h \in Memory, NEW f, NEW g, Loops(h, f), Loops(h, g),
         NEW n \in 0 .. Limit, NEW p \in Node \cup {NULL}
  PROVE  f[n][p] = g[n][p]
<1> DEFINE T == {k \in 0 .. Limit : \E q \in Node \cup {NULL} : f[k][q] # g[k][q]}
<1>1. SUFFICES T = {}
  OBVIOUS
<1>2. SUFFICES ASSUME T # {} PROVE FALSE
  OBVIOUS
<1>3. T \subseteq Nat
  BY LimitNat
<1>4. PICK k \in T : \A j \in T : k <= j
  BY <1>2, <1>3, NatMin
<1>5. PICK q \in Node \cup {NULL} : f[k][q] # g[k][q]
  BY <1>4
<1>6. k \in 0 .. Limit /\ k \in Nat
  BY <1>3, <1>4
<1>7. k # 0 /\ q \in Link
  <2>1. f[k][q] = Loop(h, f, k, q) /\ g[k][q] = Loop(h, g, k, q)
    BY <1>6, LoopsAt
  <2> QED BY <1>5, <2>1 DEF Loop
<1>8. k - 1 \in 0 .. Limit /\ k - 1 \notin T
  BY <1>4, <1>6, <1>7, LimitNat
<1>9. h.next[q] \in Node \cup {NULL}
  BY <1>7 DEF Memory, Node
<1>10. f[k - 1][h.next[q]] = g[k - 1][h.next[q]]
  BY <1>8, <1>9
<1>11. f[k][q] = <<q>> \o f[k - 1][h.next[q]] /\ g[k][q] = <<q>> \o g[k - 1][h.next[q]]
  <2>1. f[k][q] = Loop(h, f, k, q) /\ g[k][q] = Loop(h, g, k, q)
    BY <1>6, LoopsAt
  <2> QED BY <1>7, <2>1 DEF Loop
<1> QED BY <1>5, <1>10, <1>11

(* At most n items of s, from the i-th on. *)
Count(s, i, n) == IF n < Len(s) - i + 1 THEN n ELSE Len(s) - i + 1

Part(s, i, n) == [k \in 1 .. Count(s, i, n) |-> s[i + k - 1]]

(* A part of a sequence is a sequence, and what it holds. *)
LEMMA PartSeq ==
  ASSUME NEW S, NEW s \in Seq(S), NEW i \in 1 .. Len(s), NEW n \in Nat
  PROVE  /\ Count(s, i, n) \in Nat /\ Part(s, i, n) \in Seq(S)
         /\ Len(Part(s, i, n)) = Count(s, i, n)
         /\ \A k \in 1 .. Count(s, i, n) : Part(s, i, n)[k] = s[i + k - 1]
<1>1. Count(s, i, n) \in Nat /\ Count(s, i, n) <= Len(s) - i + 1
  BY DEF Count
<1>2. \A k \in 1 .. Count(s, i, n) : i + k - 1 \in 1 .. Len(s) /\ s[i + k - 1] \in S
  BY <1>1
<1> QED BY <1>1, <1>2 DEF Part

(* Two sequences that agree everywhere are equal. *)
LEMMA SeqEqual ==
  ASSUME NEW S, NEW s \in Seq(S), NEW t \in Seq(S), Len(s) = Len(t),
         \A k \in 1 .. Len(s) : s[k] = t[k]
  PROVE  s = t
OBVIOUS

(* A part is its first item and the part behind it. *)
LEMMA PartStep ==
  ASSUME NEW S, NEW s \in Seq(S), NEW i \in 1 .. Len(s), NEW n \in Nat \ {0}
  PROVE  /\ i = Len(s) => Part(s, i, n) = <<s[i]>>
         /\ i < Len(s) => Part(s, i, n) = <<s[i]>> \o Part(s, i + 1, n - 1)
         /\ i < Len(s) => Part(s, i + 1, 0) = << >>
         /\ i = 1 /\ Len(s) <= n => Part(s, i, n) = s
<1> DEFINE u == Part(s, i, n)
           d == Count(s, i, n)
           v == Part(s, i + 1, n - 1)
           e == Count(s, i + 1, n - 1)
<1>1. d \in Nat /\ u \in Seq(S) /\ Len(u) = d /\ \A k \in 1 .. d : u[k] = s[i + k - 1]
  BY PartSeq
<1>2. s[i] \in S
  OBVIOUS
<1> HIDE DEF u, v
<1>3. ASSUME i = Len(s) PROVE u = <<s[i]>>
  <2>1. d = 1
    BY <1>3 DEF Count
  <2> HIDE DEF d
  <2> QED BY <1>1, <1>2, <2>1, SeqEqual
<1>4. ASSUME i < Len(s) PROVE u = <<s[i]>> \o v
  <2>1. i + 1 \in 1 .. Len(s) /\ n - 1 \in Nat
    BY <1>4
  <2>2. e \in Nat /\ v \in Seq(S) /\ Len(v) = e /\ \A k \in 1 .. e : v[k] = s[(i + 1) + k - 1]
    BY <2>1, PartSeq DEF v
  <2>3. d = e + 1
    BY <1>4 DEF Count
  <2> HIDE DEF d, e
  <2> DEFINE w == <<s[i]>> \o v
  <2>4. w \in Seq(S) /\ Len(w) = e + 1 /\ w[1] = s[i] /\ \A k \in 2 .. e + 1 : w[k] = v[k - 1]
    BY <1>2, <2>2
  <2> HIDE DEF w
  <2>5. \A k \in 2 .. e + 1 : k - 1 \in 1 .. e /\ (i + 1) + (k - 1) - 1 = i + k - 1
    BY <2>2
  <2>6. \A k \in 2 .. e + 1 : w[k] = s[i + k - 1]
    BY <2>2, <2>4, <2>5
  <2>7. u[1] = s[i]
    BY <1>1, <2>2, <2>3
  <2>8. \A k \in 1 .. Len(u) : u[k] = w[k]
    <3>1. \A k \in 1 .. d : k = 1 \/ k \in 2 .. e + 1
      BY <2>2, <2>3
    <3>2. \A k \in 2 .. e + 1 : u[k] = w[k]
      <4>1. \A k \in 2 .. e + 1 : k \in 1 .. d
        BY <2>2, <2>3
      <4> QED BY <1>1, <2>6, <4>1
    <3> QED BY <1>1, <2>4, <2>7, <3>1, <3>2
  <2>9. u = w
    BY <1>1, <2>3, <2>4, <2>8, SeqEqual
  <2> QED BY <2>9 DEF w
<1>5. ASSUME i < Len(s) PROVE Part(s, i + 1, 0) = << >>
  <2>1. i + 1 \in 1 .. Len(s) /\ Count(s, i + 1, 0) = 0
    BY <1>5 DEF Count
  <2>2. Part(s, i + 1, 0) \in Seq(S) /\ Len(Part(s, i + 1, 0)) = 0
    BY <2>1, PartSeq
  <2> QED BY <2>2
<1>6. ASSUME i = 1, Len(s) <= n PROVE u = s
  <2>1. d = Len(s)
    BY <1>6 DEF Count
  <2> HIDE DEF d
  <2>2. \A k \in 1 .. Len(s) : i + k - 1 = k
    BY <1>6
  <2> QED BY <1>1, <2>1, <2>2, SeqEqual
<1> QED BY <1>3, <1>4, <1>5, <1>6 DEF u, v

(***************************************************************************)
(* A solution of the equation of list_foreach: from the place of an item   *)
(* on, its list.                                                           *)
(***************************************************************************)
ListOf(c, p) == CHOOSE l \in List : \E i \in 1 .. Len(c[l]) : c[l][i] = p

PlaceOf(c, p) == CHOOSE i \in 1 .. Len(c[ListOf(c, p)]) : c[ListOf(c, p)][i] = p

Visit(h, c, n, p) ==
  IF n = 0 \/ p \notin Link THEN << >>
  ELSE IF h.next[p] = NULL THEN <<p>>
  ELSE Part(c[ListOf(c, p)], PlaceOf(c, p), n)

(* The place of an item is found from the item. *)
LEMMA PlaceUnique ==
  ASSUME NEW h, NEW c, Trace(h, c), NEW l \in List, NEW i \in 1 .. Len(c[l])
  PROVE  ListOf(c, c[l][i]) = l /\ PlaceOf(c, c[l][i]) = i
<1> DEFINE p == c[l][i]
<1>1. \A k \in List : \A j \in 1 .. Len(c[k]) : c[k][j] = p => k = l /\ j = i
  BY DEF Trace
<1> HIDE DEF p
<1>2. \E k \in List : \E j \in 1 .. Len(c[k]) : c[k][j] = p
  BY DEF p
<1>3. ListOf(c, p) \in List /\ \E j \in 1 .. Len(c[ListOf(c, p)]) : c[ListOf(c, p)][j] = p
  BY <1>2 DEF ListOf
<1>4. ListOf(c, p) = l
  BY <1>1, <1>3
<1>5. PlaceOf(c, p) \in 1 .. Len(c[l]) /\ c[l][PlaceOf(c, p)] = p
  BY <1>3, <1>4 DEF PlaceOf
<1>6. PlaceOf(c, p) = i
  BY <1>1, <1>5
<1> QED BY <1>4, <1>6 DEF p

(* What is visited from a place on. *)
LEMMA VisitPlace ==
  ASSUME NEW h, NEW c, Trace(h, c), NEW l \in List, NEW i \in 1 .. Len(c[l]), NEW n \in Nat \ {0}
  PROVE  /\ c[l] \in Seq(Link) /\ Len(c[l]) \in Nat /\ c[l][i] \in Link
         /\ h.next[c[l][i]] = After(c[l], l, i) /\ h.next[c[l][i]] # NULL
         /\ Visit(h, c, n, c[l][i]) = Part(c[l], i, n)
<1> DEFINE p == c[l][i]
<1>1. i \in 0 .. Len(c[l]) /\ i # 0
  BY DEF Trace
<1>2. Place(c[l], l, i) = p
  BY <1>1 DEF Place
<1>3. /\ c[l] \in Seq(Link) /\ Len(c[l]) \in Nat
      /\ h.next[p] = After(c[l], l, i) /\ After(c[l], l, i) # NULL
  BY <1>1, <1>2, PlaceFacts
<1>4. p \in Link
  BY <1>3
<1>5. ListOf(c, p) = l /\ PlaceOf(c, p) = i
  BY PlaceUnique
<1> HIDE DEF p
<1>6. Visit(h, c, n, p) = Part(c[l], i, n)
  BY <1>3, <1>4, <1>5 DEF Visit
<1> QED BY <1>3, <1>4, <1>6 DEF p

(* The solution visits an item and then what is behind it. *)
LEMMA VisitStep ==
  ASSUME NEW h \in Memory, NEW c, Trace(h, c), NEW n \in Nat \ {0}, NEW p \in Link
  PROVE  Visit(h, c, n, p) = <<p>> \o Visit(h, c, n - 1, h.next[p])
<1>1. CASE h.next[p] = NULL
  <2>1. Visit(h, c, n, p) = <<p>>
    BY <1>1 DEF Visit
  <2>2. Visit(h, c, n - 1, h.next[p]) = << >>
    BY <1>1, LinkAssumption DEF Visit
  <2>3. <<p>> \o << >> = <<p>>
    OBVIOUS
  <2> QED BY <2>1, <2>2, <2>3
<1>2. CASE h.next[p] # NULL
  <2>1. PICK l \in List : \E i \in 1 .. Len(c[l]) : c[l][i] = p
    BY <1>2 DEF Trace
  <2>2. PICK i \in 1 .. Len(c[l]) : c[l][i] = p
    BY <2>1
  <2> DEFINE s == c[l]
  <2>3. /\ s \in Seq(Link) /\ Len(s) \in Nat /\ s[i] = p /\ h.next[p] = After(s, l, i)
        /\ Visit(h, c, n, p) = Part(s, i, n)
    BY <2>2, VisitPlace
  <2>4. CASE i = Len(s)
    <3>1. h.next[p] = l
      BY <2>3, <2>4 DEF After
    <3>2. Visit(h, c, n - 1, h.next[p]) = << >>
      BY <3>1, LinkAssumption DEF Visit
    <3>3. Part(s, i, n) = <<p>>
      BY <2>3, <2>4, PartStep
    <3>4. <<p>> \o << >> = <<p>>
      OBVIOUS
    <3> QED BY <2>3, <3>2, <3>3, <3>4
  <2>5. CASE i < Len(s)
    <3>1. h.next[p] = s[i + 1] /\ i + 1 \in 1 .. Len(s) /\ s[i + 1] \in Link
      BY <2>3, <2>5 DEF After
    <3>2. Part(s, i, n) = <<p>> \o Part(s, i + 1, n - 1) /\ Part(s, i + 1, 0) = << >>
      BY <2>3, <2>5, PartStep
    <3>3. Visit(h, c, n - 1, s[i + 1]) = Part(s, i + 1, n - 1)
      <4>1. CASE n - 1 = 0
        BY <3>2, <4>1 DEF Visit
      <4>2. CASE n - 1 # 0
        <5>1. n - 1 \in Nat \ {0}
          BY <4>2
        <5> QED BY <3>1, <5>1, VisitPlace
      <4> QED BY <4>1, <4>2
    <3> QED BY <2>3, <3>1, <3>2, <3>3
  <2> QED BY <2>3, <2>4, <2>5
<1> QED BY <1>1, <1>2

(* So it solves the equation. *)
LEMMA VisitLoops ==
  ASSUME NEW h \in Memory, NEW c, Trace(h, c)
  PROVE  Loops(h, [n \in 0 .. Limit |-> [p \in Node \cup {NULL} |-> Visit(h, c, n, p)]])
<1> DEFINE f == [n \in 0 .. Limit |-> [p \in Node \cup {NULL} |-> Visit(h, c, n, p)]]
<1>1. ASSUME NEW n \in 0 .. Limit, NEW p \in Node \cup {NULL}
      PROVE  Visit(h, c, n, p) = Loop(h, f, n, p)
  <2>1. CASE n = 0 \/ p \notin Link
    BY <2>1 DEF Visit, Loop
  <2>2. CASE n # 0 /\ p \in Link
    <3>1. n - 1 \in 0 .. Limit /\ n \in Nat \ {0} /\ h.next[p] \in Node \cup {NULL}
      BY <2>2, LimitNat DEF Memory, Node
    <3>2. f[n - 1][h.next[p]] = Visit(h, c, n - 1, h.next[p])
      BY <3>1
    <3> HIDE DEF f
    <3>3. Visit(h, c, n, p) = <<p>> \o Visit(h, c, n - 1, h.next[p])
      BY <2>2, <3>1, VisitStep
    <3>4. Loop(h, f, n, p) = <<p>> \o f[n - 1][h.next[p]]
      BY <2>2 DEF Loop
    <3> QED BY <3>2, <3>3, <3>4
  <2> QED BY <2>1, <2>2
<1> DEFINE g == [n \in 0 .. Limit |-> [p \in Node \cup {NULL} |-> Loop(h, f, n, p)]]
<1>2. f = g
  BY <1>1
<1> QED BY <1>2 DEF Loops

(* What the loop collects, for any memory. *)
Foreach(h, l) == (CHOOSE f : Loops(h, f))[Limit][h.next[l]]

(* list_foreach before a step. *)
LEMMA ForeachNow ==
  ASSUME NEW l \in List
  PROVE  list_foreach(l) = Foreach(m, l)
BY ForeachLoops DEF Foreach

(* list_foreach after a step. *)
LEMMA ForeachNext ==
  ASSUME NEW l \in List
  PROVE  list_foreach(l)' = Foreach(m', l)
BY DEF list_foreach, Loops, Loop, Limit, Foreach

(* A list is not longer than there are items. *)
LEMMA LenLimit ==
  ASSUME NEW h, NEW c, Trace(h, c), NEW l \in List
  PROVE  c[l] \in Seq(Link) /\ Len(c[l]) \in Nat /\ Len(c[l]) <= Limit
<1> DEFINE s == c[l]
<1>1. s \in Seq(Link) /\ Len(s) \in Nat
  BY DEF Trace
<1>2. \A i, j \in 1 .. Len(s) : s[i] = s[j] => i = j
  BY DEF Trace
<1>3. s \in [1 .. Len(s) -> Link]
  BY <1>1
<1> HIDE DEF s
<1>4. s \in Injection(1 .. Len(s), Link)
  BY <1>2, <1>3 DEF Injection, IsInjective
<1>5. Cardinality(1 .. Len(s)) <= Cardinality(Link)
  BY <1>4, FiniteAssumption, FS_Injection
<1>6. Cardinality(1 .. Len(s)) = Len(s)
  <2>1. 1 \in Int /\ Len(s) \in Int
    BY <1>1
  <2>2. Cardinality(1 .. Len(s)) = IF 1 > Len(s) THEN 0 ELSE Len(s) - 1 + 1
    BY <2>1, FS_Interval
  <2> QED BY <1>1, <2>2
<1> QED BY <1>1, <1>5, <1>6 DEF Limit, s

(* list_foreach visits the items of the list in their order. *)
LEMMA ForeachTrace ==
  ASSUME NEW h \in Memory, NEW c, Trace(h, c), NEW l \in List
  PROVE  Foreach(h, l) = c[l]
<1> DEFINE f == [n \in 0 .. Limit |-> [p \in Node \cup {NULL} |-> Visit(h, c, n, p)]]
           g == CHOOSE k : Loops(h, k)
           s == c[l]
<1>1. Loops(h, f)
  BY VisitLoops
<1>2. Loops(h, g)
  BY <1>1
<1>3. /\ s \in Seq(Link) /\ Len(s) \in Nat /\ Len(s) <= Limit
      /\ Limit \in Nat /\ Limit \in 0 .. Limit /\ 0 \in 0 .. Len(s)
  BY LenLimit, LimitNat
<1>4. h.next[l] \in Node /\ h.next[l] = After(s, l, 0)
  <2>1. Place(s, l, 0) = l
    BY DEF Place
  <2> QED BY <1>3, <2>1, PlaceFacts
<1> HIDE DEF g, f
<1>5. Foreach(h, l) = Visit(h, c, Limit, h.next[l])
  <2>1. Foreach(h, l) = g[Limit][h.next[l]]
    BY DEF Foreach, g
  <2>2. g[Limit][h.next[l]] = f[Limit][h.next[l]]
    BY <1>1, <1>2, <1>3, <1>4, LoopsUnique
  <2>3. f[Limit][h.next[l]] = Visit(h, c, Limit, h.next[l])
    BY <1>3, <1>4 DEF f
  <2> QED BY <2>1, <2>2, <2>3
<1>6. CASE Len(s) = 0
  <2>1. h.next[l] = l /\ l \notin Link
    BY <1>3, <1>4, <1>6, LinkAssumption DEF After
  <2>2. Visit(h, c, Limit, h.next[l]) = << >>
    BY <2>1 DEF Visit
  <2> QED BY <1>3, <1>5, <1>6, <2>2
<1>7. CASE Len(s) # 0
  <2>1. 1 \in 1 .. Len(s) /\ Limit \in Nat \ {0} /\ h.next[l] = s[1]
    BY <1>3, <1>4, <1>7 DEF After
  <2>2. Visit(h, c, Limit, s[1]) = Part(s, 1, Limit)
    BY <2>1, VisitPlace
  <2>3. Part(s, 1, Limit) = s
    BY <1>3, <2>1, PartStep
  <2> QED BY <1>5, <2>1, <2>2, <2>3
<1> QED BY <1>6, <1>7

-----------------------------------------------------------------------------
(***************************************************************************)
(* What the operations do to the sequences.  The trace of a list is looked *)
(* at apart from the others, so that an operation on one leaves the others *)
(* as they are.                                                            *)
(***************************************************************************)

(* From every place the pointers lead to the one behind it. *)
Follows(h, s, l) == \A i \in 0 .. Len(s) : h.next[Place(s, l, i)] = After(s, l, i)

Among(s, x) == \E i \in 1 .. Len(s) : s[i] = x

NoTwice(s) == \A i, j \in 1 .. Len(s) : s[i] = s[j] => i = j

(* A trace in which one list is replaced. *)
LEMMA TraceUpdate ==
  ASSUME NEW h, NEW c, Trace(h, c), NEW g, NEW l \in List, NEW t \in Seq(Link),
         NoTwice(t), Follows(g, t, l),
         \A k \in List \ {l} : Follows(g, c[k], k),
         \A k \in List \ {l} : \A x \in Link : ~(Among(t, x) /\ Among(c[k], x)),
         \A x \in Link : g.next[x] # NULL => Among(t, x) \/ \E k \in List \ {l} : Among(c[k], x)
  PROVE  Trace(g, [c EXCEPT ![l] = t])
<1> DEFINE c2 == [c EXCEPT ![l] = t]
<1>1. c2 \in [List -> Seq(Link)] /\ c2[l] = t /\ \A k \in List \ {l} : c2[k] = c[k]
  BY DEF Trace
<1> HIDE DEF c2
<1>2. \A k \in List : \A i \in 0 .. Len(c2[k]) : g.next[Place(c2[k], k, i)] = After(c2[k], k, i)
  <2> TAKE k \in List
  <2>1. Follows(g, c2[k], k)
    BY <1>1
  <2> QED BY <2>1 DEF Follows
<1>3. ASSUME NEW j \in List, NEW k \in List, NEW i \in 1 .. Len(c2[j]), NEW n \in 1 .. Len(c2[k]),
             c2[j][i] = c2[k][n]
      PROVE  j = k /\ i = n
  <2>1. c2[j][i] \in Link /\ Among(c2[j], c2[j][i]) /\ Among(c2[k], c2[j][i])
    BY <1>1, <1>3 DEF Among
  <2>2. CASE j = l /\ k = l
    BY <1>1, <1>3, <2>2 DEF NoTwice
  <2>3. CASE j = l /\ k # l
    BY <1>1, <2>1, <2>3
  <2>4. CASE j # l /\ k = l
    BY <1>1, <2>1, <2>4
  <2>5. CASE j # l /\ k # l
    BY <1>1, <1>3, <2>5 DEF Trace
  <2> QED BY <2>2, <2>3, <2>4, <2>5
<1>4. ASSUME NEW x \in Link, g.next[x] # NULL
      PROVE  \E k \in List : \E i \in 1 .. Len(c2[k]) : c2[k][i] = x
  <2>1. \E k \in List : Among(c2[k], x)
    BY <1>1, <1>4
  <2> QED BY <2>1 DEF Among
<1>5. Trace(g, c2)
  BY <1>1, <1>2, <1>3, <1>4 DEF Trace
<1> QED BY <1>5 DEF c2

(* What a trace says of the lists apart from one another. *)
LEMMA TraceApart ==
  ASSUME NEW h, NEW c, Trace(h, c), NEW l \in List
  PROVE  /\ c[l] \in Seq(Link) /\ Len(c[l]) \in Nat /\ NoTwice(c[l]) /\ Follows(h, c[l], l)
         /\ \A k \in List \ {l} : \A x \in Link : ~(Among(c[l], x) /\ Among(c[k], x))
<1>1. c[l] \in Seq(Link) /\ Len(c[l]) \in Nat
  BY DEF Trace
<1>2. NoTwice(c[l]) /\ Follows(h, c[l], l)
  BY DEF Trace, NoTwice, Follows
<1>3. ASSUME NEW k \in List \ {l}, NEW x \in Link, Among(c[l], x), Among(c[k], x)
      PROVE  FALSE
  BY <1>3 DEF Trace, Among
<1> QED BY <1>1, <1>2, <1>3

(* An item is linked exactly when it is in a list. *)
LEMMA LinkedAmong ==
  ASSUME NEW h, NEW c, Trace(h, c), NEW x \in Link
  PROVE  h.next[x] # NULL <=> \E l \in List : Among(c[l], x)
<1>1. ASSUME NEW l \in List, Among(c[l], x) PROVE h.next[x] # NULL
  <2>1. PICK i \in 1 .. Len(c[l]) : c[l][i] = x
    BY <1>1 DEF Among
  <2>2. 1 \in Nat \ {0}
    OBVIOUS
  <2> QED BY <2>1, <2>2, VisitPlace
<1>2. h.next[x] # NULL => \E l \in List : Among(c[l], x)
  BY DEF Trace, Among
<1> QED BY <1>1, <1>2

(* The last place of a list is what its head's prev points at. *)
LEMMA LastPlace ==
  ASSUME NEW h \in Memory, Rings(h), NEW c, Trace(h, c), NEW l \in List
  PROVE  h.prev[l] = Place(c[l], l, Len(c[l])) /\ h.prev[l] \in Node
<1>1. Len(c[l]) \in 0 .. Len(c[l])
  BY DEF Trace
<1>2. After(c[l], l, Len(c[l])) = l
  BY <1>1 DEF After
<1> QED BY <1>1, <1>2, PrevOfPlace, PlaceFacts

(* list_append puts the item behind the last one of the list. *)
LEMMA AppendTrace ==
  ASSUME NEW h \in Memory, Rings(h), NEW c, Trace(h, c), NEW l \in List, NEW x \in Link,
         h.next[x] = NULL
  PROVE  Trace(list_append(h, l, x), [c EXCEPT ![l] = Append(c[l], x)])
<1> DEFINE last == h.prev[l]
           s == c[l]
           t == Append(s, x)
           h2 == list_append(h, l, x)
<1>1. /\ s \in Seq(Link) /\ Len(s) \in Nat /\ x \in Node /\ c \in [List -> Seq(Link)]
      /\ l \notin Link /\ x # NULL
  BY LinkAssumption DEF Trace, Node
<1>2. last = Place(s, l, Len(s)) /\ last \in Node /\ Len(s) \in 0 .. Len(s)
  BY <1>1, LastPlace
<1>3. last # x
  BY <1>2, NotPlaced
<1>4. \A p \in Node : h2.next[p] = IF p = last THEN x ELSE IF p = x THEN l ELSE h.next[p]
  <2>1. last # NULL
    BY <1>2, LinkAssumption DEF Node
  <2>2. h2.next = [[h.next EXCEPT ![x] = l] EXCEPT ![last] = x]
    BY <1>3, <2>1, AppendPointers
  <2>3. h.next \in [Node -> Node \cup {NULL}]
    BY DEF Memory
  <2> QED BY <1>1, <1>2, <2>2, <2>3
<1>5. /\ t \in Seq(Link) /\ Len(t) = Len(s) + 1 /\ t[Len(s) + 1] = x
      /\ \A i \in 1 .. Len(s) : t[i] = s[i]
  BY <1>1
<1>7. \A k \in List : \A i \in 0 .. Len(c[k]) :
        /\ Place(c[k], k, i) # x /\ Place(c[k], k, i) \in Node
        /\ Place(c[k], k, i) = last => k = l /\ i = Len(s)
        /\ h.next[Place(c[k], k, i)] = After(c[k], k, i)
  <2> TAKE k \in List
  <2> TAKE i \in 0 .. Len(c[k])
  <2>1. Place(c[k], k, i) # x
    BY NotPlaced
  <2>2. Place(c[k], k, i) \in Node /\ h.next[Place(c[k], k, i)] = After(c[k], k, i)
    BY PlaceFacts
  <2>3. ASSUME Place(c[k], k, i) = last PROVE k = l /\ i = Len(s)
    BY <1>2, <2>3, PlacesDiffer
  <2> QED BY <2>1, <2>2, <2>3
<1> HIDE DEF last, t, h2
<1>8. Follows(h2, t, l)
  <2> SUFFICES ASSUME NEW i \in 0 .. Len(t) PROVE h2.next[Place(t, l, i)] = After(t, l, i)
    BY DEF Follows
  <2>1. CASE i < Len(s)
    <3>1. i \in 0 .. Len(s) /\ Place(t, l, i) = Place(s, l, i) /\ After(t, l, i) = After(s, l, i)
      BY <1>1, <1>5, <2>1 DEF Place, After
    <3>2. Place(s, l, i) # last /\ Place(s, l, i) # x /\ Place(s, l, i) \in Node
      BY <1>1, <1>7, <2>1, <3>1
    <3> QED BY <1>4, <1>7, <3>1, <3>2
  <2>2. CASE i = Len(s)
    <3>1. Place(t, l, i) = last
      BY <1>1, <1>2, <1>5, <2>2 DEF Place
    <3>2. After(t, l, i) = x
      BY <1>1, <1>5, <2>2 DEF After
    <3> QED BY <1>2, <1>4, <3>1, <3>2
  <2>3. CASE i = Len(s) + 1
    <3>1. Place(t, l, i) = x /\ After(t, l, i) = l
      BY <1>1, <1>5, <2>3 DEF Place, After
    <3> QED BY <1>1, <1>3, <1>4, <3>1
  <2> QED BY <1>1, <1>5, <2>1, <2>2, <2>3
<1>9. ASSUME NEW k \in List \ {l} PROVE Follows(h2, c[k], k)
  BY <1>4, <1>7 DEF Follows
<1>10. \A k \in List : ~Among(c[k], x)
  BY LinkedAmong
<1>11. \A y \in Link : Among(t, y) <=> y = x \/ Among(s, y)
  <2> TAKE y \in Link
  <2>1. ASSUME NEW i \in 1 .. Len(t) PROVE t[i] = x \/ Among(s, t[i])
    BY <1>1, <1>5 DEF Among
  <2>2. Among(t, x)
    <3>1. Len(s) + 1 \in 1 .. Len(t)
      BY <1>1, <1>5
    <3> QED BY <1>5, <3>1 DEF Among
  <2>3. ASSUME NEW i \in 1 .. Len(s) PROVE Among(t, s[i])
    <3>1. i \in 1 .. Len(t)
      BY <1>1, <1>5
    <3> QED BY <1>5, <3>1 DEF Among
  <2>4. Among(t, y) => y = x \/ Among(s, y)
    <3>1. Among(t, y) => \E i \in 1 .. Len(t) : t[i] = y
      BY DEF Among
    <3> QED BY <2>1, <3>1
  <2>5. Among(s, y) => Among(t, y)
    <3>1. Among(s, y) => \E i \in 1 .. Len(s) : s[i] = y
      BY DEF Among
    <3> QED BY <2>3, <3>1
  <2> QED BY <2>2, <2>4, <2>5
<1>12. NoTwice(s) /\ \A k \in List \ {l} : \A y \in Link : ~(Among(s, y) /\ Among(c[k], y))
  BY TraceApart
<1>13. NoTwice(t)
  <2>1. \A i \in 1 .. Len(s) : s[i] # x
    BY <1>10 DEF Among
  <2>2. \A i \in 1 .. Len(t) : i = Len(s) + 1 \/ i \in 1 .. Len(s)
    BY <1>1, <1>5
  <2> QED BY <1>5, <1>12, <2>1, <2>2 DEF NoTwice
<1>14. ASSUME NEW y \in Link, h2.next[y] # NULL, y # x PROVE h.next[y] # NULL
  <2>1. CASE y = last
    <3>1. h.next[last] = After(s, l, Len(s))
      BY <1>2, <1>7
    <3>2. After(s, l, Len(s)) = l
      BY <1>1 DEF After
    <3> QED BY <2>1, <3>1, <3>2, LinkAssumption
  <2>2. CASE y # last
    BY <1>4, <1>14, <2>2 DEF Node
  <2> QED BY <2>1, <2>2
<1>15. \A y \in Link : h2.next[y] # NULL => Among(t, y) \/ \E k \in List \ {l} : Among(c[k], y)
  BY <1>11, <1>14, LinkedAmong
<1>16. \A k \in List \ {l} : \A y \in Link : ~(Among(t, y) /\ Among(c[k], y))
  BY <1>10, <1>11, <1>12
<1>17. Trace(h2, [c EXCEPT ![l] = t])
  BY <1>5, <1>8, <1>9, <1>13, <1>15, <1>16, TraceUpdate
<1> QED BY <1>17 DEF h2, t

(* list_prepend puts the item in front of the first one of the list. *)
LEMMA PrependTrace ==
  ASSUME NEW h \in Memory, Rings(h), NEW c, Trace(h, c), NEW l \in List, NEW x \in Link,
         h.next[x] = NULL
  PROVE  Trace(list_prepend(h, l, x), [c EXCEPT ![l] = <<x>> \o c[l]])
<1> DEFINE first == h.next[l]
           s == c[l]
           t == <<x>> \o s
           h2 == list_prepend(h, l, x)
<1>1. /\ s \in Seq(Link) /\ Len(s) \in Nat /\ x \in Node /\ l \in Node /\ l # x
      /\ l \notin Link /\ x # NULL /\ 0 \in 0 .. Len(s)
  BY LinkAssumption DEF Trace, Node
<1>2. first = After(s, l, 0)
  <2>1. Place(s, l, 0) = l
    BY DEF Place
  <2> QED BY <1>1, <2>1, PlaceFacts
<1>3. \A p \in Node : h2.next[p] = IF p = l THEN x ELSE IF p = x THEN first ELSE h.next[p]
  <2>1. h2.next = [[h.next EXCEPT ![x] = first] EXCEPT ![l] = x]
    BY PrependPointers
  <2>2. h.next \in [Node -> Node \cup {NULL}]
    BY DEF Memory
  <2> QED BY <1>1, <2>1, <2>2
<1>4. /\ t \in Seq(Link) /\ Len(t) = Len(s) + 1 /\ t[1] = x
      /\ \A i \in 1 .. Len(s) : t[i + 1] = s[i]
  BY <1>1
<1>5. \A k \in List : \A i \in 0 .. Len(c[k]) :
        /\ Place(c[k], k, i) # x /\ Place(c[k], k, i) \in Node
        /\ Place(c[k], k, i) = l => k = l /\ i = 0
        /\ h.next[Place(c[k], k, i)] = After(c[k], k, i)
  <2> TAKE k \in List
  <2> TAKE i \in 0 .. Len(c[k])
  <2>1. Place(c[k], k, i) # x
    BY NotPlaced
  <2>2. Place(c[k], k, i) \in Node /\ h.next[Place(c[k], k, i)] = After(c[k], k, i)
    BY PlaceFacts
  <2>3. ASSUME Place(c[k], k, i) = l PROVE k = l /\ i = 0
    <3>1. Place(c[k], k, i) = Place(c[l], l, 0)
      BY <2>3 DEF Place
    <3> QED BY <1>1, <3>1, PlacesDiffer
  <2> QED BY <2>1, <2>2, <2>3
<1> HIDE DEF first, t, h2
<1>6. \A i \in 0 .. Len(s) : After(t, l, i + 1) = After(s, l, i)
  <2> TAKE i \in 0 .. Len(s)
  <2>1. CASE i < Len(s)
    <3>1. i + 1 \in 1 .. Len(s) /\ i + 1 < Len(t)
      BY <1>1, <1>4, <2>1
    <3>2. t[(i + 1) + 1] = s[i + 1]
      BY <1>4, <3>1
    <3> QED BY <2>1, <3>1, <3>2 DEF After
  <2>2. CASE i = Len(s)
    BY <1>1, <1>4, <2>2 DEF After
  <2> QED BY <1>1, <2>1, <2>2
<1>7. Follows(h2, t, l)
  <2> SUFFICES ASSUME NEW i \in 0 .. Len(t) PROVE h2.next[Place(t, l, i)] = After(t, l, i)
    BY DEF Follows
  <2>1. CASE i = 0
    <3>1. Place(t, l, i) = l /\ After(t, l, i) = x
      BY <1>1, <1>4, <2>1 DEF Place, After
    <3> QED BY <1>1, <1>3, <3>1
  <2>2. CASE i = 1
    <3>1. Place(t, l, i) = x
      BY <1>4, <2>2 DEF Place
    <3>2. After(t, l, i) = first
      <4>1. After(t, l, 0 + 1) = After(s, l, 0)
        BY <1>1, <1>6
      <4> QED BY <1>2, <2>2, <4>1
    <3> QED BY <1>1, <1>3, <3>1, <3>2
  <2>3. CASE i > 1
    <3>1. i - 1 \in 0 .. Len(s) /\ i - 1 \in 1 .. Len(s) /\ i - 1 # 0 /\ (i - 1) + 1 = i /\ i # 0
      BY <1>1, <1>4, <2>3
    <3>2. Place(t, l, i) = Place(s, l, i - 1)
      <4>1. t[(i - 1) + 1] = s[i - 1]
        BY <1>4, <3>1
      <4> QED BY <3>1, <4>1 DEF Place
    <3>3. After(t, l, i) = After(s, l, i - 1)
      <4>1. After(t, l, (i - 1) + 1) = After(s, l, i - 1)
        BY <1>6, <3>1
      <4> QED BY <3>1, <4>1
    <3>4. Place(s, l, i - 1) # l /\ Place(s, l, i - 1) # x /\ Place(s, l, i - 1) \in Node
      BY <1>5, <3>1
    <3> QED BY <1>3, <1>5, <3>1, <3>2, <3>3, <3>4
  <2> QED BY <1>1, <1>4, <2>1, <2>2, <2>3
<1>8. ASSUME NEW k \in List \ {l} PROVE Follows(h2, c[k], k)
  BY <1>3, <1>5 DEF Follows
<1>9. \A k \in List : ~Among(c[k], x)
  BY LinkedAmong
<1>10. \A i \in 1 .. Len(t) : i = 1 \/ (i - 1 \in 1 .. Len(s) /\ t[i] = s[i - 1])
  <2> TAKE i \in 1 .. Len(t)
  <2>1. i = 1 \/ (i - 1 \in 1 .. Len(s) /\ (i - 1) + 1 = i)
    BY <1>1, <1>4
  <2> QED BY <1>4, <2>1
<1>11. \A y \in Link : Among(t, y) <=> y = x \/ Among(s, y)
  <2> TAKE y \in Link
  <2>1. ASSUME NEW i \in 1 .. Len(t) PROVE t[i] = x \/ Among(s, t[i])
    BY <1>4, <1>10 DEF Among
  <2>2. Among(t, x)
    <3>1. 1 \in 1 .. Len(t)
      BY <1>1, <1>4
    <3> QED BY <1>4, <3>1 DEF Among
  <2>3. ASSUME NEW i \in 1 .. Len(s) PROVE Among(t, s[i])
    <3>1. i + 1 \in 1 .. Len(t)
      BY <1>1, <1>4
    <3> QED BY <1>4, <3>1 DEF Among
  <2>4. Among(t, y) => y = x \/ Among(s, y)
    <3>1. Among(t, y) => \E i \in 1 .. Len(t) : t[i] = y
      BY DEF Among
    <3> QED BY <2>1, <3>1
  <2>5. Among(s, y) => Among(t, y)
    <3>1. Among(s, y) => \E i \in 1 .. Len(s) : s[i] = y
      BY DEF Among
    <3> QED BY <2>3, <3>1
  <2> QED BY <2>2, <2>4, <2>5
<1>12. NoTwice(s) /\ \A k \in List \ {l} : \A y \in Link : ~(Among(s, y) /\ Among(c[k], y))
  BY TraceApart
<1>13. NoTwice(t)
  <2>1. \A i \in 1 .. Len(s) : s[i] # x
    BY <1>9 DEF Among
  <2> SUFFICES ASSUME NEW i \in 1 .. Len(t), NEW j \in 1 .. Len(t), t[i] = t[j] PROVE i = j
    BY DEF NoTwice
  <2>2. CASE i = 1 \/ j = 1
    BY <1>4, <1>10, <2>1, <2>2
  <2>3. CASE i # 1 /\ j # 1
    <3>1. i - 1 = j - 1
      BY <1>10, <1>12, <2>3 DEF NoTwice
    <3> QED BY <3>1
  <2> QED BY <2>2, <2>3
<1>14. \A y \in Link : h2.next[y] # NULL /\ y # x => h.next[y] # NULL
  BY <1>1, <1>3 DEF Node
<1>15. \A y \in Link : h2.next[y] # NULL => Among(t, y) \/ \E k \in List \ {l} : Among(c[k], y)
  BY <1>11, <1>14, LinkedAmong
<1>16. \A k \in List \ {l} : \A y \in Link : ~(Among(t, y) /\ Among(c[k], y))
  BY <1>9, <1>11, <1>12
<1>17. Trace(h2, [c EXCEPT ![l] = t])
  BY <1>4, <1>7, <1>8, <1>13, <1>15, <1>16, TraceUpdate
<1> QED BY <1>17 DEF h2, t

(* A sequence without its j-th item. *)
Without(s, j) == [i \in 1 .. Len(s) - 1 |-> IF i < j THEN s[i] ELSE s[i + 1]]

(* What taking one item out of a sequence leaves. *)
LEMMA WithoutSeq ==
  ASSUME NEW s \in Seq(Link), NEW j \in 1 .. Len(s)
  PROVE  /\ Len(s) \in Nat /\ Len(Without(s, j)) = Len(s) - 1 /\ Without(s, j) \in Seq(Link)
         /\ \A i \in 1 .. j - 1 : Without(s, j)[i] = s[i]
         /\ \A i \in j .. Len(s) - 1 : Without(s, j)[i] = s[i + 1]
<1>1. Len(s) \in Nat /\ Len(s) - 1 \in Nat
  OBVIOUS
<1>2. \A i \in 1 .. Len(s) - 1 : s[i] \in Link /\ s[i + 1] \in Link
  BY <1>1
<1>3. Without(s, j) \in Seq(Link) /\ Len(Without(s, j)) = Len(s) - 1
  BY <1>1, <1>2 DEF Without
<1>4. \A i \in 1 .. j - 1 : i \in 1 .. Len(s) - 1 /\ i < j
  BY <1>1
<1>5. \A i \in j .. Len(s) - 1 : i \in 1 .. Len(s) - 1 /\ ~(i < j)
  BY <1>1
<1> QED BY <1>1, <1>3, <1>4, <1>5 DEF Without

(* What stands where when the j-th item is taken out. *)
LEMMA WithoutPlaces ==
  ASSUME NEW s \in Seq(Link), NEW j \in 1 .. Len(s), NEW l, NEW i \in 0 .. Len(s) - 1
  PROVE  /\ i < j - 1 => /\ Place(Without(s, j), l, i) = Place(s, l, i)
                         /\ After(Without(s, j), l, i) = After(s, l, i)
         /\ i = j - 1 => /\ Place(Without(s, j), l, i) = Place(s, l, i)
                         /\ After(Without(s, j), l, i) = After(s, l, j)
         /\ i >= j => /\ Place(Without(s, j), l, i) = Place(s, l, i + 1)
                      /\ After(Without(s, j), l, i) = After(s, l, i + 1)
<1> DEFINE t == Without(s, j)
<1>1. /\ Len(s) \in Nat /\ Len(t) = Len(s) - 1
      /\ \A n \in 1 .. j - 1 : t[n] = s[n]
      /\ \A n \in j .. Len(s) - 1 : t[n] = s[n + 1]
  BY WithoutSeq
<1> HIDE DEF t
<1>2. i <= j - 1 => Place(t, l, i) = Place(s, l, i)
  <2>1. i <= j - 1 /\ i # 0 => i \in 1 .. j - 1
    BY <1>1
  <2> QED BY <1>1, <2>1 DEF Place
<1>3. i < j - 1 => After(t, l, i) = After(s, l, i)
  <2>1. i < j - 1 => i + 1 \in 1 .. j - 1 /\ i < Len(s) /\ i < Len(t)
    BY <1>1
  <2> QED BY <1>1, <2>1 DEF After
<1>4. i = j - 1 => After(t, l, i) = After(s, l, j)
  <2>1. CASE i = j - 1 /\ j < Len(s)
    <3>1. i + 1 = j /\ j \in j .. Len(s) - 1 /\ i < Len(t)
      BY <1>1, <2>1
    <3>2. t[j] = s[j + 1]
      BY <1>1, <3>1
    <3> QED BY <2>1, <3>1, <3>2 DEF After
  <2>2. CASE i = j - 1 /\ ~(j < Len(s))
    BY <1>1, <2>2 DEF After
  <2> QED BY <2>1, <2>2
<1>5. i >= j => Place(t, l, i) = Place(s, l, i + 1)
  <2>1. i >= j => i \in j .. Len(s) - 1 /\ i # 0 /\ i + 1 # 0
    BY <1>1
  <2> QED BY <1>1, <2>1 DEF Place
<1>6. i >= j => After(t, l, i) = After(s, l, i + 1)
  <2>1. CASE i >= j /\ i < Len(s) - 1
    <3>1. i + 1 \in j .. Len(s) - 1 /\ i + 1 < Len(s) /\ i < Len(t)
      BY <1>1, <2>1
    <3>2. t[i + 1] = s[(i + 1) + 1]
      BY <1>1, <3>1
    <3> QED BY <3>1, <3>2 DEF After
  <2>2. CASE i >= j /\ ~(i < Len(s) - 1)
    BY <1>1, <2>2 DEF After
  <2> QED BY <2>1, <2>2
<1>7. i < j - 1 => i <= j - 1
  BY <1>1
<1>8. i = j - 1 => i <= j - 1
  BY <1>1
<1>9. /\ i < j - 1 => Place(t, l, i) = Place(s, l, i) /\ After(t, l, i) = After(s, l, i)
      /\ i = j - 1 => Place(t, l, i) = Place(s, l, i) /\ After(t, l, i) = After(s, l, j)
      /\ i >= j => Place(t, l, i) = Place(s, l, i + 1) /\ After(t, l, i) = After(s, l, i + 1)
  BY <1>2, <1>3, <1>4, <1>5, <1>6, <1>7, <1>8
<1> QED BY <1>9 DEF t

(* The items that are left, each once. *)
LEMMA WithoutItems ==
  ASSUME NEW s \in Seq(Link), NoTwice(s), NEW j \in 1 .. Len(s)
  PROVE  /\ NoTwice(Without(s, j))
         /\ \A y \in Link : Among(Without(s, j), y) <=> Among(s, y) /\ y # s[j]
<1> DEFINE t == Without(s, j)
<1>1. /\ Len(s) \in Nat /\ Len(t) = Len(s) - 1
      /\ \A n \in 1 .. j - 1 : t[n] = s[n]
      /\ \A n \in j .. Len(s) - 1 : t[n] = s[n + 1]
  BY WithoutSeq
<1> HIDE DEF t
<1> DEFINE old(i) == IF i < j THEN i ELSE i + 1
<1>2. \A i \in 1 .. Len(t) : old(i) \in 1 .. Len(s) /\ old(i) # j /\ t[i] = s[old(i)]
  <2> TAKE i \in 1 .. Len(t)
  <2>1. CASE i < j
    <3>1. i \in 1 .. j - 1 /\ i \in 1 .. Len(s) /\ i # j
      BY <1>1, <2>1
    <3> QED BY <1>1, <2>1, <3>1
  <2>2. CASE ~(i < j)
    <3>1. i \in j .. Len(s) - 1 /\ i + 1 \in 1 .. Len(s) /\ i + 1 # j
      BY <1>1, <2>2
    <3> QED BY <1>1, <2>2, <3>1
  <2> QED BY <2>1, <2>2
<1>3. \A i, n \in 1 .. Len(t) : old(i) = old(n) => i = n
  BY <1>1
<1>4. \A i \in 1 .. Len(s) : i # j => \E n \in 1 .. Len(t) : old(n) = i
  <2> TAKE i \in 1 .. Len(s)
  <2> HAVE i # j
  <2>1. CASE i < j
    <3>1. i \in 1 .. Len(t) /\ old(i) = i
      BY <1>1, <2>1
    <3> QED BY <3>1
  <2>2. CASE ~(i < j)
    <3>1. i - 1 \in 1 .. Len(t) /\ old(i - 1) = i
      BY <1>1, <2>2
    <3> QED BY <3>1
  <2> QED BY <2>1, <2>2
<1> HIDE DEF old
<1>5. NoTwice(t)
  BY <1>2, <1>3 DEF NoTwice
<1>6. ASSUME NEW i \in 1 .. Len(t) PROVE Among(s, t[i]) /\ t[i] # s[j]
  BY <1>2 DEF Among, NoTwice
<1>7. ASSUME NEW i \in 1 .. Len(s), s[i] # s[j] PROVE Among(t, s[i])
  <2>1. PICK n \in 1 .. Len(t) : old(n) = i
    BY <1>4, <1>7
  <2> QED BY <1>2, <2>1 DEF Among
<1>8. ASSUME NEW y \in Link PROVE Among(t, y) <=> Among(s, y) /\ y # s[j]
  <2>1. Among(t, y) => \E i \in 1 .. Len(t) : t[i] = y
    BY DEF Among
  <2>2. Among(s, y) => \E i \in 1 .. Len(s) : s[i] = y
    BY DEF Among
  <2>3. Among(t, y) => Among(s, y) /\ y # s[j]
    BY <1>6, <2>1
  <2>4. Among(s, y) /\ y # s[j] => Among(t, y)
    BY <1>7, <2>2
  <2> QED BY <2>3, <2>4
<1> QED BY <1>5, <1>8 DEF t

(* list_remove takes the item out of the list that it is in. *)
LEMMA RemoveTrace ==
  ASSUME NEW h \in Memory, Rings(h), NEW c, Trace(h, c), NEW l \in List,
         NEW j \in 1 .. Len(c[l])
  PROVE  Trace(list_remove(h, c[l][j]), [c EXCEPT ![l] = Without(c[l], j)])
<1> DEFINE s == c[l]
           x == s[j]
           t == Without(s, j)
           before == h.prev[x]
           after == h.next[x]
           h2 == list_remove(h, x)
<1>1. /\ s \in Seq(Link) /\ Len(s) \in Nat /\ x \in Link /\ x \in Node
      /\ j \in 0 .. Len(s) /\ j - 1 \in 0 .. Len(s) /\ j # 0
  BY DEF Trace, Node
<1>2. Place(s, l, j) = x /\ After(s, l, j - 1) = x
  BY <1>1 DEF Place, After
<1>3. before = Place(s, l, j - 1) /\ before \in Node
  BY <1>1, <1>2, PrevOfPlace, PlaceFacts
<1>4. after = After(s, l, j) /\ after # NULL
  BY <1>1, <1>2, PlaceFacts
<1>5. \A p \in Node : h2.next[p] = IF p = x THEN NULL ELSE IF p = before THEN after ELSE h.next[p]
  <2>1. h2.next = [[h.next EXCEPT ![before] = after] EXCEPT ![x] = NULL]
    BY <1>1, <1>4, RemovePointers
  <2>2. h.next \in [Node -> Node \cup {NULL}]
    BY DEF Memory
  <2> QED BY <1>1, <1>3, <2>1, <2>2
<1>6. \A k \in List : \A i \in 0 .. Len(c[k]) :
        /\ Place(c[k], k, i) \in Node
        /\ Place(c[k], k, i) = x => k = l /\ i = j
        /\ Place(c[k], k, i) = before => k = l /\ i = j - 1
        /\ h.next[Place(c[k], k, i)] = After(c[k], k, i)
  <2> TAKE k \in List
  <2> TAKE i \in 0 .. Len(c[k])
  <2>1. Place(c[k], k, i) \in Node /\ h.next[Place(c[k], k, i)] = After(c[k], k, i)
    BY PlaceFacts
  <2>2. ASSUME Place(c[k], k, i) = x PROVE k = l /\ i = j
    BY <1>1, <1>2, <2>2, PlacesDiffer
  <2>3. ASSUME Place(c[k], k, i) = before PROVE k = l /\ i = j - 1
    BY <1>1, <1>3, <2>3, PlacesDiffer
  <2> QED BY <2>1, <2>2, <2>3
<1>7. Len(t) = Len(s) - 1 /\ t \in Seq(Link)
  BY <1>1, WithoutSeq
<1>8. \A i \in 0 .. Len(s) - 1 :
        /\ i < j - 1 => Place(t, l, i) = Place(s, l, i) /\ After(t, l, i) = After(s, l, i)
        /\ i = j - 1 => Place(t, l, i) = Place(s, l, i) /\ After(t, l, i) = After(s, l, j)
        /\ i >= j => Place(t, l, i) = Place(s, l, i + 1) /\ After(t, l, i) = After(s, l, i + 1)
  BY <1>1, WithoutPlaces
<1>9. /\ NoTwice(s)
      /\ \A k \in List \ {l} : \A y \in Link : ~(Among(s, y) /\ Among(c[k], y))
  BY TraceApart
<1>10. /\ NoTwice(t)
       /\ \A y \in Link : Among(t, y) <=> Among(s, y) /\ y # x
  BY <1>1, <1>9, WithoutItems
<1> HIDE DEF x, t, before, after, h2
<1>11. Follows(h2, t, l)
  <2> SUFFICES ASSUME NEW i \in 0 .. Len(t) PROVE h2.next[Place(t, l, i)] = After(t, l, i)
    BY DEF Follows
  <2>1. i \in 0 .. Len(s) - 1 /\ i \in 0 .. Len(s) /\ i + 1 \in 0 .. Len(s)
    BY <1>1, <1>7
  <2>2. CASE i < j - 1
    <3>1. i # j /\ i # j - 1
      BY <1>1, <2>2
    <3>2. Place(s, l, i) # x /\ Place(s, l, i) # before /\ Place(s, l, i) \in Node
      BY <1>6, <2>1, <3>1
    <3> QED BY <1>5, <1>6, <1>8, <2>1, <2>2, <3>2
  <2>3. CASE i = j - 1
    <3>1. j - 1 # j
      BY <1>1
    <3>2. before # x
      BY <1>1, <1>3, <1>6, <3>1
    <3>3. Place(t, l, i) = before /\ After(t, l, i) = after
      BY <1>3, <1>4, <1>8, <2>1, <2>3
    <3> QED BY <1>3, <1>5, <3>2, <3>3
  <2>4. CASE i >= j
    <3>1. i + 1 # j /\ i + 1 # j - 1
      BY <1>1, <2>4
    <3>2. Place(s, l, i + 1) # x /\ Place(s, l, i + 1) # before /\ Place(s, l, i + 1) \in Node
      BY <1>6, <2>1, <3>1
    <3>3. h2.next[Place(s, l, i + 1)] = After(s, l, i + 1)
      BY <1>5, <1>6, <2>1, <3>2
    <3> QED BY <1>8, <2>1, <2>4, <3>3
  <2> QED BY <1>1, <2>1, <2>2, <2>3, <2>4
<1>12. ASSUME NEW k \in List \ {l} PROVE Follows(h2, c[k], k)
  BY <1>5, <1>6 DEF Follows
<1>13. ASSUME NEW y \in Link, h2.next[y] # NULL PROVE y # x /\ h.next[y] # NULL
  <2>1. y \in Node
    BY DEF Node
  <2>2. y # x
    BY <1>5, <1>13, <2>1
  <2>3. h.next[before] = x /\ x # NULL
    BY <1>1, <1>2, <1>3, <1>6, LinkAssumption
  <2> QED BY <1>5, <1>13, <2>1, <2>2, <2>3
<1>14. \A y \in Link : h2.next[y] # NULL => Among(t, y) \/ \E k \in List \ {l} : Among(c[k], y)
  BY <1>10, <1>13, LinkedAmong
<1>15. \A k \in List \ {l} : \A y \in Link : ~(Among(t, y) /\ Among(c[k], y))
  BY <1>9, <1>10
<1>16. Trace(h2, [c EXCEPT ![l] = t])
  BY <1>7, <1>10, <1>11, <1>12, <1>14, <1>15, TraceUpdate
<1> QED BY <1>16 DEF h2, t, x

-----------------------------------------------------------------------------
(* The operations of the abstract lists, in the terms used here. *)
LEMMA AbstractRemove ==
  ASSUME NEW s \in Seq(Link), NoTwice(s), NEW x \in Link
  PROVE  /\ ~Among(s, x) => Abstract!list_remove(s, x) = s
         /\ \A j \in 1 .. Len(s) : s[j] = x => Abstract!list_remove(s, x) = Without(s, j)
<1>1. Abstract!link_connected(s, x) <=> Among(s, x)
  BY DEF Abstract!link_connected, Among
<1>2. ~Among(s, x) => Abstract!list_remove(s, x) = s
  BY <1>1 DEF Abstract!list_remove
<1>3. ASSUME NEW j \in 1 .. Len(s), s[j] = x PROVE Abstract!list_remove(s, x) = Without(s, j)
  <2>1. Abstract!Position(s, x) \in 1 .. Len(s) /\ s[Abstract!Position(s, x)] = x
    BY <1>3 DEF Abstract!Position
  <2>2. Abstract!Position(s, x) = j
    BY <1>3, <2>1 DEF NoTwice
  <2>3. Among(s, x)
    BY <1>3 DEF Among
  <2> QED BY <1>1, <2>2, <2>3 DEF Abstract!list_remove, Without
<1> QED BY <1>2, <1>3

(* Without its first item a sequence is its tail, as for list_pop. *)
LEMMA WithoutFirst ==
  ASSUME NEW s \in Seq(Link), Len(s) # 0
  PROVE  Without(s, 1) = Tail(s) /\ 1 \in 1 .. Len(s) /\ s # << >> /\ Head(s) = s[1] /\ s[1] \in Link
<1>1. 1 \in 1 .. Len(s) /\ Len(s) \in Nat /\ s # << >> /\ Head(s) = s[1] /\ s[1] \in Link
  OBVIOUS
<1>2. /\ Len(Without(s, 1)) = Len(s) - 1 /\ Without(s, 1) \in Seq(Link)
      /\ \A i \in 1 .. Len(s) - 1 : Without(s, 1)[i] = s[i + 1]
  BY <1>1, WithoutSeq
<1>3. /\ Len(Tail(s)) = Len(s) - 1 /\ Tail(s) \in Seq(Link)
      /\ \A i \in 1 .. Len(s) - 1 : Tail(s)[i] = s[i + 1]
  BY <1>1
<1>4. Without(s, 1) = Tail(s)
  BY <1>2, <1>3, SeqEqual
<1> QED BY <1>1, <1>4

(* What the abstract lists hold, before a step and after it. *)
Contents == [l \in List |-> list_foreach(l)]

(* They are the sequences of the trace. *)
LEMMA ContentsNow ==
  ASSUME m \in Memory, NEW c, Trace(m, c)
  PROVE  Contents = c
<1>1. c \in [List -> Seq(Link)]
  BY DEF Trace
<1>2. \A l \in List : list_foreach(l) = c[l]
  BY ForeachNow, ForeachTrace
<1> QED BY <1>1, <1>2 DEF Contents

(* The same after a step. *)
LEMMA ContentsNext ==
  ASSUME m' \in Memory, NEW c, Trace(m', c)
  PROVE  Contents' = c
<1>1. c \in [List -> Seq(Link)]
  BY DEF Trace
<1>2. \A l \in List : list_foreach(l)' = c[l]
  BY ForeachNext, ForeachTrace
<1> QED BY <1>1, <1>2 DEF Contents

(* The pointers stand for some sequences. *)
Traced == \E c \in [List -> Seq(Link)] : Trace(m, c)

(* Any trace of the new pointers will do. *)
LEMMA TracedNext ==
  ASSUME NEW c, Trace(m', c)
  PROVE  Traced'
BY DEF Traced, Trace

(* An item that is not linked is in no abstract list. *)
LEMMA NotLinked ==
  ASSUME m \in Memory, Rings(m), NEW c, Trace(m, c), NEW x \in Link, ~link_connected(m, x)
  PROVE  m.next[x] = NULL /\ x \notin Abstract!Linked
<1>1. m.next[x] = NULL
  BY DEF link_connected, Rings, Node
<1>2. \A l \in List : ~Among(c[l], x)
  BY <1>1, LinkedAmong
<1>3. Contents = c
  BY ContentsNow
<1>4. Abstract!Linked = UNION {Abstract!Items(Contents[l]) : l \in List}
  BY DEF Abstract!Linked, Contents
<1>5. \A l \in List : x \notin Abstract!Items(c[l])
  BY <1>2 DEF Abstract!Items, Among
<1> QED BY <1>1, <1>3, <1>4, <1>5

(* The first item of a list. *)
LEMMA FirstOfTrace ==
  ASSUME m \in Memory, NEW c, Trace(m, c), NEW l \in List
  PROVE  /\ c[l] \in Seq(Link) /\ Len(c[l]) \in Nat /\ c \in [List -> Seq(Link)]
         /\ list_empty(m, l) <=> Len(c[l]) = 0
         /\ Len(c[l]) # 0 => m.next[l] = c[l][1]
<1> DEFINE s == c[l]
<1>1. s \in Seq(Link) /\ Len(s) \in Nat /\ 0 \in 0 .. Len(s) /\ c \in [List -> Seq(Link)]
  BY DEF Trace
<1>2. m.next[l] = After(s, l, 0)
  <2>1. Place(s, l, 0) = l
    BY DEF Place
  <2> QED BY <1>1, <2>1, PlaceFacts
<1>3. Len(s) # 0 => s[1] \in Link
  BY <1>1
<1> QED BY <1>1, <1>2, <1>3, LinkAssumption DEF After, list_empty

(* list_append of an item that is not linked is AppendItem. *)
LEMMA AppendRefines ==
  ASSUME m \in Memory, Rings(m), m' \in Memory, NEW c, Trace(m, c),
         NEW l \in List, NEW x \in Link, Append_(l, x)
  PROVE  Traced' /\ Abstract!AppendItem(l, x)
<1> DEFINE c2 == [c EXCEPT ![l] = Append(c[l], x)]
<1>1. m.next[x] = NULL /\ x \notin Abstract!Linked
  BY NotLinked DEF Append_
<1>2. Trace(m', c2)
  BY <1>1, AppendTrace DEF Append_
<1>3. Contents = c /\ Contents' = c2
  BY <1>2, ContentsNow, ContentsNext
<1>4. c2 = [c EXCEPT ![l] = Abstract!list_append(c[l], x)]
  BY DEF Abstract!list_append
<1>5. Traced'
  BY <1>2, TracedNext
<1> HIDE DEF c2
<1>6. Contents' = [Contents EXCEPT ![l] = Abstract!list_append(Contents[l], x)]
  BY <1>3, <1>4
<1>7. result' = NULL
  BY DEF Append_
<1> QED BY <1>1, <1>5, <1>6, <1>7 DEF Abstract!AppendItem, Contents

(* list_prepend of an item that is not linked is PrependItem. *)
LEMMA PrependRefines ==
  ASSUME m \in Memory, Rings(m), m' \in Memory, NEW c, Trace(m, c),
         NEW l \in List, NEW x \in Link, Prepend_(l, x)
  PROVE  Traced' /\ Abstract!PrependItem(l, x)
<1> DEFINE c2 == [c EXCEPT ![l] = <<x>> \o c[l]]
<1>1. m.next[x] = NULL /\ x \notin Abstract!Linked
  BY NotLinked DEF Prepend_
<1>2. Trace(m', c2)
  BY <1>1, PrependTrace DEF Prepend_
<1>3. Contents = c /\ Contents' = c2
  BY <1>2, ContentsNow, ContentsNext
<1>4. Traced'
  BY <1>2, TracedNext
<1>5. Contents' = [Contents EXCEPT ![l] = <<x>> \o Contents[l]]
  BY <1>3
<1>6. result' = NULL
  BY DEF Prepend_
<1> HIDE DEF c2
<1> QED BY <1>1, <1>4, <1>5, <1>6 DEF Abstract!PrependItem, Contents

(* list_remove is RemoveItem, whether the item is linked or not. *)
LEMMA RemoveRefines ==
  ASSUME m \in Memory, Rings(m), m' \in Memory, NEW c, Trace(m, c),
         NEW x \in Link, Remove_(x)
  PROVE  Traced' /\ Abstract!RemoveItem(x)
<1> DEFINE c2 == [k \in List |-> Abstract!list_remove(c[k], x)]
<1>1. c \in [List -> Seq(Link)]
  BY DEF Trace
<1>2. Trace(m', c2)
  <2>1. CASE m.next[x] = NULL
    <3>1. \A k \in List : ~Among(c[k], x)
      BY <2>1, LinkedAmong
    <3>2. \A k \in List : Abstract!list_remove(c[k], x) = c[k]
      BY <3>1, AbstractRemove, TraceApart
    <3>3. c2 = c
      BY <1>1, <3>2
    <3>4. m' = m
      <4>1. x \in Node /\ m.prev[x] = NULL
        BY <2>1 DEF Node, Rings
      <4> QED BY <2>1, <4>1 DEF Remove_, list_remove, link_connected, link_init, SetNext, SetPrev, Memory
    <3> QED BY <3>3, <3>4
  <2>2. CASE m.next[x] # NULL
    <3>1. PICK l \in List : Among(c[l], x)
      BY <2>2, LinkedAmong
    <3>2. PICK j \in 1 .. Len(c[l]) : c[l][j] = x
      BY <3>1 DEF Among
    <3>3. Trace(m', [c EXCEPT ![l] = Without(c[l], j)])
      BY <3>2, RemoveTrace DEF Remove_
    <3>4. Abstract!list_remove(c[l], x) = Without(c[l], j)
      BY <3>2, AbstractRemove, TraceApart
    <3>5. \A k \in List \ {l} : ~Among(c[k], x)
      BY <3>1, TraceApart
    <3>6. \A k \in List \ {l} : Abstract!list_remove(c[k], x) = c[k]
      BY <3>5, AbstractRemove, TraceApart
    <3>7. c2 = [c EXCEPT ![l] = Without(c[l], j)]
      BY <1>1, <3>4, <3>6
    <3> QED BY <3>3, <3>7
  <2> QED BY <2>1, <2>2
<1>3. Contents = c /\ Contents' = c2
  BY <1>2, ContentsNow, ContentsNext
<1> HIDE DEF c2
<1>4. Traced'
  BY <1>2, TracedNext
<1>5. Contents' = [k \in List |-> Abstract!list_remove(Contents[k], x)]
  BY <1>3 DEF c2
<1>6. result' = NULL
  BY DEF Remove_
<1> QED BY <1>4, <1>5, <1>6 DEF Abstract!RemoveItem, Contents

(* The first item as the abstract lists see it. *)
LEMMA AbstractFirst ==
  ASSUME m \in Memory, NEW c, Trace(m, c), NEW l \in List
  PROVE  Abstract!First(l) = IF c[l] = << >> THEN NULL ELSE Head(c[l])
<1>1. Contents = c
  BY ContentsNow
<1>2. Abstract!First(l) = IF Contents[l] = << >> THEN NULL ELSE Head(Contents[l])
  BY DEF Abstract!First, Contents
<1> QED BY <1>1, <1>2

(* list_pop is PopItem, on an empty list as well. *)
LEMMA PopRefines ==
  ASSUME m \in Memory, Rings(m), m' \in Memory, NEW c, Trace(m, c), NEW l \in List, Pop_(l)
  PROVE  Traced' /\ Abstract!PopItem(l)
<1> DEFINE s == c[l]
           c2 == [c EXCEPT ![l] = IF s = << >> THEN s ELSE Tail(s)]
<1>1. /\ s \in Seq(Link) /\ Len(s) \in Nat /\ c \in [List -> Seq(Link)]
      /\ list_empty(m, l) <=> Len(s) = 0
      /\ Len(s) # 0 => m.next[l] = s[1]
  BY FirstOfTrace
<1>2. Trace(m', c2) /\ result' = IF s = << >> THEN NULL ELSE Head(s)
  <2>1. CASE Len(s) = 0
    <3>1. s = << >>
      BY <1>1, <2>1
    <3>2. c2 = c
      BY <1>1, <3>1
    <3>3. m' = m /\ result' = NULL
      BY <1>1, <2>1 DEF Pop_
    <3> QED BY <3>1, <3>2, <3>3
  <2>2. CASE Len(s) # 0
    <3>1. Without(s, 1) = Tail(s) /\ 1 \in 1 .. Len(s) /\ s # << >> /\ Head(s) = s[1]
      BY <1>1, <2>2, WithoutFirst
    <3>2. m' = list_remove(m, s[1]) /\ result' = s[1]
      BY <1>1, <2>2 DEF Pop_, list_pop
    <3>3. Trace(m', [c EXCEPT ![l] = Without(s, 1)])
      BY <3>1, <3>2, RemoveTrace
    <3> QED BY <3>1, <3>2, <3>3
  <2> QED BY <2>1, <2>2
<1>3. Contents = c /\ Contents' = c2
  BY <1>2, ContentsNow, ContentsNext
<1>4. Traced'
  BY <1>2, TracedNext
<1>5. Contents' = [Contents EXCEPT ![l] = IF Contents[l] = << >> THEN Contents[l] ELSE Tail(Contents[l])]
  BY <1>3
<1>6. result' = Abstract!First(l)
  BY <1>2, AbstractFirst
<1> HIDE DEF s, c2
<1> QED BY <1>4, <1>5, <1>6 DEF Abstract!PopItem, Contents

(* list_rotate is a removal and an append. *)
LEMMA RotateRefines ==
  ASSUME m \in Memory, Rings(m), m' \in Memory, NEW c, Trace(m, c), NEW l \in List, list_rotate(l)
  PROVE  Traced' /\ Abstract!Rotate(l)
<1> DEFINE s == c[l]
           c2 == [c EXCEPT ![l] = Abstract!list_rotate(s)]
<1>1. /\ s \in Seq(Link) /\ Len(s) \in Nat /\ c \in [List -> Seq(Link)]
      /\ list_empty(m, l) <=> Len(s) = 0
      /\ Len(s) # 0 => m.next[l] = s[1]
  BY FirstOfTrace
<1>2. Trace(m', c2) /\ result' = IF s = << >> THEN NULL ELSE Head(s)
  <2>1. CASE Len(s) = 0
    <3>1. s = << >>
      BY <1>1, <2>1
    <3>2. Abstract!list_rotate(s) = s
      BY <3>1 DEF Abstract!list_rotate
    <3>3. c2 = c
      BY <1>1, <3>2
    <3>4. m' = m /\ result' = NULL
      BY <1>1, <2>1 DEF list_rotate
    <3> QED BY <3>1, <3>3, <3>4
  <2>2. CASE Len(s) # 0
    <3> DEFINE x == s[1]
               h == list_remove(m, x)
               c1 == [c EXCEPT ![l] = Without(s, 1)]
    <3>1. Without(s, 1) = Tail(s) /\ 1 \in 1 .. Len(s) /\ s # << >> /\ Head(s) = x /\ x \in Link
      BY <1>1, <2>2, WithoutFirst
    <3>2. m' = list_append(h, l, x) /\ result' = x
      BY <1>1, <2>2 DEF list_rotate, list_pop
    <3>3. Trace(h, c1)
      BY <3>1, RemoveTrace
    <3>4. h \in Memory /\ Rings(h) /\ h.next[x] = NULL
      BY <3>1, RemoveKeepsRings
    <3>5. c1[l] = Tail(s)
      BY <1>1, <3>1
    <3>6. [c1 EXCEPT ![l] = Append(Tail(s), x)] = [c EXCEPT ![l] = Append(Tail(s), x)]
      BY <1>1
    <3>7. Abstract!list_rotate(s) = Append(Tail(s), x)
      BY <3>1 DEF Abstract!list_rotate, Abstract!list_append
    <3> HIDE DEF h, c1, x
    <3>8. Trace(list_append(h, l, x), [c1 EXCEPT ![l] = Append(c1[l], x)])
      BY <3>1, <3>3, <3>4, AppendTrace
    <3> QED BY <3>1, <3>2, <3>5, <3>6, <3>7, <3>8
  <2> QED BY <2>1, <2>2
<1>3. Contents = c /\ Contents' = c2
  BY <1>2, ContentsNow, ContentsNext
<1>4. Traced'
  BY <1>2, TracedNext
<1>5. Contents' = [Contents EXCEPT ![l] = Abstract!list_rotate(Contents[l])]
  BY <1>3
<1>6. result' = Abstract!First(l)
  BY <1>2, AbstractFirst
<1> HIDE DEF s, c2
<1> QED BY <1>4, <1>5, <1>6 DEF Abstract!Rotate, Contents

(* Every call is the call of the abstract lists. *)
LEMMA StepRefines ==
  ASSUME TypeOK, RingsIntact, TypeOK', Traced, Next
  PROVE  Traced' /\ Abstract!Next
<1>1. PICK c \in [List -> Seq(Link)] : Trace(m, c)
  BY DEF Traced
<1>2. m \in Memory /\ Rings(m) /\ m' \in Memory
  BY DEF TypeOK, RingsIntact, Memory
<1>3. ASSUME NEW l \in List, NEW x \in Link, Append_(l, x)
      PROVE  Traced' /\ Abstract!Next
  <2>1. Traced' /\ Abstract!AppendItem(l, x)
    BY <1>1, <1>2, <1>3, AppendRefines
  <2> QED BY <2>1 DEF Abstract!Next
<1>4. ASSUME NEW l \in List, NEW x \in Link, Prepend_(l, x)
      PROVE  Traced' /\ Abstract!Next
  <2>1. Traced' /\ Abstract!PrependItem(l, x)
    BY <1>1, <1>2, <1>4, PrependRefines
  <2> QED BY <2>1 DEF Abstract!Next
<1>5. ASSUME NEW x \in Link, Remove_(x)
      PROVE  Traced' /\ Abstract!Next
  <2>1. Traced' /\ Abstract!RemoveItem(x)
    BY <1>1, <1>2, <1>5, RemoveRefines
  <2> QED BY <2>1 DEF Abstract!Next
<1>6. ASSUME NEW l \in List, Pop_(l)
      PROVE  Traced' /\ Abstract!Next
  <2>1. Traced' /\ Abstract!PopItem(l)
    BY <1>1, <1>2, <1>6, PopRefines
  <2> QED BY <2>1 DEF Abstract!Next
<1>7. ASSUME NEW l \in List, list_rotate(l)
      PROVE  Traced' /\ Abstract!Next
  <2>1. Traced' /\ Abstract!Rotate(l)
    BY <1>1, <1>2, <1>7, RotateRefines
  <2> QED BY <2>1 DEF Abstract!Next
<1> QED BY <1>3, <1>4, <1>5, <1>6, <1>7 DEF Next

(* After list_init and link_init all lists are empty. *)
LEMMA InitRefines ==
  ASSUME Init
  PROVE  TypeOK /\ RingsIntact /\ Traced /\ Abstract!Init
<1> DEFINE c == [l \in List |-> << >>]
<1>1. /\ m = [next |-> list_init, prev |-> list_init] /\ result = NULL
      /\ list_init \in [Node -> Node \cup {NULL}]
      /\ \A p \in Node : list_init[p] = IF p \in List THEN p ELSE NULL
  BY DEF Init, list_init, Node
<1>2. TypeOK /\ Rings(m)
  BY <1>1, LinkAssumption DEF TypeOK, Rings, Node
<1>3. Owns(m, [x \in Link |-> NULL])
  BY <1>1, LinkAssumption DEF Owns, Owner, Node
<1>4. RingsIntact
  BY <1>2, <1>3 DEF RingsIntact
<1>5. c \in [List -> Seq(Link)] /\ \A l \in List : c[l] = << >> /\ Len(c[l]) = 0
  OBVIOUS
<1> HIDE DEF c
<1>6. Trace(m, c)
  <2>1. \A l \in List : \A i \in 0 .. Len(c[l]) : m.next[Place(c[l], l, i)] = After(c[l], l, i)
    <3> TAKE l \in List
    <3> TAKE i \in 0 .. Len(c[l])
    <3>1. i = 0
      BY <1>5
    <3>2. Place(c[l], l, i) = l /\ After(c[l], l, i) = l
      BY <1>5, <3>1 DEF Place, After
    <3> QED BY <1>1, <3>2 DEF Node
  <2>2. \A x \in Link : m.next[x] = NULL
    BY <1>1, LinkAssumption DEF Node
  <2> QED BY <1>5, <2>1, <2>2 DEF Trace
<1>7. Traced
  BY <1>6 DEF Traced, Trace
<1>8. Contents = c
  BY <1>2, <1>6, ContentsNow DEF TypeOK, Memory
<1> QED BY <1>1, <1>2, <1>4, <1>7, <1>8 DEF Abstract!Init, Contents, c

(* Refinement of the lists: whatever sequence of calls is made, walking   *)
(* the pointers of kernel/adt/list.h with list_foreach visits exactly the *)
(* items that the calls have put into the list, in their order, and what  *)
(* list_pop and list_rotate return is the first of them.                  *)
THEOREM ListsRefined == Spec => ListsSpec
<1> DEFINE IInv == TypeOK /\ RingsIntact /\ Traced
<1>1. Init => IInv /\ Abstract!Init
  BY InitRefines
<1>2. IInv /\ [Next]_vars => IInv' /\ [Abstract!Next]_(Abstract!vars)
  <2>1. ASSUME IInv, Next PROVE IInv' /\ Abstract!Next
    <3>1. TypeOK' /\ RingsIntact'
      BY <2>1, StepKeepsRings
    <3> QED BY <2>1, <3>1, StepRefines
  <2>2. ASSUME IInv, UNCHANGED vars PROVE IInv' /\ UNCHANGED Abstract!vars
    <3>1. m' = m /\ result' = result
      BY <2>2 DEF vars
    <3>2. IInv'
      BY <2>2, <3>1 DEF TypeOK, RingsIntact, Traced
    <3>3. PICK c \in [List -> Seq(Link)] : Trace(m, c)
      BY <2>2 DEF Traced
    <3>4. Contents' = c /\ Contents = c
      BY <2>2, <3>1, <3>3, ContentsNow, ContentsNext DEF TypeOK, Memory
    <3>5. Contents' = Contents
      BY <3>4
    <3> QED BY <3>1, <3>2, <3>5 DEF Abstract!vars, Contents
  <2> QED BY <2>1, <2>2
<1> QED
  BY <1>1, <1>2, PTL DEF Spec, ListsSpec, Abstract!Spec
=============================================================================
