------------------------------- MODULE Lists -------------------------------
(***************************************************************************)
(* What kernel/adt/list.h promises: lists are sequences of items, and an   *)
(* item is in at most one of them.  The other modules of this project use  *)
(* the kernel's lists in this form, through the operators of KList.        *)
(***************************************************************************)
EXTENDS Sequences, KList

CONSTANTS List, Link, NULL

VARIABLES contents,   \* the items of every list
          result      \* what the last operation returned

vars == <<contents, result>>

Linked == UNION {Items(contents[l]) : l \in List}

Init == contents = [l \in List |-> << >>] /\ result = NULL

AppendItem(l, x) ==
  /\ x \notin Linked
  /\ contents' = [contents EXCEPT ![l] = list_append(@, x)]
  /\ result' = NULL

PrependItem(l, x) ==
  /\ x \notin Linked
  /\ contents' = [contents EXCEPT ![l] = <<x>> \o @]
  /\ result' = NULL

RemoveItem(x) ==
  /\ contents' = [l \in List |-> list_remove(contents[l], x)]
  /\ result' = NULL

First(l) == IF contents[l] = << >> THEN NULL ELSE Head(contents[l])

PopItem(l) ==
  /\ contents' = [contents EXCEPT ![l] = IF @ = << >> THEN @ ELSE Tail(@)]
  /\ result' = First(l)

Rotate(l) ==
  /\ contents' = [contents EXCEPT ![l] = list_rotate(@)]
  /\ result' = First(l)

Next ==
  \/ \E l \in List, x \in Link : AppendItem(l, x) \/ PrependItem(l, x)
  \/ \E x \in Link : RemoveItem(x)
  \/ \E l \in List : PopItem(l) \/ Rotate(l)

Spec == Init /\ [][Next]_vars
=============================================================================
