------------------------------- MODULE KList -------------------------------
(***************************************************************************)
(* The kernel's circular list (kernel/adt/list.h) seen through its         *)
(* operations: a list is the sequence of its items from head.next round    *)
(* to head.prev.  An item is in at most one list, so a sequence of items   *)
(* without repetitions is all that callers can observe.                    *)
(***************************************************************************)
LOCAL INSTANCE Naturals
LOCAL INSTANCE Sequences

(* The items of a list, in no order. *)
Items(list) == {list[i] : i \in 1 .. Len(list)}

(* No item is linked twice. *)
NoRepeats(list) == \A i, j \in 1 .. Len(list) : list[i] = list[j] => i = j

(* link_connected: an item is linked somewhere; here, into this list. *)
link_connected(list, item) == \E i \in 1 .. Len(list) : list[i] = item

list_append(list, item) == Append(list, item)

(* Position of a linked item. *)
Position(list, item) == CHOOSE i \in 1 .. Len(list) : list[i] = item

(* list_remove: an item that is not linked is left alone. *)
list_remove(list, item) ==
  IF link_connected(list, item)
  THEN LET p == Position(list, item)
       IN  [i \in 1 .. Len(list) - 1 |-> IF i < p THEN list[i] ELSE list[i + 1]]
  ELSE list

(* list_rotate: pop the first item and append it back. *)
list_rotate(list) ==
  IF list = << >> THEN list ELSE list_append(Tail(list), Head(list))
=============================================================================
