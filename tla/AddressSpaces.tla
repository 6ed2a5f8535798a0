--------------------------- MODULE AddressSpaces ---------------------------
(***************************************************************************)
(* Virtual memory maps (kernel/mm/vmm.c) and the software-filled TLB       *)
(* (kernel/mm/tlb.c) of one CPU.  Every operation runs with interrupts     *)
(* disabled and is one action; what interleaves is the order in which      *)
(* threads of different address spaces map, unmap, touch pages and fault.  *)
(* Addresses are counted in pages; frame_alloc and frame_free are external *)
(* and hand out runs of frames.                                            *)
(***************************************************************************)
EXTENDS Naturals, FiniteSets

CONSTANTS Space,       \* struct vmm that malloc can hand out
          First,       \* the address space of the boot threads
          ASIDS,       \* values of asid_t
          VMAS,        \* slots for areas in a map
          PAGES,       \* virtual pages, an even number
          AUTO_LIMIT,  \* pages below it are searched by VF_VA_AUTO (0x40000)
          FRAMES,      \* physical frames
          ENTRIES,     \* TLB entries (CP0_INDEX_INDEX_COUNT)
          Counts,      \* sizes of areas in pages
          PAGE_SIZE,   \* bytes in a page, for vma_check_user
          NONE         \* an invalid half of a TLB entry, an unmapped page

VARIABLES created,     \* the address spaces that exist
          asid,        \* vmm->asid
          vma,         \* vmm->vma
          last_asid,   \* the counter of address space identifiers
          used,        \* frames handed out by the frame allocator
          cur,         \* thread_get_current ()->vmm, whose asid is in EntryHi
          tlb          \* the entries of the TLB

vars == <<created, asid, vma, last_asid, used, cur, tlb>>

Asid == 0 .. ASIDS - 1
Slot == 0 .. VMAS - 1
Page == 0 .. PAGES - 1
Frame == 0 .. FRAMES - 1
Entry == 0 .. ENTRIES - 1

ASSUME SpaceAssumption ==
  /\ First \in Space
  /\ ASIDS \in Nat \ {0} /\ VMAS \in Nat \ {0} /\ ENTRIES \in Nat \ {0}
  /\ FRAMES \in Nat \ {0} /\ PAGES \in Nat \ {0}
  /\ AUTO_LIMIT \in 0 .. PAGES
  /\ PAGE_SIZE \in Nat \ {0}
  /\ Counts \subseteq Nat \ {0}
  /\ NONE \notin Nat

NoArea == [valid |-> FALSE, vpn_base |-> 0, pfn_base |-> 0, count |-> 0]

Pages(area) == area.vpn_base .. area.vpn_base + area.count - 1

Run(pfn, count) == pfn .. pfn + count - 1

(* tlb_init leaves the identifier of no address space in every entry. *)
tlb_init == [i \in Entry |-> [vpn2 |-> 0, asid |-> ASIDS - 1, lo |-> [h \in 0 .. 1 |-> NONE]]]

Init ==
  /\ created = {First}
  /\ asid = [s \in Space |-> 0]
  /\ vma = [s \in Space |-> [i \in Slot |-> NoArea]]
  /\ last_asid = 1 % ASIDS
  /\ used = {}
  /\ cur = First
  /\ tlb = tlb_init

-----------------------------------------------------------------------------
(* vmm_mapping_find: the first area, in the order of slots, that holds the *)
(* page.                                                                   *)
Holding(s, vpn) == {i \in Slot : vma[s][i].valid /\ vpn \in Pages(vma[s][i])}

FirstSlot(slots) == CHOOSE i \in slots : \A j \in slots : i <= j

vmm_mapping_find(s, vpn) ==
  IF Holding(s, vpn) = {} THEN NONE
  ELSE LET area == vma[s][FirstSlot(Holding(s, vpn))]
       IN  area.pfn_base + (vpn - area.vpn_base)

vmm_create(s) ==
  /\ s \notin created
  /\ created' = created \cup {s}
  /\ asid' = [asid EXCEPT ![s] = last_asid]
  /\ vma' = [vma EXCEPT ![s] = [i \in Slot |-> NoArea]]
  /\ last_asid' = (last_asid + 1) % ASIDS
  /\ UNCHANGED <<used, cur, tlb>>

(* cpu_switch_context to a thread of another address space. *)
switch(s) ==
  /\ s \in created
  /\ s # cur
  /\ cur' = s
  /\ UNCHANGED <<created, asid, vma, last_asid, used, tlb>>

(***************************************************************************)
(* vma_map.  The callers keep to what vmm.c says of itself: it works for   *)
(* small address spaces and does not handle an area that overlaps another. *)
(***************************************************************************)
FreeSlots == {i \in Slot : ~vma[cur][i].valid}

Overlaps(vpn, count) ==
  \E i \in Slot : vma[cur][i].valid /\ Pages(vma[cur][i]) \cap Run(vpn, count) # {}

MapAtUnreserved(vpn, count) ==   \* mutant: frames in use are taken again
  /\ FreeSlots # {}
  /\ \E pfn \in Frame :
       /\ Run(pfn, count) \subseteq Frame
       /\ vma' = [vma EXCEPT ![cur][FirstSlot(FreeSlots)] =
                    [valid |-> TRUE, vpn_base |-> vpn, pfn_base |-> pfn, count |-> count]]
  /\ UNCHANGED <<created, asid, last_asid, used, cur, tlb>>

(* Fill the first free slot with a run of frames; without a slot or frames *)
(* (or when the caller passed an unaligned address or size) the call fails *)
(* and changes nothing.                                                    *)
MapAt(vpn, count) ==
  \/ /\ FreeSlots # {}
     /\ \E pfn \in Frame :
          /\ Run(pfn, count) \subseteq Frame \ used
          /\ used' = used \cup Run(pfn, count)
          /\ vma' = [vma EXCEPT ![cur][FirstSlot(FreeSlots)] =
                       [valid |-> TRUE, vpn_base |-> vpn, pfn_base |-> pfn, count |-> count]]
     /\ UNCHANGED <<created, asid, last_asid, cur, tlb>>
  \/ UNCHANGED vars

vma_map_user(vpn, count) ==
  /\ vpn + count <= PAGES
  /\ ~Overlaps(vpn, count)
  /\ MapAt(vpn, count)

(* The page behind the last area that starts below the limit; 0 if none. *)
AutoPage ==
  LET ends == {vma[cur][i].vpn_base + vma[cur][i].count :
                 i \in {j \in Slot : vma[cur][j].valid /\ vma[cur][j].vpn_base < AUTO_LIMIT}}
  IN  IF ends = {} THEN 0 ELSE CHOOSE e \in ends : \A f \in ends : f <= e

vma_map_auto(count) ==
  \/ /\ AutoPage = 0
     /\ UNCHANGED vars
  \/ /\ AutoPage # 0
     /\ AutoPage + count <= AUTO_LIMIT
     /\ MapAt(AutoPage, count)

-----------------------------------------------------------------------------
(* The TLB entries that match a page in the current address space. *)
Matches(t, vpn) == {i \in Entry : t[i].vpn2 = vpn \div 2 /\ t[i].asid = asid[cur]}

Invalid(t, indices) ==
  [i \in Entry |-> IF i \in indices THEN [t[i] EXCEPT !.lo = [h \in 0 .. 1 |-> NONE]] ELSE t[i]]

tlb_flush_base(t, area) == Invalid(t, Matches(t, area.vpn_base))   \* mutant: one page

(* tlb_flush of every page of an area: the entries that match keep their   *)
(* page number and identifier, both halves become invalid.                 *)
tlb_flush(t, area) == Invalid(t, UNION {Matches(t, vpn) : vpn \in Pages(area)})

(* vma_unmap; the other fields of a slot that is not valid are dead. *)
vma_unmap(vpn) ==
  LET slots == {i \in Slot : vma[cur][i].valid /\ vma[cur][i].vpn_base = vpn}
      slot  == FirstSlot(slots)
      area  == vma[cur][slot]
  IN  \/ /\ slots = {}
         /\ UNCHANGED vars
      \/ /\ slots # {}
         /\ used' = used \ Run(area.pfn_base, area.count)
         /\ tlb' = tlb_flush(tlb, area)
         /\ vma' = [vma EXCEPT ![cur][slot] = NoArea]
         /\ UNCHANGED <<created, asid, last_asid, cur>>

(* The instructions tlbr, tlbwi and tlbwr. *)
tlb_read(i) == tlb[i]

tlb_write_indexed(i, entry) == tlb' = [tlb EXCEPT ![i] = entry]

tlb_write_random(entry) == \E i \in Entry : tlb_write_indexed(i, entry)

(* tlb_store_random: some entry gets the page, the other half is invalid. *)
tlb_store_random(vpn, pfn) ==
  tlb_write_random([vpn2 |-> vpn \div 2, asid |-> asid[cur],
                    lo |-> [h \in 0 .. 1 |-> IF h = vpn % 2 THEN pfn ELSE NONE]])

tlb_store_anywhere(vpn, pfn) == tlb_store_random(vpn, pfn)   \* mutant of the next

(* tlb_store_indexed: the half of the matching entry is replaced. *)
tlb_store_indexed(vpn, pfn) ==
  \E i \in Matches(tlb, vpn) :
    tlb_write_indexed(i, [tlb_read(i) EXCEPT !.lo[vpn % 2] = pfn])

(***************************************************************************)
(* A thread of the current address space touches a page.  Without a        *)
(* matching entry the refill handler runs, or the general one when the     *)
(* CPU is already in an exception; with an invalid half the general one.   *)
(* A page that is not mapped ends the thread and leaves the maps alone.    *)
(***************************************************************************)
wrapped_tlb_refill(vpn) ==
  /\ Matches(tlb, vpn) = {}
  /\ \/ /\ vmm_mapping_find(cur, vpn) = NONE
        /\ UNCHANGED tlb
     \/ /\ vmm_mapping_find(cur, vpn) # NONE
        /\ tlb_store_random(vpn, vmm_mapping_find(cur, vpn))
  /\ UNCHANGED <<created, asid, vma, last_asid, used, cur>>

tlb_invalid(vpn) ==
  /\ \A i \in Matches(tlb, vpn) : tlb[i].lo[vpn % 2] = NONE
  /\ \/ /\ vmm_mapping_find(cur, vpn) = NONE
        /\ UNCHANGED tlb
     \/ /\ vmm_mapping_find(cur, vpn) # NONE
        /\ Matches(tlb, vpn) = {}
        /\ tlb_store_random(vpn, vmm_mapping_find(cur, vpn))
     \/ /\ vmm_mapping_find(cur, vpn) # NONE
        /\ Matches(tlb, vpn) # {}
        /\ tlb_store_indexed(vpn, vmm_mapping_find(cur, vpn))
  /\ UNCHANGED <<created, asid, vma, last_asid, used, cur>>

(* The general exception with a TLB cause; no other cause touches the maps. *)
wrapped_general(vpn) == tlb_invalid(vpn)

(* Values of uintptr_t and size_t. *)
Address == 0 .. PAGES * PAGE_SIZE - 1

uintptr(n) == n % (PAGES * PAGE_SIZE)

(* Mutant: only the first page is checked. *)
vma_check_start(addr, size) ==
  \E i \in Slot : vma[cur][i].valid /\ addr \div PAGE_SIZE \in Pages(vma[cur][i])

(* vma_check_user, for any address and any size_t; the sum is computed on  *)
(* uintptr_t and wraps at the end of the address space.                    *)
vma_check_user(addr, size) ==
  LET vpn_start == addr \div PAGE_SIZE
      vpn_end   == uintptr(addr + size) \div PAGE_SIZE
  IN  \E i \in Slot : vma[cur][i].valid /\ {vpn_start, vpn_end} \subseteq Pages(vma[cur][i])

-----------------------------------------------------------------------------
Next ==
  \/ \E s \in Space : vmm_create(s) \/ switch(s)
  \/ \E vpn \in Page, count \in Counts : vma_map_user(vpn, count)
  \/ \E count \in Counts : vma_map_auto(count)
  \/ \E vpn \in Page : vma_unmap(vpn) \/ wrapped_tlb_refill(vpn) \/ wrapped_general(vpn)

Spec == Init /\ [][Next]_vars

-----------------------------------------------------------------------------
TypeOK ==
  /\ created \subseteq Space
  /\ asid \in [Space -> Asid]
  /\ vma \in [Space -> [Slot -> [valid : BOOLEAN, vpn_base : Page, pfn_base : Frame, count : 0 .. PAGES]]]
  /\ last_asid \in Asid
  /\ used \subseteq Frame
  /\ cur \in created
  /\ tlb \in [Entry -> [vpn2 : 0 .. PAGES \div 2, asid : Asid, lo : [0 .. 1 -> Frame \cup {NONE}]]]

(***************************************************************************)
(* The TLB never disagrees with the maps: a valid half of an entry with    *)
(* the identifier of an address space is what vmm_mapping_find says of     *)
(* that page there.  After vma_unmap, a reuse of the frame or a switch, no *)
(* thread reaches memory through a translation that was cancelled.         *)
(***************************************************************************)
TLBCoherent ==
  \A i \in Entry, h \in 0 .. 1 :
    tlb[i].lo[h] # NONE =>
      \A s \in created : asid[s] = tlb[i].asid =>
        vmm_mapping_find(s, 2 * tlb[i].vpn2 + h) = tlb[i].lo[h]

(***************************************************************************)
(* No two entries match the same page of an address space, which would     *)
(* shut the TLB down.                                                      *)
(***************************************************************************)
NoDoubleMatch ==
  \A s \in created, i, j \in Entry :
    tlb[i].vpn2 = tlb[j].vpn2 /\ tlb[i].asid = asid[s] /\ tlb[j].asid = asid[s] => i = j

(***************************************************************************)
(* Address spaces are isolated: no frame is mapped twice, and what is      *)
(* mapped is exactly what the frame allocator has handed out.              *)
(***************************************************************************)
Areas == {x \in created \X Slot : vma[x[1]][x[2]].valid}

FramesOf(x) == Run(vma[x[1]][x[2]].pfn_base, vma[x[1]][x[2]].count)

FramesPrivate ==
  /\ TypeOK
  /\ \A x, y \in Areas : x # y => FramesOf(x) \cap FramesOf(y) = {}
  /\ used = UNION {FramesOf(x) : x \in Areas}

(***************************************************************************)
(* "@return True if the memory area is mapped" (vmm.c:225).  What the code *)
(* guarantees when it accepts an address and any size_t: every byte        *)
(* between the address and the wrapped sum, on whichever side of it the    *)
(* sum lies, is mapped.  Hence an area that ends within the address space  *)
(* is mapped to its last byte.  Of an area whose end wraps these are not   *)
(* the bytes, and the comment is not kept (README, observations).          *)
(***************************************************************************)
Bytes(addr, size) == addr .. addr + size - 1

Between(a, b) == {n \in Address : (a <= n /\ n <= b) \/ (b <= n /\ n <= a)}

Mapped(byte) == vmm_mapping_find(cur, byte \div PAGE_SIZE) # NONE

CheckUserSound ==
  \A addr, size \in Address : vma_check_user(addr, size) =>
    /\ \A byte \in Between(addr, uintptr(addr + size)) : Mapped(byte)
    /\ addr + size \in Address => \A byte \in Bytes(addr, size) : Mapped(byte)

=============================================================================
