------------------------ MODULE AddressSpacesProofs ------------------------
(***************************************************************************)
(* Proofs about AddressSpaces, for any number of address spaces, slots,    *)
(* pages, frames and TLB entries.                                          *)
(***************************************************************************)
EXTENDS AddressSpaces, FiniteSetTheorems, WellFoundedInduction, NaturalsInduction, TLAPS

(* No two areas of a map share a page, and every area lies in the address  *)
(* space: vma_map is only asked for what is free, or finds it itself.      *)
AreasApart ==
  \A s \in created, i \in Slot : vma[s][i].valid =>
    /\ vma[s][i].count > 0
    /\ vma[s][i].vpn_base + vma[s][i].count <= PAGES
    /\ \A j \in Slot : vma[s][j].valid /\ i # j =>
         Pages(vma[s][i]) \cap Pages(vma[s][j]) = {}

MapInv == FramesPrivate /\ AreasApart

(* Identifiers are handed out once, in order, and never reach the one that *)
(* tlb_init leaves in the entries.                                         *)
AsidInv ==
  /\ IsFiniteSet(created)
  /\ last_asid = Cardinality(created)
  /\ \A s \in created : asid[s] < last_asid
  /\ \A s, r \in created : asid[s] = asid[r] => s = r

(* An entry belongs to an address space that exists, or to none. *)
EntriesOwned ==
  \A i \in Entry : tlb[i].asid = ASIDS - 1 \/ \E s \in created : tlb[i].asid = asid[s]

TLBInv == AsidInv /\ EntriesOwned /\ NoDoubleMatch /\ TLBCoherent

(* "The number of address space identifiers (ASIDs) that can ever operate  *)
(* in the system is limited to 254" (vmm.c:38), one less than 255, which   *)
(* tlb_init uses.                                                          *)
FewSpaces == IsFiniteSet(Space) /\ Cardinality(Space) < ASIDS

-----------------------------------------------------------------------------
(* A nonempty set of naturals has a least element. *)
LEMMA LeastNat ==
  ASSUME NEW T, T \subseteq Nat, T # {}
  PROVE  \E i \in T : \A j \in T : i <= j
<1>1. PICK i \in T : \A j \in T : ~(<<j, i>> \in OpToRel(<, Nat))
  BY WFMin, NatLessThanWellFounded
<1>2. \A j \in T : ~(j < i)
  BY <1>1 DEF OpToRel
<1> QED BY <1>2

(* A nonempty set of naturals with a bound has a greatest element. *)
LEMMA GreatestNat ==
  ASSUME NEW T, T \subseteq Nat, T # {}, NEW b \in Nat, \A e \in T : e <= b
  PROVE  \E e \in T : \A f \in T : f <= e
<1> DEFINE U == {n \in Nat : b - n \in T}
<1>1. U # {}
  <2>1. PICK e \in T : TRUE
    OBVIOUS
  <2>2. b - e \in Nat /\ b - (b - e) = e
    BY <2>1
  <2> QED BY <2>1, <2>2
<1>2. PICK n \in U : \A m \in U : n <= m
  <2> HIDE DEF U
  <2>1. U \subseteq Nat
    BY DEF U
  <2> QED BY <1>1, <2>1, LeastNat
<1>3. b - n \in T
  BY <1>2
<1>4. ASSUME NEW f \in T PROVE f <= b - n
  <2>1. b - f \in Nat /\ b - (b - f) = f
    OBVIOUS
  <2>2. b - f \in U
    BY <2>1
  <2>3. n <= b - f
    BY <1>2, <2>2
  <2> QED BY <2>3, <1>2
<1> QED BY <1>3, <1>4

(* The linear searches for a slot find one of those they look for. *)
LEMMA FirstSlotIn ==
  ASSUME NEW S, S \subseteq Slot, S # {}
  PROVE  FirstSlot(S) \in S
<1>1. S \subseteq Nat
  BY SpaceAssumption DEF Slot
<1>2. \E i \in S : \A j \in S : i <= j
  BY <1>1, LeastNat
<1> QED BY <1>2 DEF FirstSlot

(* FramesPrivate slot by slot. *)
FramesAt(s, i) == Run(vma[s][i].pfn_base, vma[s][i].count)

Private ==
  /\ TypeOK
  /\ \A s, r \in created : \A i, j \in Slot :
       /\ vma[s][i].valid /\ vma[r][j].valid
       /\ s # r \/ i # j
       => FramesAt(s, i) \cap FramesAt(r, j) = {}
  /\ \A f : f \in used <=> \E s \in created, i \in Slot : vma[s][i].valid /\ f \in FramesAt(s, i)

LEMMA PrivateForm == FramesPrivate <=> Private
<1>1. \A x \in Areas : /\ x[1] \in created /\ x[2] \in Slot /\ x = <<x[1], x[2]>>
                       /\ vma[x[1]][x[2]].valid /\ FramesOf(x) = FramesAt(x[1], x[2])
  BY DEF Areas, FramesOf, FramesAt
<1>2. \A s \in created, i \in Slot : vma[s][i].valid =>
        <<s, i>> \in Areas /\ FramesOf(<<s, i>>) = FramesAt(s, i)
  BY DEF Areas, FramesOf, FramesAt
<1>3. (\A x, y \in Areas : x # y => FramesOf(x) \cap FramesOf(y) = {}) <=>
      (\A s, r \in created : \A i, j \in Slot :
         /\ vma[s][i].valid /\ vma[r][j].valid
         /\ s # r \/ i # j
         => FramesAt(s, i) \cap FramesAt(r, j) = {})
  <2>1. ASSUME \A x, y \in Areas : x # y => FramesOf(x) \cap FramesOf(y) = {},
               NEW s \in created, NEW r \in created, NEW i \in Slot, NEW j \in Slot,
               vma[s][i].valid, vma[r][j].valid, s # r \/ i # j
        PROVE  FramesAt(s, i) \cap FramesAt(r, j) = {}
    <3>1. <<s, i>> # <<r, j>>
      BY <2>1
    <3> QED BY <2>1, <3>1, <1>2
  <2>2. ASSUME \A s, r \in created : \A i, j \in Slot :
                 /\ vma[s][i].valid /\ vma[r][j].valid
                 /\ s # r \/ i # j
                 => FramesAt(s, i) \cap FramesAt(r, j) = {},
               NEW x \in Areas, NEW y \in Areas, x # y
        PROVE  FramesOf(x) \cap FramesOf(y) = {}
    <3>1. x[1] # y[1] \/ x[2] # y[2]
      BY <1>1, <2>2
    <3> QED BY <1>1, <2>2, <3>1
  <2> QED BY <2>1, <2>2
<1>4. (used = UNION {FramesOf(x) : x \in Areas}) <=>
      (\A f : f \in used <=> \E s \in created, i \in Slot : vma[s][i].valid /\ f \in FramesAt(s, i))
  <2>1. \A f : f \in UNION {FramesOf(x) : x \in Areas} <=> \E x \in Areas : f \in FramesOf(x)
    OBVIOUS
  <2>2. \A f : (\E x \in Areas : f \in FramesOf(x)) <=>
               \E s \in created, i \in Slot : vma[s][i].valid /\ f \in FramesAt(s, i)
    BY <1>1, <1>2
  <2> QED BY <2>1, <2>2
<1> QED BY <1>3, <1>4 DEF FramesPrivate, Private

LEMMA PrivateForm2 == FramesPrivate' <=> Private'
BY PrivateForm, PTL

-----------------------------------------------------------------------------
(* An area, and the empty slot. *)
Area == [valid : BOOLEAN, vpn_base : Page, pfn_base : Frame, count : 0 .. PAGES]

LEMMA NoAreaType == NoArea \in Area /\ ~NoArea.valid
BY SpaceAssumption DEF NoArea, Area, Page, Frame

LEMMA InitMap == Init => MapInv
<1> SUFFICES ASSUME Init PROVE MapInv
  OBVIOUS
<1>1. created = {First} /\ First \in Space /\ used = {} /\ cur = First
  BY SpaceAssumption DEF Init
<1>2. vma \in [Space -> [Slot -> Area]]
  BY NoAreaType DEF Init
<1>3. \A s \in Space, i \in Slot : ~vma[s][i].valid
  BY NoAreaType DEF Init
<1>4. asid \in [Space -> Asid] /\ last_asid \in Asid
  BY SpaceAssumption DEF Init, Asid
<1>5. tlb \in [Entry -> [vpn2 : 0 .. PAGES \div 2, asid : Asid, lo : [0 .. 1 -> Frame \cup {NONE}]]]
  <2>1. 0 \in 0 .. PAGES \div 2 /\ ASIDS - 1 \in Asid
    BY SpaceAssumption DEF Asid
  <2> QED BY <2>1 DEF Init, tlb_init
<1>6. TypeOK
  BY <1>1, <1>2, <1>4, <1>5 DEF TypeOK, Area
<1>7. Private
  BY <1>1, <1>3, <1>6 DEF Private
<1>8. AreasApart
  BY <1>1, <1>3 DEF AreasApart
<1> QED BY <1>7, <1>8, PrivateForm DEF MapInv

(* A step that leaves the maps alone. *)
LEMMA MapStay ==
  ASSUME MapInv, TypeOK', UNCHANGED <<created, vma, used>>
  PROVE  MapInv'
<1>1. Private
  BY PrivateForm DEF MapInv
<1>2. Private'
  BY <1>1 DEF Private, FramesAt
<1>3. AreasApart'
  BY DEF MapInv, AreasApart
<1> QED BY <1>2, <1>3, PrivateForm2 DEF MapInv

(* A new map is empty. *)
LEMMA MapCreate ==
  ASSUME MapInv, NEW s \in Space, vmm_create(s)
  PROVE  MapInv'
<1>0. /\ s \notin created
      /\ created' = created \cup {s}
      /\ asid' = [asid EXCEPT ![s] = last_asid]
      /\ vma' = [vma EXCEPT ![s] = [i \in Slot |-> NoArea]]
      /\ last_asid' = (last_asid + 1) % ASIDS
      /\ UNCHANGED <<used, cur, tlb>>
  BY DEF vmm_create
<1>1. Private /\ TypeOK
  BY PrivateForm DEF MapInv, FramesPrivate
<1>2. /\ \A i \in Slot : ~vma'[s][i].valid
      /\ \A r \in created : vma'[r] = vma[r]
  BY <1>0, <1>1, NoAreaType DEF TypeOK
<1>3. TypeOK'
  <2>1. last_asid' \in Asid
    <3>1. last_asid + 1 \in Nat /\ ASIDS \in Nat \ {0}
      BY <1>1, SpaceAssumption DEF TypeOK, Asid
    <3>2. (last_asid + 1) % ASIDS \in 0 .. ASIDS - 1
      BY <3>1
    <3> QED BY <1>0, <3>2 DEF Asid
  <2>2. vma' \in [Space -> [Slot -> Area]]
    BY <1>0, <1>1, NoAreaType DEF TypeOK, Area
  <2> QED BY <1>0, <1>1, <2>1, <2>2 DEF TypeOK, Area
<1>4. Private'
  <2>1. \A r \in created', i \in Slot : vma'[r][i].valid =>
          r \in created /\ vma[r][i].valid /\ FramesAt(r, i)' = FramesAt(r, i)
    BY <1>0, <1>2 DEF FramesAt
  <2>2. \A r \in created, i \in Slot : vma[r][i].valid =>
          r \in created' /\ vma'[r][i].valid /\ FramesAt(r, i)' = FramesAt(r, i)
    BY <1>0, <1>2 DEF FramesAt
  <2>3. \A q, r \in created' : \A i, j \in Slot :
          /\ vma'[q][i].valid /\ vma'[r][j].valid
          /\ q # r \/ i # j
          => FramesAt(q, i)' \cap FramesAt(r, j)' = {}
    BY <1>1, <2>1 DEF Private
  <2>4. ASSUME NEW f
        PROVE  f \in used' <=> \E r \in created', i \in Slot : vma'[r][i].valid /\ f \in FramesAt(r, i)'
    <3>1. f \in used <=> \E r \in created, i \in Slot : vma[r][i].valid /\ f \in FramesAt(r, i)
      BY <1>1 DEF Private
    <3> QED BY <1>0, <2>1, <2>2, <3>1
  <2> QED BY <1>3, <2>3, <2>4 DEF Private
<1>5. AreasApart'
  BY <1>0, <1>2 DEF MapInv, AreasApart
<1> QED BY <1>4, <1>5, PrivateForm2 DEF MapInv

(* vma_map of pages that no area of the current map holds: what it fills   *)
(* is an empty slot.                                                       *)
LEMMA MapFills ==
  ASSUME MapInv, NEW vpn \in Page, NEW count \in Counts, vpn + count <= PAGES,
         MapAt(vpn, count)
  PROVE  \/ UNCHANGED vars
         \/ \E pfn \in Frame, k \in Slot :
              /\ cur \in created /\ ~vma[cur][k].valid
              /\ Run(pfn, count) \subseteq Frame \ used
              /\ used' = used \cup Run(pfn, count)
              /\ vma'[cur][k] = [valid |-> TRUE, vpn_base |-> vpn, pfn_base |-> pfn, count |-> count]
              /\ \A s \in Space, i \in Slot : s # cur \/ i # k => vma'[s][i] = vma[s][i]
              /\ vma' \in [Space -> [Slot -> Area]]
              /\ UNCHANGED <<created, asid, last_asid, cur, tlb>>
<1> SUFFICES ASSUME ~UNCHANGED vars
             PROVE  \E pfn \in Frame, k \in Slot :
              /\ cur \in created /\ ~vma[cur][k].valid
              /\ Run(pfn, count) \subseteq Frame \ used
              /\ used' = used \cup Run(pfn, count)
              /\ vma'[cur][k] = [valid |-> TRUE, vpn_base |-> vpn, pfn_base |-> pfn, count |-> count]
              /\ \A s \in Space, i \in Slot : s # cur \/ i # k => vma'[s][i] = vma[s][i]
              /\ vma' \in [Space -> [Slot -> Area]]
              /\ UNCHANGED <<created, asid, last_asid, cur, tlb>>
  OBVIOUS
<1> DEFINE k == FirstSlot(FreeSlots)
           a(p) == [valid |-> TRUE, vpn_base |-> vpn, pfn_base |-> p, count |-> count]
<1>1. PICK pfn \in Frame : /\ Run(pfn, count) \subseteq Frame \ used
                           /\ used' = used \cup Run(pfn, count)
                           /\ vma' = [vma EXCEPT ![cur][k] = a(pfn)]
  BY DEF MapAt
<1>2. k \in Slot /\ ~vma[cur][k].valid
  <2>1. FreeSlots \subseteq Slot /\ FreeSlots # {}
    BY DEF MapAt, FreeSlots
  <2>2. k \in FreeSlots
    BY <2>1, FirstSlotIn
  <2> QED BY <2>2 DEF FreeSlots
<1>3. cur \in created /\ cur \in Space /\ vma \in [Space -> [Slot -> Area]]
  BY DEF MapInv, FramesPrivate, TypeOK, Area
<1>4. a(pfn) \in Area
  BY SpaceAssumption DEF Area, Page
<1> HIDE DEF k, a
<1>5. /\ vma'[cur][k] = a(pfn)
      /\ \A s \in Space, i \in Slot : s # cur \/ i # k => vma'[s][i] = vma[s][i]
      /\ vma' \in [Space -> [Slot -> Area]]
  BY <1>1, <1>2, <1>3, <1>4
<1>6. UNCHANGED <<created, asid, last_asid, cur, tlb>>
  BY DEF MapAt
<1> QED BY <1>1, <1>2, <1>3, <1>5, <1>6 DEF a

LEMMA MapAtStep ==
  ASSUME MapInv, NEW vpn \in Page, NEW count \in Counts, vpn + count <= PAGES,
         \A i \in Slot : vma[cur][i].valid => Pages(vma[cur][i]) \cap Run(vpn, count) = {},
         MapAt(vpn, count)
  PROVE  MapInv'
<1>1. CASE UNCHANGED vars
  <2>1. TypeOK'
    BY <1>1 DEF vars, MapInv, FramesPrivate, TypeOK
  <2> QED BY <1>1, <2>1, MapStay DEF vars
<1>2. CASE ~UNCHANGED vars
  <2>1. PICK pfn \in Frame, k \in Slot :
              /\ cur \in created /\ ~vma[cur][k].valid
              /\ Run(pfn, count) \subseteq Frame \ used
              /\ used' = used \cup Run(pfn, count)
              /\ vma'[cur][k] = [valid |-> TRUE, vpn_base |-> vpn, pfn_base |-> pfn, count |-> count]
              /\ \A s \in Space, i \in Slot : s # cur \/ i # k => vma'[s][i] = vma[s][i]
              /\ vma' \in [Space -> [Slot -> Area]]
              /\ UNCHANGED <<created, asid, last_asid, cur, tlb>>
    BY <1>2, MapFills
  <2>2. Private /\ TypeOK /\ AreasApart
    BY PrivateForm DEF MapInv, FramesPrivate
  <2>3. created \subseteq Space
    BY <2>2 DEF TypeOK
  <2>4. TypeOK'
    BY <2>1, <2>2 DEF TypeOK, Area
  <2>5. /\ vma'[cur][k].valid
        /\ FramesAt(cur, k)' = Run(pfn, count)
        /\ Pages(vma'[cur][k]) = Run(vpn, count)
        /\ vma'[cur][k].count = count /\ vma'[cur][k].vpn_base = vpn
    BY <2>1 DEF FramesAt, Pages, Run
  <2>6. \A s \in created, i \in Slot : s # cur \/ i # k =>
          /\ vma'[s][i].valid <=> vma[s][i].valid
          /\ FramesAt(s, i)' = FramesAt(s, i)
          /\ Pages(vma'[s][i]) = Pages(vma[s][i])
          /\ vma'[s][i] = vma[s][i]
    BY <2>1, <2>3 DEF FramesAt
  <2>7. \A s \in created, i \in Slot : vma[s][i].valid => FramesAt(s, i) \subseteq used
    BY <2>2 DEF Private
  <2>8. ASSUME NEW s \in created, NEW r \in created, NEW i \in Slot, NEW j \in Slot,
               vma'[s][i].valid, vma'[r][j].valid, s # r \/ i # j
        PROVE  FramesAt(s, i)' \cap FramesAt(r, j)' = {}
    <3>1. CASE s = cur /\ i = k
      BY <2>1, <2>5, <2>6, <2>7, <2>8, <3>1
    <3>2. CASE r = cur /\ j = k
      BY <2>1, <2>5, <2>6, <2>7, <2>8, <3>2
    <3>3. CASE ~(s = cur /\ i = k) /\ ~(r = cur /\ j = k)
      BY <2>2, <2>6, <2>8, <3>3 DEF Private
    <3> QED BY <3>1, <3>2, <3>3
  <2>9. ASSUME NEW f
        PROVE  f \in used' <=> \E s \in created, i \in Slot : vma'[s][i].valid /\ f \in FramesAt(s, i)'
    <3>1. f \in used <=> \E s \in created, i \in Slot : vma[s][i].valid /\ f \in FramesAt(s, i)
      BY <2>2 DEF Private
    <3> QED BY <3>1, <2>1, <2>5, <2>6
  <2>10. Private'
    BY <2>1, <2>4, <2>8, <2>9 DEF Private
  <2>11. AreasApart'
    <3>1. ASSUME NEW s \in created, NEW i \in Slot, vma'[s][i].valid
          PROVE  /\ vma'[s][i].count > 0
                 /\ vma'[s][i].vpn_base + vma'[s][i].count <= PAGES
                 /\ \A j \in Slot : vma'[s][j].valid /\ i # j =>
                      Pages(vma'[s][i]) \cap Pages(vma'[s][j]) = {}
      <4>1. CASE s = cur /\ i = k
        BY <2>1, <2>5, <2>6, <3>1, <4>1, SpaceAssumption
      <4>2. CASE ~(s = cur /\ i = k)
        <5>1. /\ vma'[s][i].count > 0
              /\ vma'[s][i].vpn_base + vma'[s][i].count <= PAGES
          BY <2>2, <2>6, <3>1, <4>2 DEF AreasApart
        <5>2. ASSUME NEW j \in Slot, vma'[s][j].valid, i # j
              PROVE  Pages(vma'[s][i]) \cap Pages(vma'[s][j]) = {}
          <6>1. CASE s = cur /\ j = k
            BY <2>1, <2>5, <2>6, <3>1, <4>2, <5>2, <6>1
          <6>2. CASE ~(s = cur /\ j = k)
            BY <2>2, <2>6, <3>1, <4>2, <5>2, <6>2 DEF AreasApart
          <6> QED BY <6>1, <6>2
        <5> QED BY <5>1, <5>2
      <4> QED BY <4>1, <4>2
    <3> QED BY <2>1, <3>1 DEF AreasApart
  <2> QED BY <2>10, <2>11, PrivateForm2 DEF MapInv
<1> QED BY <1>1, <1>2

LEMMA MapUser ==
  ASSUME MapInv, NEW vpn \in Page, NEW count \in Counts, vma_map_user(vpn, count)
  PROVE  MapInv'
<1>1. /\ vpn + count <= PAGES /\ MapAt(vpn, count)
      /\ \A i \in Slot : vma[cur][i].valid => Pages(vma[cur][i]) \cap Run(vpn, count) = {}
  BY DEF vma_map_user, Overlaps
<1> QED BY <1>1, MapAtStep

(* The page that VF_VA_AUTO chooses lies behind every area that starts     *)
(* below the limit.                                                        *)
LEMMA AutoFree ==
  ASSUME MapInv, NEW count \in Counts, AutoPage # 0, AutoPage + count <= AUTO_LIMIT
  PROVE  /\ AutoPage \in Page /\ AutoPage + count <= PAGES
         /\ \A i \in Slot : vma[cur][i].valid =>
              Pages(vma[cur][i]) \cap Run(AutoPage, count) = {}
<1> DEFINE low  == {j \in Slot : vma[cur][j].valid /\ vma[cur][j].vpn_base < AUTO_LIMIT}
           ends == {vma[cur][i].vpn_base + vma[cur][i].count : i \in low}
<1>1. cur \in created /\ cur \in Space /\ vma[cur] \in [Slot -> Area] /\ PAGES \in Nat
  BY SpaceAssumption DEF MapInv, FramesPrivate, TypeOK, Area
<1>2. \A i \in Slot : vma[cur][i].valid =>
        /\ vma[cur][i].vpn_base \in Nat /\ vma[cur][i].count \in Nat
        /\ vma[cur][i].vpn_base + vma[cur][i].count <= PAGES
  BY <1>1, SpaceAssumption DEF MapInv, AreasApart, Area, Page
<1>3. AutoPage = IF ends = {} THEN 0 ELSE CHOOSE e \in ends : \A f \in ends : f <= e
  BY DEF AutoPage
<1>4. ends # {}
  BY <1>3
<1>5. ends \subseteq Nat /\ \A e \in ends : e <= PAGES
  BY <1>2
<1>6. AutoPage \in ends /\ \A f \in ends : f <= AutoPage
  <2> HIDE DEF ends
  <2>1. \E e \in ends : \A f \in ends : f <= e
    BY <1>1, <1>4, <1>5, GreatestNat
  <2> QED BY <1>3, <1>4, <2>1
<1>7. AutoPage \in Nat /\ count \in Nat \ {0} /\ AUTO_LIMIT \in Nat /\ AUTO_LIMIT <= PAGES
  BY <1>5, <1>6, SpaceAssumption
<1>8. ASSUME NEW i \in Slot, vma[cur][i].valid
      PROVE  Pages(vma[cur][i]) \cap Run(AutoPage, count) = {}
  <2>1. \/ vma[cur][i].vpn_base + vma[cur][i].count <= AutoPage
        \/ vma[cur][i].vpn_base >= AUTO_LIMIT
    BY <1>2, <1>6, <1>7, <1>8
  <2> HIDE DEF low, ends
  <2> QED BY <2>1, <1>2, <1>7, <1>8 DEF Pages, Run
<1> QED BY <1>1, <1>7, <1>8 DEF Page

LEMMA MapAuto ==
  ASSUME MapInv, NEW count \in Counts, vma_map_auto(count)
  PROVE  MapInv'
<1>1. CASE UNCHANGED vars
  <2>1. TypeOK'
    BY <1>1 DEF vars, MapInv, FramesPrivate, TypeOK
  <2> QED BY <1>1, <2>1, MapStay DEF vars
<1>2. CASE AutoPage # 0 /\ AutoPage + count <= AUTO_LIMIT /\ MapAt(AutoPage, count)
  BY <1>2, AutoFree, MapAtStep
<1> QED BY <1>1, <1>2 DEF vma_map_auto

-----------------------------------------------------------------------------
(* An area that holds a page is the only one, so the order of slots does   *)
(* not matter to vmm_mapping_find.                                         *)
LEMMA FindHeld ==
  ASSUME MapInv, NEW s \in created, NEW vpn, NEW i \in Slot,
         vma[s][i].valid, vpn \in Pages(vma[s][i])
  PROVE  vmm_mapping_find(s, vpn) = vma[s][i].pfn_base + (vpn - vma[s][i].vpn_base)
<1>1. i \in Holding(s, vpn) /\ Holding(s, vpn) \subseteq Slot
  BY DEF Holding
<1>2. FirstSlot(Holding(s, vpn)) \in Holding(s, vpn)
  BY <1>1, FirstSlotIn
<1>3. \A j \in Holding(s, vpn) : j = i
  BY DEF Holding, MapInv, AreasApart
<1> QED BY <1>1, <1>2, <1>3 DEF vmm_mapping_find

LEMMA FindNone ==
  ASSUME NEW s \in created, NEW vpn,
         \A i \in Slot : ~(vma[s][i].valid /\ vpn \in Pages(vma[s][i]))
  PROVE  vmm_mapping_find(s, vpn) = NONE
BY DEF vmm_mapping_find, Holding

(* vmm_mapping_find returns a frame, or nothing. *)
LEMMA FindFrame ==
  ASSUME MapInv, NEW s \in created, NEW vpn, NEW i \in Slot,
         vma[s][i].valid, vpn \in Pages(vma[s][i])
  PROVE  vmm_mapping_find(s, vpn) \in Frame
<1>1. Private /\ TypeOK
  BY PrivateForm DEF MapInv, FramesPrivate
<1>2. /\ vma[s][i].vpn_base \in Nat /\ vma[s][i].count \in Nat /\ vma[s][i].pfn_base \in Nat
  BY <1>1, SpaceAssumption DEF TypeOK, Page, Frame
<1>3. vma[s][i].pfn_base + (vpn - vma[s][i].vpn_base) \in FramesAt(s, i)
  BY <1>2 DEF FramesAt, Run, Pages
<1>4. FramesAt(s, i) \subseteq Frame
  BY <1>1 DEF Private, TypeOK
<1> QED BY <1>3, <1>4, FindHeld

(* What vma_unmap does when it finds the area. *)
LEMMA UnmapDoes ==
  ASSUME MapInv, NEW vpn \in Page, vma_unmap(vpn)
  PROVE  \/ UNCHANGED vars
         \/ \E k \in Slot :
              /\ cur \in created /\ vma[cur][k].valid
              /\ used' = used \ FramesAt(cur, k)
              /\ tlb' = tlb_flush(tlb, vma[cur][k])
              /\ ~vma'[cur][k].valid
              /\ \A s \in Space, i \in Slot : s # cur \/ i # k => vma'[s][i] = vma[s][i]
              /\ vma' \in [Space -> [Slot -> Area]]
              /\ UNCHANGED <<created, asid, last_asid, cur>>
<1> DEFINE slots == {i \in Slot : vma[cur][i].valid /\ vma[cur][i].vpn_base = vpn}
           k == FirstSlot(slots)
<1>1. CASE slots = {}
  BY <1>1 DEF vma_unmap
<1>2. CASE slots # {}
  <2>1. k \in slots
    <3>1. slots \subseteq Slot
      OBVIOUS
    <3> HIDE DEF slots
    <3> QED BY <1>2, <3>1, FirstSlotIn
  <2>2. k \in Slot /\ vma[cur][k].valid
    BY <2>1
  <2>3. /\ used' = used \ Run(vma[cur][k].pfn_base, vma[cur][k].count)
        /\ tlb' = tlb_flush(tlb, vma[cur][k])
        /\ vma' = [vma EXCEPT ![cur][k] = NoArea]
        /\ UNCHANGED <<created, asid, last_asid, cur>>
    BY <1>2 DEF vma_unmap
  <2>4. cur \in created /\ cur \in Space /\ vma \in [Space -> [Slot -> Area]]
    BY DEF MapInv, FramesPrivate, TypeOK, Area
  <2> HIDE DEF k
  <2>5. /\ ~vma'[cur][k].valid
        /\ \A s \in Space, i \in Slot : s # cur \/ i # k => vma'[s][i] = vma[s][i]
        /\ vma' \in [Space -> [Slot -> Area]]
    BY <2>2, <2>3, <2>4, NoAreaType
  <2> QED BY <2>2, <2>3, <2>4, <2>5 DEF FramesAt
<1> QED BY <1>1, <1>2

(* Flushing keeps the form of an entry. *)
LEMMA FlushType ==
  ASSUME TypeOK, NEW area
  PROVE  tlb_flush(tlb, area) \in
           [Entry -> [vpn2 : 0 .. PAGES \div 2, asid : Asid, lo : [0 .. 1 -> Frame \cup {NONE}]]]
BY DEF tlb_flush, Invalid, TypeOK

LEMMA MapUnmap ==
  ASSUME MapInv, NEW vpn \in Page, vma_unmap(vpn)
  PROVE  MapInv'
<1>1. CASE UNCHANGED vars
  <2>1. TypeOK'
    BY <1>1 DEF vars, MapInv, FramesPrivate, TypeOK
  <2> QED BY <1>1, <2>1, MapStay DEF vars
<1>2. CASE ~UNCHANGED vars
  <2>1. PICK k \in Slot :
              /\ cur \in created /\ vma[cur][k].valid
              /\ used' = used \ FramesAt(cur, k)
              /\ tlb' = tlb_flush(tlb, vma[cur][k])
              /\ ~vma'[cur][k].valid
              /\ \A s \in Space, i \in Slot : s # cur \/ i # k => vma'[s][i] = vma[s][i]
              /\ vma' \in [Space -> [Slot -> Area]]
              /\ UNCHANGED <<created, asid, last_asid, cur>>
    BY <1>2, UnmapDoes
  <2>2. Private /\ TypeOK /\ AreasApart
    BY PrivateForm DEF MapInv, FramesPrivate
  <2>3. created \subseteq Space
    BY <2>2 DEF TypeOK
  <2>4. TypeOK'
    <3>1. tlb' \in [Entry -> [vpn2 : 0 .. PAGES \div 2, asid : Asid, lo : [0 .. 1 -> Frame \cup {NONE}]]]
      BY <2>1, <2>2, FlushType
    <3> QED BY <2>1, <2>2, <3>1 DEF TypeOK, Area
  <2>5. \A s \in created, i \in Slot : s # cur \/ i # k =>
          vma'[s][i] = vma[s][i] /\ FramesAt(s, i)' = FramesAt(s, i)
    BY <2>1, <2>3 DEF FramesAt
  <2>6. \A s \in created, i \in Slot : vma'[s][i].valid => (s # cur \/ i # k) /\ vma[s][i].valid
    BY <2>1, <2>5
  <2>7. \A s, r \in created : \A i, j \in Slot :
          /\ vma'[s][i].valid /\ vma'[r][j].valid
          /\ s # r \/ i # j
          => FramesAt(s, i)' \cap FramesAt(r, j)' = {}
    BY <2>2, <2>5, <2>6 DEF Private
  <2>8. ASSUME NEW f
        PROVE  f \in used' <=> \E s \in created, i \in Slot : vma'[s][i].valid /\ f \in FramesAt(s, i)'
    <3>1. f \in used <=> \E s \in created, i \in Slot : vma[s][i].valid /\ f \in FramesAt(s, i)
      BY <2>2 DEF Private
    <3>2. ASSUME f \in used'
          PROVE  \E s \in created, i \in Slot : vma'[s][i].valid /\ f \in FramesAt(s, i)'
      <4>1. PICK s \in created, i \in Slot : vma[s][i].valid /\ f \in FramesAt(s, i)
        BY <2>1, <3>1, <3>2
      <4>2. s # cur \/ i # k
        BY <2>1, <3>2, <4>1
      <4> QED BY <4>1, <4>2, <2>5
    <3>3. ASSUME NEW s \in created, NEW i \in Slot, vma'[s][i].valid, f \in FramesAt(s, i)'
          PROVE  f \in used'
      <4>1. /\ s # cur \/ i # k
            /\ vma[s][i].valid /\ f \in FramesAt(s, i)
        BY <2>5, <2>6, <3>3
      <4>2. FramesAt(s, i) \cap FramesAt(cur, k) = {}
        BY <2>1, <2>2, <4>1 DEF Private
      <4> QED BY <2>1, <3>1, <4>1, <4>2
    <3> QED BY <3>2, <3>3
  <2>9. Private'
    BY <2>1, <2>4, <2>7, <2>8 DEF Private
  <2>10. AreasApart'
    <3>1. ASSUME NEW s \in created, NEW i \in Slot, vma'[s][i].valid
          PROVE  /\ vma'[s][i].count > 0
                 /\ vma'[s][i].vpn_base + vma'[s][i].count <= PAGES
                 /\ \A j \in Slot : vma'[s][j].valid /\ i # j =>
                      Pages(vma'[s][i]) \cap Pages(vma'[s][j]) = {}
      <4>1. vma[s][i].valid /\ vma'[s][i] = vma[s][i]
        BY <2>5, <2>6, <3>1
      <4>2. \A j \in Slot : vma'[s][j].valid => vma[s][j].valid /\ vma'[s][j] = vma[s][j]
        BY <2>5, <2>6
      <4> QED BY <2>2, <4>1, <4>2 DEF AreasApart
    <3> QED BY <2>1, <3>1 DEF AreasApart
  <2> QED BY <2>9, <2>10, PrivateForm2 DEF MapInv
<1> QED BY <1>1, <1>2

-----------------------------------------------------------------------------
(* A page is in a half of the pair it belongs to. *)
LEMMA Halves ==
  ASSUME NEW vpn \in Page
  PROVE  /\ vpn \div 2 \in 0 .. PAGES \div 2 /\ vpn % 2 \in 0 .. 1
         /\ 2 * (vpn \div 2) + (vpn % 2) = vpn
<1>1. vpn \in Nat /\ PAGES \in Nat /\ vpn <= PAGES
  BY SpaceAssumption DEF Page
<1>2. ASSUME NEW n \in Nat
      PROVE  n \div 2 \in Nat /\ n % 2 \in 0 .. 1 /\ n = 2 * (n \div 2) + (n % 2)
  OBVIOUS
<1> DEFINE v == vpn \div 2
           w == vpn % 2
           p == PAGES \div 2
           q == PAGES % 2
<1>3. v \in Nat /\ w \in 0 .. 1 /\ vpn = 2 * v + w
  BY <1>1, <1>2
<1>4. p \in Nat /\ q \in 0 .. 1 /\ PAGES = 2 * p + q
  BY <1>1, <1>2
<1> HIDE DEF v, w, p, q
<1>5. v <= p
  BY <1>1, <1>3, <1>4
<1>6. v \in 0 .. p /\ w \in 0 .. 1 /\ 2 * v + w = vpn
  BY <1>3, <1>4, <1>5
<1> QED BY <1>6 DEF v, w, p

(* What the page tables say of a page, when they say something. *)
LEMMA FindMapped ==
  ASSUME MapInv, NEW s \in created, NEW vpn, vmm_mapping_find(s, vpn) # NONE
  PROVE  vmm_mapping_find(s, vpn) \in Frame
<1>1. PICK i \in Slot : vma[s][i].valid /\ vpn \in Pages(vma[s][i])
  BY FindNone
<1> QED BY <1>1, FindFrame

(* What the handlers of a TLB exception do: nothing, fill an entry when    *)
(* none matches, or fill a half of one that does.                          *)
Refilled(vpn, pfn) ==
  \/ UNCHANGED tlb
  \/ /\ Matches(tlb, vpn) = {}
     /\ \E i \in Entry :
          tlb' = [tlb EXCEPT ![i] =
                    [vpn2 |-> vpn \div 2, asid |-> asid[cur],
                     lo |-> [h \in 0 .. 1 |-> IF h = vpn % 2 THEN pfn ELSE NONE]]]
  \/ \E i \in Matches(tlb, vpn) : tlb' = [tlb EXCEPT ![i].lo[vpn % 2] = pfn]

LEMMA Handler ==
  ASSUME NEW vpn \in Page, wrapped_tlb_refill(vpn) \/ wrapped_general(vpn), MapInv
  PROVE  /\ UNCHANGED <<created, asid, vma, last_asid, used, cur>>
         /\ \/ UNCHANGED tlb
            \/ vmm_mapping_find(cur, vpn) \in Frame /\ Refilled(vpn, vmm_mapping_find(cur, vpn))
<1>1. UNCHANGED <<created, asid, vma, last_asid, used, cur>>
  BY DEF wrapped_tlb_refill, wrapped_general, tlb_invalid
<1>2. cur \in created
  BY DEF MapInv, FramesPrivate, TypeOK
<1> DEFINE pfn == vmm_mapping_find(cur, vpn)
<1>3. CASE pfn = NONE
  BY <1>1, <1>3 DEF wrapped_tlb_refill, wrapped_general, tlb_invalid
<1>4. CASE pfn # NONE
  <2>1. pfn \in Frame
    BY <1>2, <1>4, FindMapped
  <2> HIDE DEF pfn
  <2>2. CASE Matches(tlb, vpn) = {} /\ tlb_store_random(vpn, pfn)
    BY <1>1, <2>1, <2>2 DEF tlb_store_random, tlb_write_random, tlb_write_indexed, Refilled, pfn
  <2>3. CASE tlb_store_indexed(vpn, pfn)
    <3>1. PICK i \in Matches(tlb, vpn) : tlb' = [tlb EXCEPT ![i] = [tlb[i] EXCEPT !.lo[vpn % 2] = pfn]]
      BY <2>3 DEF tlb_store_indexed, tlb_write_indexed, tlb_read
    <3>2. tlb' = [tlb EXCEPT ![i].lo[vpn % 2] = pfn]
      BY <3>1
    <3> QED BY <1>1, <2>1, <3>2 DEF Refilled, pfn
  <2> QED BY <1>4, <2>2, <2>3 DEF wrapped_tlb_refill, wrapped_general, tlb_invalid, pfn
<1> QED BY <1>3, <1>4

LEMMA MapHandler ==
  ASSUME MapInv, NEW vpn \in Page, wrapped_tlb_refill(vpn) \/ wrapped_general(vpn)
  PROVE  MapInv'
<1> DEFINE Form == [vpn2 : 0 .. PAGES \div 2, asid : Asid, lo : [0 .. 1 -> Frame \cup {NONE}]]
<1>1. TypeOK /\ tlb \in [Entry -> Form] /\ asid[cur] \in Asid
  BY DEF MapInv, FramesPrivate, TypeOK
<1>2. UNCHANGED <<created, asid, vma, last_asid, used, cur>>
  BY Handler
<1>3. tlb' \in [Entry -> Form]
  <2>1. CASE UNCHANGED tlb
    BY <1>1, <2>1
  <2>2. CASE ~UNCHANGED tlb
    <3> DEFINE pfn == vmm_mapping_find(cur, vpn)
    <3>1. pfn \in Frame /\ Refilled(vpn, pfn)
      BY <2>2, Handler
    <3> HIDE DEF pfn
    <3>2. CASE \E i \in Entry :
          tlb' = [tlb EXCEPT ![i] =
                    [vpn2 |-> vpn \div 2, asid |-> asid[cur],
                     lo |-> [h \in 0 .. 1 |-> IF h = vpn % 2 THEN pfn ELSE NONE]]]
      <4>1. [vpn2 |-> vpn \div 2, asid |-> asid[cur],
             lo |-> [h \in 0 .. 1 |-> IF h = vpn % 2 THEN pfn ELSE NONE]] \in Form
        BY <1>1, <3>1, Halves
      <4> QED BY <1>1, <3>2, <4>1
    <3>3. CASE \E i \in Matches(tlb, vpn) : tlb' = [tlb EXCEPT ![i].lo[vpn % 2] = pfn]
      <4>1. PICK i \in Entry : tlb' = [tlb EXCEPT ![i].lo[vpn % 2] = pfn]
        BY <3>3 DEF Matches
      <4>2. [tlb[i] EXCEPT !.lo[vpn % 2] = pfn] \in Form
        <5>1. tlb[i] \in Form
          BY <1>1
        <5> QED BY <3>1, <5>1
      <4> QED BY <1>1, <4>1, <4>2
    <3> QED BY <2>2, <3>1, <3>2, <3>3 DEF Refilled
  <2> QED BY <2>1, <2>2
<1>4. TypeOK'
  BY <1>1, <1>2, <1>3 DEF TypeOK
<1> QED BY <1>2, <1>4, MapStay

LEMMA NextMap == MapInv /\ [Next]_vars => MapInv'
<1> SUFFICES ASSUME MapInv, [Next]_vars PROVE MapInv'
  OBVIOUS
<1>1. TypeOK
  BY DEF MapInv, FramesPrivate
<1>2. CASE UNCHANGED vars
  <2>1. TypeOK'
    BY <1>1, <1>2 DEF vars, TypeOK
  <2> QED BY <1>2, <2>1, MapStay DEF vars
<1>3. ASSUME NEW s \in Space, vmm_create(s) PROVE MapInv'
  BY <1>3, MapCreate
<1>4. ASSUME NEW s \in Space, switch(s) PROVE MapInv'
  <2>1. TypeOK'
    BY <1>1, <1>4 DEF switch, TypeOK
  <2> QED BY <1>4, <2>1, MapStay DEF switch
<1>5. ASSUME NEW vpn \in Page, NEW count \in Counts, vma_map_user(vpn, count) PROVE MapInv'
  BY <1>5, MapUser
<1>6. ASSUME NEW count \in Counts, vma_map_auto(count) PROVE MapInv'
  BY <1>6, MapAuto
<1>7. ASSUME NEW vpn \in Page, vma_unmap(vpn) PROVE MapInv'
  BY <1>7, MapUnmap
<1>8. ASSUME NEW vpn \in Page, wrapped_tlb_refill(vpn) \/ wrapped_general(vpn) PROVE MapInv'
  BY <1>8, MapHandler
<1> QED BY <1>2, <1>3, <1>4, <1>5, <1>6, <1>7, <1>8 DEF Next

LEMMA MapCorrect == Spec => []MapInv
<1>1. Init => MapInv
  BY InitMap
<1>2. MapInv /\ [Next]_vars => MapInv'
  BY NextMap
<1> QED BY <1>1, <1>2, PTL DEF Spec

(***************************************************************************)
(* Address spaces are isolated, for any number of them: whatever is mapped *)
(* and unmapped, no frame is in two areas, and the frames handed out are   *)
(* those of the areas (vma_map and vma_unmap, vmm.c).                      *)
(***************************************************************************)
THEOREM FramesCorrect == Spec => []FramesPrivate
<1>1. MapInv => FramesPrivate
  BY DEF MapInv
<1> QED BY <1>1, MapCorrect, PTL

-----------------------------------------------------------------------------
(* Division by the page size keeps the order of addresses. *)
LEMMA DivOrder ==
  ASSUME NEW a \in Nat, NEW b \in Nat, a <= b, NEW d \in Nat \ {0}
  PROVE  a \div d \in Int /\ b \div d \in Int /\ a \div d <= b \div d
<1> DEFINE p == a \div d
           q == b \div d
           r == a % d
           t == b % d
<1>1. p \in Int /\ r \in 0 .. d - 1 /\ a = d * p + r
  OBVIOUS
<1>2. q \in Int /\ t \in 0 .. d - 1 /\ b = d * q + t
  OBVIOUS
<1> HIDE DEF p, q, r, t
<1>3. CASE q <= p - 1
  <2>1. d * q <= d * (p - 1)
    BY <1>1, <1>2, <1>3
  <2>2. d * (p - 1) = d * p - d
    BY <1>1
  <2> QED BY <1>1, <1>2, <2>1, <2>2
<1>4. p <= q
  BY <1>1, <1>2, <1>3
<1> QED BY <1>1, <1>2, <1>4 DEF p, q

(* uintptr_t arithmetic stays among the addresses, and changes nothing     *)
(* when the sum does not leave them.                                       *)
LEMMA Uintptr ==
  ASSUME NEW addr \in Address, NEW size \in Address
  PROVE  /\ addr \in Nat /\ size \in Nat /\ PAGE_SIZE \in Nat \ {0}
         /\ uintptr(addr + size) \in Address /\ uintptr(addr + size) \in Nat
         /\ addr + size \in Address => uintptr(addr + size) = addr + size
<1> DEFINE d == PAGES * PAGE_SIZE
           n == addr + size
<1>1. PAGES \in Nat /\ PAGES >= 1 /\ PAGE_SIZE \in Nat /\ PAGE_SIZE >= 1
  BY SpaceAssumption
<1>2. d \in Nat /\ d >= 1
  <2>1. d \in Nat
    BY <1>1
  <2>2. d # 0
    BY <1>1
  <2> QED BY <2>1, <2>2
<1>3. addr \in 0 .. d - 1 /\ size \in 0 .. d - 1 /\ n \in Nat
  BY <1>2 DEF Address
<1> HIDE DEF d, n
<1>4. n % d \in 0 .. d - 1 /\ (n \in 0 .. d - 1 => n % d = n)
  BY <1>2, <1>3
<1> QED BY <1>1, <1>2, <1>3, <1>4 DEF Address, uintptr, d, n

(* A byte that lies between two whose pages are in one area is mapped. *)
LEMMA BetweenMapped ==
  ASSUME MapInv, NEW i \in Slot, vma[cur][i].valid,
         NEW a \in Nat, NEW b \in Nat, NEW byte \in Nat, a <= byte, byte <= b,
         a \div PAGE_SIZE \in Pages(vma[cur][i]), b \div PAGE_SIZE \in Pages(vma[cur][i])
  PROVE  Mapped(byte)
<1>1. /\ a \div PAGE_SIZE <= byte \div PAGE_SIZE
      /\ byte \div PAGE_SIZE <= b \div PAGE_SIZE
      /\ a \div PAGE_SIZE \in Int /\ byte \div PAGE_SIZE \in Int /\ b \div PAGE_SIZE \in Int
  BY SpaceAssumption, DivOrder
<1>2. cur \in created /\ cur \in Space /\ TypeOK
  BY DEF MapInv, FramesPrivate, TypeOK
<1>3. vma[cur][i].vpn_base \in Nat /\ vma[cur][i].count \in Nat
  BY <1>2, SpaceAssumption DEF TypeOK, Page
<1> DEFINE l == a \div PAGE_SIZE
           m == byte \div PAGE_SIZE
           u == b \div PAGE_SIZE
<1>4. /\ l <= m /\ m <= u /\ l \in Int /\ m \in Int /\ u \in Int
      /\ l \in Pages(vma[cur][i]) /\ u \in Pages(vma[cur][i])
  BY <1>1
<1> HIDE DEF l, m, u
<1>5. m \in Pages(vma[cur][i])
  BY <1>3, <1>4 DEF Pages
<1>6. vmm_mapping_find(cur, m) \in Frame
  BY <1>2, <1>5, FindFrame
<1> QED BY <1>6, SpaceAssumption DEF Mapped, Frame, m

(***************************************************************************)
(* vma_check_user (vmm.c:229) looks at two pages only, the one of the      *)
(* address and the one of the sum modulo the address space.  That is       *)
(* enough for every byte between the two, since both are in one area; so   *)
(* what it accepts is mapped to the last byte, unless the end of the area  *)
(* wraps.  For any address, any size_t and any size of pages.              *)
(***************************************************************************)
THEOREM CheckUserCorrect == Spec => []CheckUserSound
<1>1. MapInv => CheckUserSound
  <2> SUFFICES ASSUME MapInv, NEW addr \in Address, NEW size \in Address,
                      vma_check_user(addr, size)
               PROVE  /\ \A byte \in Between(addr, uintptr(addr + size)) : Mapped(byte)
                      /\ addr + size \in Address =>
                           \A byte \in Bytes(addr, size) : Mapped(byte)
    BY DEF CheckUserSound
  <2> DEFINE behind == uintptr(addr + size)
  <2>1. /\ addr \in Nat /\ size \in Nat /\ behind \in Nat
        /\ addr + size \in Address => behind = addr + size
    BY Uintptr
  <2>2. PICK i \in Slot : /\ vma[cur][i].valid
                          /\ addr \div PAGE_SIZE \in Pages(vma[cur][i])
                          /\ behind \div PAGE_SIZE \in Pages(vma[cur][i])
    BY DEF vma_check_user
  <2> HIDE DEF behind
  <2>3. ASSUME NEW byte \in Between(addr, behind)
        PROVE  Mapped(byte)
    <3>1. byte \in Nat
      BY Uintptr DEF Between
    <3>2. CASE addr <= byte /\ byte <= behind
      BY <2>1, <2>2, <3>1, <3>2, BetweenMapped
    <3>3. CASE behind <= byte /\ byte <= addr
      BY <2>1, <2>2, <3>1, <3>3, BetweenMapped
    <3> QED BY <3>2, <3>3 DEF Between
  <2>4. ASSUME addr + size \in Address, NEW byte \in Bytes(addr, size)
        PROVE  Mapped(byte)
    <3>1. byte \in Nat /\ addr <= byte /\ byte <= behind
      BY <2>1, <2>4 DEF Bytes
    <3> QED BY <2>1, <2>2, <3>1, BetweenMapped
  <2> QED BY <2>3, <2>4 DEF behind
<1> QED BY <1>1, MapCorrect, PTL

-----------------------------------------------------------------------------
(* FindHeld in a form that also holds after a step. *)
FindsAreas ==
  \A s \in created, i \in Slot : \A vpn :
    vma[s][i].valid /\ vpn \in Pages(vma[s][i]) =>
      vmm_mapping_find(s, vpn) = vma[s][i].pfn_base + (vpn - vma[s][i].vpn_base)

LEMMA Finds == MapInv => FindsAreas
BY FindHeld DEF FindsAreas

(* A translation stays what it was as long as the area that holds the page *)
(* stays.                                                                  *)
LEMMA FindStays ==
  ASSUME MapInv, MapInv', NEW s \in created, s \in created', NEW vpn,
         vmm_mapping_find(s, vpn) # NONE,
         \A j \in Slot : vma[s][j].valid /\ vpn \in Pages(vma[s][j]) => vma'[s][j] = vma[s][j]
  PROVE  vmm_mapping_find(s, vpn)' = vmm_mapping_find(s, vpn)
<1>1. PICK j \in Slot : vma[s][j].valid /\ vpn \in Pages(vma[s][j])
  BY FindNone
<1>2. vma'[s][j] = vma[s][j]
  BY <1>1
<1>3. vmm_mapping_find(s, vpn) = vma[s][j].pfn_base + (vpn - vma[s][j].vpn_base)
  BY <1>1, FindHeld
<1>4. FindsAreas'
  BY Finds, PTL
<1>5. vma'[s][j].valid /\ vpn \in Pages(vma'[s][j])
  BY <1>1, <1>2
<1>6. vmm_mapping_find(s, vpn)' = vma'[s][j].pfn_base + (vpn - vma'[s][j].vpn_base)
  BY <1>4, <1>5 DEF FindsAreas
<1> QED BY <1>2, <1>3, <1>6

(* The identifiers in use stay below the one in the entries of tlb_init. *)
LEMMA AsidBound ==
  ASSUME FewSpaces, TypeOK, AsidInv
  PROVE  /\ ASIDS \in Nat /\ Cardinality(created) \in Nat /\ Cardinality(created) < ASIDS
         /\ \A s \in created : asid[s] \in Nat /\ asid[s] < ASIDS - 1
<1>1. Cardinality(created) <= Cardinality(Space) /\ Cardinality(created) \in Nat
  BY FS_Subset, FS_CardinalityType DEF FewSpaces, TypeOK
<1>2. Cardinality(Space) \in Nat /\ Cardinality(Space) < ASIDS /\ ASIDS \in Nat
  BY FS_CardinalityType, SpaceAssumption DEF FewSpaces
<1>3. \A s \in created : asid[s] \in Nat /\ asid[s] < Cardinality(created)
  BY SpaceAssumption DEF TypeOK, AsidInv, Asid
<1> QED BY <1>1, <1>2, <1>3

LEMMA InitTLB ==
  ASSUME FewSpaces, Init
  PROVE  TLBInv
<1>1. created = {First} /\ IsFiniteSet(created) /\ Cardinality(created) = 1
  BY FS_Singleton DEF Init
<1>2. 1 < ASIDS /\ ASIDS \in Nat
  <2>1. created \subseteq Space
    BY <1>1, SpaceAssumption
  <2>2. 1 <= Cardinality(Space) /\ Cardinality(Space) \in Nat
    BY <1>1, <2>1, FS_Subset, FS_CardinalityType DEF FewSpaces
  <2> QED BY <2>2, SpaceAssumption DEF FewSpaces
<1>3. last_asid = 1
  BY <1>2 DEF Init
<1>4. \A s \in created : asid[s] = 0
  BY <1>1, SpaceAssumption DEF Init
<1>5. AsidInv
  BY <1>1, <1>3, <1>4 DEF AsidInv
<1>6. \A i \in Entry : tlb[i].asid = ASIDS - 1 /\ \A h \in 0 .. 1 : tlb[i].lo[h] = NONE
  BY DEF Init, tlb_init
<1>7. \A s \in created, i \in Entry : tlb[i].asid # asid[s]
  BY <1>2, <1>4, <1>6
<1> QED BY <1>5, <1>6, <1>7 DEF TLBInv, EntriesOwned, NoDoubleMatch, TLBCoherent

(* A step that keeps the entries and the identifiers, and every            *)
(* translation there was.                                                  *)
LEMMA TLBStay ==
  ASSUME TLBInv, UNCHANGED <<created, asid, last_asid, tlb>>,
         \A s \in created : \A vpn : vmm_mapping_find(s, vpn) # NONE =>
           vmm_mapping_find(s, vpn)' = vmm_mapping_find(s, vpn)
  PROVE  TLBInv'
<1>1. AsidInv' /\ EntriesOwned' /\ NoDoubleMatch'
  BY DEF TLBInv, AsidInv, EntriesOwned, NoDoubleMatch
<1>2. TLBCoherent'
  <2> SUFFICES ASSUME NEW i \in Entry, NEW h \in 0 .. 1, tlb[i].lo[h] # NONE,
                      NEW s \in created, asid[s] = tlb[i].asid
               PROVE  vmm_mapping_find(s, 2 * tlb[i].vpn2 + h)' = tlb[i].lo[h]
    BY DEF TLBCoherent
  <2>1. vmm_mapping_find(s, 2 * tlb[i].vpn2 + h) = tlb[i].lo[h]
    BY DEF TLBInv, TLBCoherent
  <2> QED BY <2>1
<1> QED BY <1>1, <1>2 DEF TLBInv

LEMMA TLBCreate ==
  ASSUME FewSpaces, MapInv, MapInv', TLBInv, NEW s \in Space, vmm_create(s)
  PROVE  TLBInv'
<1>0. /\ s \notin created
      /\ created' = created \cup {s}
      /\ asid' = [asid EXCEPT ![s] = last_asid]
      /\ vma' = [vma EXCEPT ![s] = [i \in Slot |-> NoArea]]
      /\ last_asid' = (last_asid + 1) % ASIDS
      /\ tlb' = tlb
  BY DEF vmm_create
<1>1. TypeOK /\ AsidInv /\ EntriesOwned /\ NoDoubleMatch /\ TLBCoherent
  BY DEF MapInv, FramesPrivate, TLBInv
<1>2. /\ IsFiniteSet(created') /\ Cardinality(created') = Cardinality(created) + 1
      /\ Cardinality(created) \in Nat
  BY <1>0, <1>1, FS_AddElement, FS_CardinalityType DEF AsidInv
<1>3. Cardinality(created) + 1 < ASIDS /\ ASIDS \in Nat
  <2>1. created' \subseteq Space
    BY <1>0, <1>1 DEF TypeOK
  <2>2. Cardinality(created') <= Cardinality(Space) /\ Cardinality(Space) \in Nat
    BY <2>1, FS_Subset, FS_CardinalityType DEF FewSpaces
  <2> QED BY <1>2, <2>2, SpaceAssumption DEF FewSpaces
<1>4. last_asid = Cardinality(created) /\ last_asid' = Cardinality(created) + 1
  <2>1. last_asid = Cardinality(created)
    BY <1>1 DEF AsidInv
  <2> QED BY <1>0, <1>2, <1>3, <2>1
<1>5. /\ asid'[s] = Cardinality(created)
      /\ \A r \in created : asid'[r] = asid[r] /\ asid[r] \in Nat /\ asid[r] < Cardinality(created)
  BY <1>0, <1>1, <1>4, SpaceAssumption DEF TypeOK, AsidInv, Asid
<1>6. AsidInv'
  <2>1. \A r \in created' : asid'[r] < last_asid'
    BY <1>0, <1>2, <1>4, <1>5
  <2>2. \A q, r \in created' : asid'[q] = asid'[r] => q = r
    BY <1>0, <1>1, <1>2, <1>5 DEF AsidInv
  <2> QED BY <1>2, <1>4, <2>1, <2>2 DEF AsidInv
<1>7. \A i \in Entry : tlb[i].asid # asid'[s]
  BY <1>1, <1>2, <1>3, <1>5 DEF EntriesOwned
<1>8. EntriesOwned'
  BY <1>0, <1>1, <1>5 DEF EntriesOwned
<1>9. NoDoubleMatch'
  BY <1>0, <1>1, <1>5, <1>7 DEF NoDoubleMatch
<1>10. TLBCoherent'
  <2> SUFFICES ASSUME NEW i \in Entry, NEW h \in 0 .. 1, tlb[i].lo[h] # NONE,
                      NEW r \in created', asid'[r] = tlb[i].asid,
                      NEW v, v = 2 * tlb[i].vpn2 + h
               PROVE  vmm_mapping_find(r, v)' = tlb[i].lo[h]
    BY <1>0 DEF TLBCoherent
  <2>1. r \in created /\ asid[r] = tlb[i].asid
    BY <1>0, <1>5, <1>7
  <2>2. vmm_mapping_find(r, v) = tlb[i].lo[h]
    BY <1>1, <2>1 DEF TLBCoherent
  <2>3. vma'[r] = vma[r]
    BY <1>0, <1>1, <2>1 DEF TypeOK
  <2> QED BY <2>1, <2>2, <2>3, FindStays
<1> QED BY <1>6, <1>8, <1>9, <1>10 DEF TLBInv

LEMMA TLBMapAt ==
  ASSUME MapInv, MapInv', TLBInv, NEW vpn \in Page, NEW count \in Counts,
         vpn + count <= PAGES, MapAt(vpn, count)
  PROVE  TLBInv'
<1>1. CASE UNCHANGED vars
  <2>1. \A s \in created : \A v : vmm_mapping_find(s, v)' = vmm_mapping_find(s, v)
    BY <1>1 DEF vars, vmm_mapping_find, Holding
  <2> QED BY <1>1, <2>1, TLBStay DEF vars
<1>2. CASE ~UNCHANGED vars
  <2>1. PICK pfn \in Frame, k \in Slot :
              /\ cur \in created /\ ~vma[cur][k].valid
              /\ Run(pfn, count) \subseteq Frame \ used
              /\ used' = used \cup Run(pfn, count)
              /\ vma'[cur][k] = [valid |-> TRUE, vpn_base |-> vpn, pfn_base |-> pfn, count |-> count]
              /\ \A s \in Space, i \in Slot : s # cur \/ i # k => vma'[s][i] = vma[s][i]
              /\ vma' \in [Space -> [Slot -> Area]]
              /\ UNCHANGED <<created, asid, last_asid, cur, tlb>>
    BY <1>2, MapFills
  <2>2. created \subseteq Space
    BY DEF MapInv, FramesPrivate, TypeOK
  <2>3. ASSUME NEW s \in created, NEW v, vmm_mapping_find(s, v) # NONE
        PROVE  vmm_mapping_find(s, v)' = vmm_mapping_find(s, v)
    <3>1. \A j \in Slot : vma[s][j].valid => vma'[s][j] = vma[s][j]
      BY <2>1, <2>2
    <3> QED BY <2>1, <2>3, <3>1, FindStays
  <2> QED BY <2>1, <2>3, TLBStay
<1> QED BY <1>1, <1>2

LEMMA TLBMap ==
  ASSUME MapInv, MapInv', TLBInv, NEW count \in Counts,
         (\E vpn \in Page : vma_map_user(vpn, count)) \/ vma_map_auto(count)
  PROVE  TLBInv'
<1>1. CASE UNCHANGED vars
  <2>1. \A s \in created : \A v : vmm_mapping_find(s, v)' = vmm_mapping_find(s, v)
    BY <1>1 DEF vars, vmm_mapping_find, Holding
  <2> QED BY <1>1, <2>1, TLBStay DEF vars
<1>2. ASSUME NEW vpn \in Page, vma_map_user(vpn, count) PROVE TLBInv'
  BY <1>2, TLBMapAt DEF vma_map_user
<1>3. CASE AutoPage # 0 /\ AutoPage + count <= AUTO_LIMIT /\ MapAt(AutoPage, count)
  <2>1. AutoPage \in Page /\ AutoPage + count <= PAGES
    BY <1>3, AutoFree
  <2> QED BY <1>3, <2>1, TLBMapAt
<1> QED BY <1>1, <1>2, <1>3 DEF vma_map_auto

LEMMA TLBUnmap ==
  ASSUME MapInv, MapInv', TLBInv, NEW vpn \in Page, vma_unmap(vpn)
  PROVE  TLBInv'
<1>1. CASE UNCHANGED vars
  <2>1. \A s \in created : \A v : vmm_mapping_find(s, v)' = vmm_mapping_find(s, v)
    BY <1>1 DEF vars, vmm_mapping_find, Holding
  <2> QED BY <1>1, <2>1, TLBStay DEF vars
<1>2. CASE ~UNCHANGED vars
  <2>1. PICK k \in Slot :
              /\ cur \in created /\ vma[cur][k].valid
              /\ used' = used \ FramesAt(cur, k)
              /\ tlb' = tlb_flush(tlb, vma[cur][k])
              /\ ~vma'[cur][k].valid
              /\ \A s \in Space, i \in Slot : s # cur \/ i # k => vma'[s][i] = vma[s][i]
              /\ vma' \in [Space -> [Slot -> Area]]
              /\ UNCHANGED <<created, asid, last_asid, cur>>
    BY <1>2, UnmapDoes
  <2>2. TypeOK /\ AsidInv /\ EntriesOwned /\ NoDoubleMatch /\ TLBCoherent
    BY DEF MapInv, FramesPrivate, TLBInv
  <2> DEFINE flushed == UNION {Matches(tlb, v) : v \in Pages(vma[cur][k])}
  <2>3. \A i \in Entry : tlb'[i] = IF i \in flushed
                                   THEN [tlb[i] EXCEPT !.lo = [h \in 0 .. 1 |-> NONE]]
                                   ELSE tlb[i]
    BY <2>1 DEF tlb_flush, Invalid
  <2>4. \A i \in Entry, v \in Pages(vma[cur][k]) : i \in Matches(tlb, v) => i \in flushed
    OBVIOUS
  <2> HIDE DEF flushed
  <2>5. \A i \in Entry : /\ tlb'[i].vpn2 = tlb[i].vpn2 /\ tlb'[i].asid = tlb[i].asid
                         /\ \A h \in 0 .. 1 : tlb'[i].lo[h] # NONE =>
                              i \notin flushed /\ tlb'[i] = tlb[i]
    <3> SUFFICES ASSUME NEW i \in Entry
                 PROVE  /\ tlb'[i].vpn2 = tlb[i].vpn2 /\ tlb'[i].asid = tlb[i].asid
                        /\ \A h \in 0 .. 1 : tlb'[i].lo[h] # NONE =>
                             i \notin flushed /\ tlb'[i] = tlb[i]
      OBVIOUS
    <3>1. tlb[i] \in [vpn2 : 0 .. PAGES \div 2, asid : Asid, lo : [0 .. 1 -> Frame \cup {NONE}]]
      BY <2>2 DEF TypeOK
    <3>2. CASE i \in flushed
      <4>1. tlb'[i] = [tlb[i] EXCEPT !.lo = [h \in 0 .. 1 |-> NONE]]
        BY <2>3, <3>2
      <4>2. /\ tlb'[i].vpn2 = tlb[i].vpn2 /\ tlb'[i].asid = tlb[i].asid
            /\ tlb'[i].lo = [h \in 0 .. 1 |-> NONE]
        BY <3>1, <4>1
      <4> QED BY <4>2
    <3>3. CASE i \notin flushed
      BY <2>3, <3>3
    <3> QED BY <3>2, <3>3
  <2>6. AsidInv' /\ EntriesOwned' /\ NoDoubleMatch'
    BY <2>1, <2>2, <2>5 DEF AsidInv, EntriesOwned, NoDoubleMatch
  <2>7. TLBCoherent'
    <3> SUFFICES ASSUME NEW i \in Entry, NEW h \in 0 .. 1, tlb'[i].lo[h] # NONE,
                        NEW s \in created, asid[s] = tlb'[i].asid,
                        NEW v, v = 2 * tlb'[i].vpn2 + h
                 PROVE  vmm_mapping_find(s, v)' = tlb'[i].lo[h]
      BY <2>1 DEF TLBCoherent
    <3>1. i \notin flushed /\ tlb'[i] = tlb[i]
      BY <2>5
    <3>2. vmm_mapping_find(s, v) = tlb[i].lo[h] /\ tlb[i].lo[h] # NONE
      BY <2>2, <3>1 DEF TLBCoherent
    <3>3. ASSUME NEW j \in Slot, vma[s][j].valid, v \in Pages(vma[s][j])
          PROVE  vma'[s][j] = vma[s][j]
      <4>1. CASE s = cur /\ j = k
        <5>1. v \div 2 = tlb[i].vpn2
          <6>1. tlb[i].vpn2 \in Nat
            BY <2>2, SpaceAssumption DEF TypeOK
          <6> QED BY <3>1, <6>1
        <5>2. i \in Matches(tlb, v)
          BY <3>1, <4>1, <5>1 DEF Matches
        <5> QED BY <2>4, <3>1, <3>3, <4>1, <5>2
      <4>2. CASE ~(s = cur /\ j = k)
        BY <2>1, <2>2, <4>2 DEF TypeOK
      <4> QED BY <4>1, <4>2
    <3>4. s \in created'
      BY <2>1
    <3>5. vmm_mapping_find(s, v)' = vmm_mapping_find(s, v)
      BY <3>2, <3>3, <3>4, FindStays
    <3> QED BY <3>1, <3>2, <3>5
  <2> QED BY <2>6, <2>7 DEF TLBInv
<1> QED BY <1>1, <1>2

(* A handler writes the translation of the page that was touched, into an  *)
(* entry that matches it, or into any when none does.                      *)
LEMMA TLBHandler ==
  ASSUME MapInv, TLBInv, NEW vpn \in Page, wrapped_tlb_refill(vpn) \/ wrapped_general(vpn)
  PROVE  TLBInv'
<1>1. UNCHANGED <<created, asid, vma, last_asid, used, cur>>
  BY Handler
<1>2. \A s \in created : \A v : vmm_mapping_find(s, v)' = vmm_mapping_find(s, v)
  BY <1>1 DEF vmm_mapping_find, Holding
<1>3. CASE UNCHANGED tlb
  BY <1>1, <1>2, <1>3, TLBStay
<1>4. CASE ~UNCHANGED tlb
  <2> DEFINE pfn == vmm_mapping_find(cur, vpn)
  <2>1. pfn \in Frame /\ Refilled(vpn, pfn)
    BY <1>4, Handler
  <2>2. TypeOK /\ AsidInv /\ EntriesOwned /\ NoDoubleMatch /\ TLBCoherent
    BY DEF MapInv, FramesPrivate, TLBInv
  <2>3. cur \in created
    BY <2>2 DEF TypeOK
  <2> HIDE DEF pfn
  <2>4. PICK i \in Entry :
          /\ \A j \in Entry : j # i => tlb'[j] = tlb[j]
          /\ tlb'[i].vpn2 = vpn \div 2 /\ tlb'[i].asid = asid[cur]
          /\ \A h \in 0 .. 1 : h # vpn % 2 /\ tlb'[i].lo[h] # NONE =>
                i \in Matches(tlb, vpn) /\ tlb'[i].lo[h] = tlb[i].lo[h]
          /\ tlb'[i].lo[vpn % 2] = pfn
          /\ Matches(tlb, vpn) = {} \/ i \in Matches(tlb, vpn)
    <3>1. vpn % 2 \in 0 .. 1
      BY Halves
    <3>2. CASE /\ Matches(tlb, vpn) = {}
               /\ \E i \in Entry :
                    tlb' = [tlb EXCEPT ![i] =
                       [vpn2 |-> vpn \div 2, asid |-> asid[cur],
                        lo |-> [h \in 0 .. 1 |-> IF h = vpn % 2 THEN pfn ELSE NONE]]]
      <4>1. PICK i \in Entry :
                    tlb' = [tlb EXCEPT ![i] =
                       [vpn2 |-> vpn \div 2, asid |-> asid[cur],
                        lo |-> [h \in 0 .. 1 |-> IF h = vpn % 2 THEN pfn ELSE NONE]]]
        BY <3>2
      <4>2. /\ \A j \in Entry : j # i => tlb'[j] = tlb[j]
            /\ tlb'[i] = [vpn2 |-> vpn \div 2, asid |-> asid[cur],
                          lo |-> [h \in 0 .. 1 |-> IF h = vpn % 2 THEN pfn ELSE NONE]]
        BY <2>2, <4>1 DEF TypeOK
      <4> QED BY <3>1, <3>2, <4>2
    <3>3. CASE \E i \in Matches(tlb, vpn) : tlb' = [tlb EXCEPT ![i].lo[vpn % 2] = pfn]
      <4>1. PICK i \in Matches(tlb, vpn) : tlb' = [tlb EXCEPT ![i].lo[vpn % 2] = pfn]
        BY <3>3
      <4>2. i \in Entry /\ tlb[i].vpn2 = vpn \div 2 /\ tlb[i].asid = asid[cur]
        BY <4>1 DEF Matches
      <4>3. /\ tlb[i].lo \in [0 .. 1 -> Frame \cup {NONE}]
            /\ tlb \in [Entry -> [vpn2 : 0 .. PAGES \div 2, asid : Asid,
                                  lo : [0 .. 1 -> Frame \cup {NONE}]]]
        BY <2>2, <4>2 DEF TypeOK
      <4>4. /\ \A j \in Entry : j # i => tlb'[j] = tlb[j]
            /\ tlb'[i] = [tlb[i] EXCEPT !.lo[vpn % 2] = pfn]
        BY <4>1, <4>2, <4>3
      <4>5. /\ tlb'[i].vpn2 = tlb[i].vpn2 /\ tlb'[i].asid = tlb[i].asid
            /\ tlb'[i].lo = [tlb[i].lo EXCEPT ![vpn % 2] = pfn]
        BY <4>2, <4>3, <4>4
      <4>6. /\ tlb'[i].lo[vpn % 2] = pfn
            /\ \A h \in 0 .. 1 : h # vpn % 2 => tlb'[i].lo[h] = tlb[i].lo[h]
        BY <3>1, <4>3, <4>5
      <4> QED BY <4>1, <4>2, <4>4, <4>5, <4>6
    <3> QED BY <1>4, <2>1, <3>2, <3>3 DEF Refilled
  <2>5. AsidInv'
    BY <1>1, <2>2 DEF AsidInv
  <2>6. EntriesOwned'
    BY <1>1, <2>2, <2>3, <2>4 DEF EntriesOwned
  <2>7. NoDoubleMatch'
    <3> SUFFICES ASSUME NEW s \in created, NEW j \in Entry, NEW l \in Entry,
                        tlb'[j].vpn2 = tlb'[l].vpn2,
                        tlb'[j].asid = asid[s], tlb'[l].asid = asid[s]
                 PROVE  j = l
      BY <1>1 DEF NoDoubleMatch
    <3>1. CASE j # i /\ l # i
      BY <2>2, <2>4, <3>1 DEF NoDoubleMatch
    <3>2. ASSUME NEW m \in Entry, m # i, tlb'[m].vpn2 = tlb'[i].vpn2, tlb'[m].asid = asid[cur]
          PROVE  FALSE
      <4>1. m \in Matches(tlb, vpn)
        BY <2>4, <3>2 DEF Matches
      <4>2. i \in Matches(tlb, vpn)
        BY <2>4, <4>1
      <4> QED BY <2>2, <2>3, <3>2, <4>1, <4>2 DEF NoDoubleMatch, Matches
    <3> QED BY <2>4, <3>1, <3>2
  <2>8. TLBCoherent'
    <3> SUFFICES ASSUME NEW j \in Entry, NEW h \in 0 .. 1, tlb'[j].lo[h] # NONE,
                        NEW s \in created, asid[s] = tlb'[j].asid,
                        NEW v, v = 2 * tlb'[j].vpn2 + h
                 PROVE  vmm_mapping_find(s, v) = tlb'[j].lo[h]
      BY <1>1, <1>2 DEF TLBCoherent
    <3>1. CASE j # i
      BY <2>2, <2>4, <3>1 DEF TLBCoherent
    <3>2. CASE j = i /\ h # vpn % 2
      <4>1. tlb'[j].lo[h] = tlb[j].lo[h] /\ tlb'[j].vpn2 = tlb[j].vpn2 /\ tlb'[j].asid = tlb[j].asid
        BY <2>4, <3>2 DEF Matches
      <4> QED BY <2>2, <4>1 DEF TLBCoherent
    <3>3. CASE j = i /\ h = vpn % 2
      <4>1. s = cur
        BY <2>2, <2>3, <2>4, <3>3 DEF AsidInv
      <4>2. v = vpn
        BY <2>4, <3>3, Halves
      <4> QED BY <2>4, <3>3, <4>1, <4>2 DEF pfn
    <3> QED BY <3>1, <3>2, <3>3
  <2> QED BY <2>5, <2>6, <2>7, <2>8 DEF TLBInv
<1> QED BY <1>3, <1>4

LEMMA NextTLB ==
  ASSUME FewSpaces, MapInv, MapInv', TLBInv, [Next]_vars
  PROVE  TLBInv'
<1>1. CASE UNCHANGED vars
  <2>1. \A s \in created : \A v : vmm_mapping_find(s, v)' = vmm_mapping_find(s, v)
    BY <1>1 DEF vars, vmm_mapping_find, Holding
  <2> QED BY <1>1, <2>1, TLBStay DEF vars
<1>2. ASSUME NEW s \in Space, vmm_create(s) PROVE TLBInv'
  BY <1>2, TLBCreate
<1>3. ASSUME NEW s \in Space, switch(s) PROVE TLBInv'
  <2>1. UNCHANGED <<created, asid, last_asid, tlb, vma>>
    BY <1>3 DEF switch
  <2>2. \A r \in created : \A v : vmm_mapping_find(r, v)' = vmm_mapping_find(r, v)
    BY <2>1 DEF vmm_mapping_find, Holding
  <2> QED BY <2>1, <2>2, TLBStay
<1>4. ASSUME NEW vpn \in Page, NEW count \in Counts, vma_map_user(vpn, count) PROVE TLBInv'
  BY <1>4, TLBMap
<1>5. ASSUME NEW count \in Counts, vma_map_auto(count) PROVE TLBInv'
  BY <1>5, TLBMap
<1>6. ASSUME NEW vpn \in Page, vma_unmap(vpn) PROVE TLBInv'
  BY <1>6, TLBUnmap
<1>7. ASSUME NEW vpn \in Page, wrapped_tlb_refill(vpn) \/ wrapped_general(vpn) PROVE TLBInv'
  BY <1>7, TLBHandler
<1> QED BY <1>1, <1>2, <1>3, <1>4, <1>5, <1>6, <1>7 DEF Next

LEMMA TLBInvCorrect == FewSpaces /\ Spec => []TLBInv
<1> SUFFICES ASSUME FewSpaces PROVE Spec => []TLBInv
  OBVIOUS
<1>1. Init => MapInv /\ TLBInv
  BY InitMap, InitTLB
<1>2. MapInv /\ TLBInv /\ [Next]_vars => MapInv' /\ TLBInv'
  BY NextMap, NextTLB
<1> QED BY <1>1, <1>2, PTL DEF Spec

(***************************************************************************)
(* The TLB never disagrees with the maps, whatever threads of whatever     *)
(* address spaces map, unmap, touch and switch: vma_unmap flushes what it  *)
(* must, and the handlers load what vmm_mapping_find says.  It rests on    *)
(* identifiers being unique, which holds up to the limit of vmm.c:38.      *)
(***************************************************************************)
THEOREM TLBCorrect == FewSpaces /\ Spec => []TLBCoherent
<1>1. TLBInv => TLBCoherent
  BY DEF TLBInv
<1> QED BY <1>1, TLBInvCorrect, PTL

(***************************************************************************)
(* No two entries ever match a page: the handlers write a random entry     *)
(* only when none matches, and a new address space has an identifier that  *)
(* no entry carries, up to the limit of vmm.c:38.                          *)
(***************************************************************************)
THEOREM MatchCorrect == FewSpaces /\ Spec => []NoDoubleMatch
<1>1. TLBInv => NoDoubleMatch
  BY DEF TLBInv
<1> QED BY <1>1, TLBInvCorrect, PTL

=============================================================================
