-------------------------------- MODULE Heap --------------------------------
(***************************************************************************)
(* The kernel heap (kernel/mm/malloc.c): heaps carved out of frames, each  *)
(* a row of blocks with a header and a footer.  malloc is a first-fit scan *)
(* over all heaps, one action per block visited; free merges a block with  *)
(* its free neighbours and returns an empty heap to the frame allocator.   *)
(* Both run with interrupts disabled, so one call is in progress at most.  *)
(*                                                                         *)
(* head maps the address of a block to its header and foot the address     *)
(* just behind a block to the size in its footer.  Headers and footers     *)
(* that a merge leaves inside a larger block are unreadable from then on:  *)
(* an access that would find them counts as a failed block_check, and a    *)
(* failed block_check halts the machine: no action is enabled.             *)
(***************************************************************************)
EXTENDS Naturals, Sequences, KList

CONSTANTS ALIGNMENT,    \* alignment of blocks
          HEAD,         \* sizeof (heap_block_head_t)
          FOOT,         \* sizeof (heap_block_foot_t)
          HEAP_T,       \* sizeof (heap_t)
          FRAME_SIZE,   \* bytes in a frame
          HEAP_FRAMES,  \* minimum size of a heap in frames
          FRAMES,       \* number of frames the machine has
          Sizes         \* sizes that callers request

ALIGN_UP(size, unit) == ((size + unit - 1) \div unit) * unit

ASSUME HeapAssumption ==
  /\ ALIGNMENT \in Nat \ {0}
  /\ {HEAD, FOOT, HEAP_T, FRAME_SIZE, HEAP_FRAMES} \subseteq Nat \ {0}
  /\ \A n \in {HEAD, FOOT, HEAP_T, FRAME_SIZE} : n % ALIGNMENT = 0
  /\ FRAMES \in Nat
  /\ Sizes \subseteq Nat

VARIABLES heaps,   \* heap_list: the addresses of the heap structures
          frames,  \* heap->frames of the listed heaps
          used,    \* frames that the frame allocator has handed out
          head,    \* headers of blocks
          foot,    \* footers of blocks
          pc,      \* idle, or scan in malloc
          req,     \* argument size of the malloc in progress
          hp,      \* position of the current heap in heap_list
          pos      \* the block that the scan looks at

vars == <<heaps, frames, used, head, foot, pc, req, hp, pos>>

MEMORY == FRAMES * FRAME_SIZE

Frame == 0 .. FRAMES - 1

heap_start(heap) == heap + HEAP_T

heap_end(heap) == heap + frames[heap] * FRAME_SIZE

Init ==
  /\ heaps = << >>
  /\ frames = << >>
  /\ used = {}
  /\ head = << >>
  /\ foot = << >>
  /\ pc = "idle"
  /\ req = 0
  /\ hp = 0
  /\ pos = 0

-----------------------------------------------------------------------------
(* A memory is a record of headers and footers. *)
Mem == [head |-> head, foot |-> foot]

(***************************************************************************)
(* block_init: write the header and the footer of a block that covers the  *)
(* addresses from addr up to addr + size.                                  *)
(***************************************************************************)
block_init(m, addr, size, free, heap) ==
  LET inner(a) == addr < a /\ a < addr + size
  IN  [head |-> [a \in {b \in DOMAIN m.head : ~inner(b)} \cup {addr} |->
                   IF a = addr THEN [size |-> size, free |-> free, heap |-> heap]
                   ELSE m.head[a]],
       foot |-> [a \in {b \in DOMAIN m.foot : ~inner(b)} \cup {addr + size} |->
                   IF a = addr + size THEN size ELSE m.foot[a]]]

(* block_check: the assertions on a block. *)
block_check(m, addr) ==
  /\ addr \in DOMAIN m.head
  /\ heap_start(m.head[addr].heap) <= addr
  /\ addr < heap_end(m.head[addr].heap)
  /\ addr + m.head[addr].size \in DOMAIN m.foot
  /\ m.foot[addr + m.head[addr].size] = m.head[addr].size

RealSize(size) == ALIGN_UP(size, ALIGNMENT) + HEAD + FOOT

SplitLimitTight(size) == RealSize(size)   \* mutant: no room for a header

(* A block is split when more than a header and a footer would be left. *)
SplitLimit(size) == RealSize(size) + HEAD + FOOT

Install(m) == head' = m.head /\ foot' = m.foot

Return == pc' = "idle" /\ req' = 0 /\ hp' = 0 /\ pos' = 0

-----------------------------------------------------------------------------
malloc_latest(size) ==   \* mutant: only the newest heap is searched
  /\ pc = "idle"
  /\ pc' = "scan"
  /\ req' = size
  /\ hp' = IF heaps = << >> THEN 1 ELSE Len(heaps)
  /\ pos' = IF heaps = << >> THEN 0 ELSE heap_start(heaps[Len(heaps)])
  /\ UNCHANGED <<heaps, frames, used, head, foot>>

(* malloc starts at the first block of the first heap. *)
malloc(size) ==
  /\ pc = "idle"
  /\ pc' = "scan"
  /\ req' = size
  /\ hp' = 1
  /\ pos' = IF heaps = << >> THEN 0 ELSE heap_start(heaps[1])
  /\ UNCHANGED <<heaps, frames, used, head, foot>>

(* The scan looks at the block at pos. *)
Visiting == pc = "scan" /\ hp <= Len(heaps) /\ pos < heap_end(heaps[hp])

Suitable(addr) == head[addr].free /\ head[addr].size >= RealSize(req)

malloc_skip_nothing ==   \* mutant: the scan does not advance
  /\ Visiting
  /\ block_check(Mem, pos)
  /\ ~Suitable(pos)
  /\ UNCHANGED vars

malloc_skip ==
  /\ Visiting
  /\ block_check(Mem, pos)
  /\ ~Suitable(pos)
  /\ pos' = pos + head[pos].size
  /\ UNCHANGED <<heaps, frames, used, head, foot, pc, req, hp>>

malloc_split ==
  /\ Visiting
  /\ block_check(Mem, pos)
  /\ Suitable(pos)
  /\ head[pos].size > SplitLimit(req)
  /\ LET real == RealSize(req)
         rest == block_init(Mem, pos + real, head[pos].size - real, TRUE, heaps[hp])
     IN  Install(block_init(rest, pos, real, FALSE, heaps[hp]))
  /\ Return
  /\ UNCHANGED <<heaps, frames, used>>

malloc_whole ==
  /\ Visiting
  /\ block_check(Mem, pos)
  /\ Suitable(pos)
  /\ head[pos].size <= SplitLimit(req)
  /\ head' = [head EXCEPT ![pos].free = FALSE]
  /\ Return
  /\ UNCHANGED <<heaps, frames, used, foot>>

malloc_next_heap ==
  /\ pc = "scan"
  /\ hp <= Len(heaps)
  /\ pos >= heap_end(heaps[hp])
  /\ hp' = hp + 1
  /\ pos' = IF hp < Len(heaps) THEN heap_start(heaps[hp + 1]) ELSE 0
  /\ UNCHANGED <<heaps, frames, used, head, foot, pc, req>>

(* frame_alloc: a free run of frames; it may also fail at any time. *)
Run(first, count) == first .. first + count - 1

FramesFor(size) ==
  LET need == ALIGN_UP(RealSize(size) + HEAP_T, FRAME_SIZE) \div FRAME_SIZE
  IN  IF need < HEAP_FRAMES THEN HEAP_FRAMES ELSE need

(* malloc_heap: a new heap whose first block is the result. *)
malloc_heap ==
  /\ pc = "scan"
  /\ hp > Len(heaps)
  /\ \E first \in Frame :
       LET count   == FramesFor(req)
           heap    == first * FRAME_SIZE
           cur     == heap_start(heap)
           payload == count * FRAME_SIZE - HEAP_T
           real    == RealSize(req)
           rest    == block_init(Mem, cur + real, payload - real, TRUE, heap)
       IN  /\ Run(first, count) \subseteq Frame \ used
           /\ used' = used \cup Run(first, count)
           /\ frames' = [h \in DOMAIN frames \cup {heap} |->
                           IF h = heap THEN count ELSE frames[h]]
           /\ Install(IF payload > SplitLimit(req)
                      THEN block_init(rest, cur, real, FALSE, heap)
                      ELSE block_init(Mem, cur, payload, FALSE, heap))
           /\ heaps' = list_append(heaps, heap)
  /\ Return

malloc_fails ==
  /\ pc = "scan"
  /\ hp > Len(heaps)
  /\ Return
  /\ UNCHANGED <<heaps, frames, used, head, foot>>

-----------------------------------------------------------------------------
(***************************************************************************)
(* free, for the block whose header is at addr.  MergeNext and MergePrev   *)
(* give the block after looking at the next and at the previous block.     *)
(***************************************************************************)
(* Mutant: the next block is not looked at. *)
MergeNextAlways(m, addr) ==
  LET heap == m.head[addr].heap
      next == addr + m.head[addr].size
  IN  IF next < heap_end(heap)
      THEN block_init(m, addr, m.head[addr].size + m.head[next].size, TRUE, heap)
      ELSE m

MergeNext(m, addr) ==
  LET heap == m.head[addr].heap
      next == addr + m.head[addr].size
  IN  IF next < heap_end(heap) /\ m.head[next].free
      THEN block_init(m, addr, m.head[addr].size + m.head[next].size, TRUE, heap)
      ELSE m

MergePrevNever(m, addr) == m   \* mutant: no look at the previous block

MergePrev(m, addr) ==
  LET heap == m.head[addr].heap
      prev == addr - m.foot[addr]
  IN  IF heap_start(heap) < addr /\ m.head[prev].free
      THEN block_init(m, prev, m.head[prev].size + m.head[addr].size, TRUE, heap)
      ELSE m

(* The assertions on the block and on the neighbours free looks at. *)
FreeChecks(addr) ==
  /\ block_check(Mem, addr)
  /\ ~head[addr].free
  /\ LET heap == head[addr].heap
         next == addr + head[addr].size
     IN  /\ next < heap_end(heap) => block_check(Mem, next)
         /\ heap_start(heap) < addr =>
              addr \in DOMAIN foot /\ foot[addr] <= addr /\ block_check(Mem, addr - foot[addr])

(* The heap is one free block. *)
Empty(m, heap) ==
  /\ m.head[heap_start(heap)].free
  /\ heap_start(heap) + m.head[heap_start(heap)].size = heap_end(heap)

(* The frames that free returns to the frame allocator. *)
ReleasedMinimum(heap) == Run(heap \div FRAME_SIZE, HEAP_FRAMES)   \* mutant

Released(heap) == Run(heap \div FRAME_SIZE, frames[heap])

free(addr) ==
  /\ pc = "idle"
  /\ addr \in DOMAIN head
  /\ ~head[addr].free
  /\ FreeChecks(addr)
  /\ LET heap   == head[addr].heap
         freed  == [Mem EXCEPT !.head[addr].free = TRUE]
         merged == MergePrev(MergeNext(freed, addr), addr)
     IN  IF Empty(merged, heap)
         THEN /\ heaps' = list_remove(heaps, heap)
              /\ frames' = [h \in DOMAIN frames \ {heap} |-> frames[h]]
              /\ used' = used \ Released(heap)
              /\ head' = [a \in DOMAIN head \ {b \in DOMAIN head : head[b].heap = heap} |-> head[a]]
              /\ foot' = [a \in DOMAIN foot \ {b \in DOMAIN foot : heap < b /\ b <= heap_end(heap)} |-> foot[a]]
         ELSE /\ Install(merged)
              /\ UNCHANGED <<heaps, frames, used>>
  /\ UNCHANGED <<pc, req, hp, pos>>

-----------------------------------------------------------------------------
Scan ==
  \/ malloc_skip \/ malloc_split \/ malloc_whole
  \/ malloc_next_heap \/ malloc_heap \/ malloc_fails

Next ==
  \/ \E size \in Sizes : malloc(size)
  \/ \E addr \in DOMAIN head : free(addr)
  \/ Scan

Spec == Init /\ [][Next]_vars

(* malloc runs with interrupts disabled, so nothing can stop its loops. *)
FairSpec == Spec /\ WF_vars(Scan)

-----------------------------------------------------------------------------
Block == DOMAIN head

End(b) == b + head[b].size

TypeOK ==
  /\ heaps \in Seq(0 .. MEMORY)
  /\ frames \in [Items(heaps) -> 1 .. FRAMES]
  /\ used \subseteq Frame
  /\ Block \subseteq 0 .. MEMORY
  /\ head \in [Block -> [size : 1 .. MEMORY, free : BOOLEAN, heap : Items(heaps)]]
  /\ foot \in [DOMAIN foot -> 1 .. MEMORY]
  /\ pc \in {"idle", "scan"}
  /\ req \in Sizes \cup {0}
  /\ hp \in 0 .. Len(heaps) + 1
  /\ pos \in 0 .. MEMORY

(***************************************************************************)
(* No assertion of malloc or free fails: the scan always stands on a block *)
(* that passes block_check, and so do an allocated block and the           *)
(* neighbours that free finds through its size and the footer before it.   *)
(***************************************************************************)
ChecksPass ==
  /\ Visiting => block_check(Mem, pos)
  /\ \A b \in Block : ~head[b].free => FreeChecks(b)

(***************************************************************************)
(* The blocks of a heap tile it: the first starts behind the heap          *)
(* structure, each ends where the next one starts or where the heap ends,  *)
(* none reaches into another, and every footer repeats the size of the     *)
(* block in front of it; no assertion of malloc or free fails.  Splitting  *)
(* and merging in any order keep it so.                                    *)
(***************************************************************************)
Tiled ==
  /\ TypeOK /\ ChecksPass
  /\ NoRepeats(heaps)
  /\ \A h \in Items(heaps) : heap_start(h) \in Block /\ head[heap_start(h)].heap = h
  /\ \A b \in Block :
       LET h == head[b].heap
       IN  /\ heap_start(h) <= b /\ End(b) <= heap_end(h)
           /\ head[b].size >= HEAD + FOOT
           /\ End(b) < heap_end(h) => End(b) \in Block /\ head[End(b)].heap = h
           /\ End(b) \in DOMAIN foot /\ foot[End(b)] = head[b].size
           /\ \A c \in Block : c <= b \/ c >= End(b)

(***************************************************************************)
(* free leaves no fragments: no two free blocks are neighbours and no heap *)
(* is a single free block, since an empty heap is released.                *)
(***************************************************************************)
Coalesced ==
  /\ \A b, c \in Block :
       head[b].free /\ head[c].free /\ head[b].heap = head[c].heap => End(b) # c
  /\ \A h \in Items(heaps) : ~Empty(Mem, h)

(***************************************************************************)
(* The frame allocator has handed out exactly the frames of the listed     *)
(* heaps, each to one heap: none leaks and none is returned while in use.  *)
(***************************************************************************)
FramesOf(h) == Run(h \div FRAME_SIZE, frames[h])

FramesExact ==
  /\ used = UNION {FramesOf(h) : h \in Items(heaps)}
  /\ \A g, h \in Items(heaps) : g # h => FramesOf(g) \cap FramesOf(h) = {}

(***************************************************************************)
(* The scan passes over no block it could use: every suitable block is at  *)
(* pos, behind it in the same heap, or in a later heap.  So malloc asks    *)
(* for a new heap, and returns NULL, only when no free block is suitable.  *)
(***************************************************************************)
ScanMissesNothing ==
  pc = "scan" =>
    \A b \in Block : Suitable(b) =>
      \E i \in hp .. Len(heaps) : heaps[i] = head[b].heap /\ (i = hp => pos <= b)

(***************************************************************************)
(* malloc returns: the scan gets past every block and every heap.          *)
(***************************************************************************)
MallocEnds == pc = "scan" ~> pc = "idle"

(***************************************************************************)
(* Refinement: the blocks that are not free are the allocations.           *)
(***************************************************************************)
Live == {[addr |-> b + HEAD, size |-> head[b].size - HEAD - FOOT] :
           b \in {c \in Block : ~head[c].free}}

Promise == INSTANCE Allocator WITH live <- Live, asked <- IF pc = "scan" THEN {req} ELSE {}

(* What callers of malloc and free rely on: live allocations are aligned,  *)
(* never overlap, are as large as requested, and vanish only when freed.   *)
AllocatorSpec == Promise!Spec
=============================================================================
