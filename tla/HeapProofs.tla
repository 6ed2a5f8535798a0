----------------------------- MODULE HeapProofs -----------------------------
(***************************************************************************)
(* Proofs about Heap, for any number and size of frames, any sizes of the  *)
(* headers and any requests.  The invariant describes the row of blocks of *)
(* a memory, given by the limits E of the heaps, the headers hd and the    *)
(* footers ft, so that it can be stated between the merges of one free as  *)
(* well as between two calls.                                              *)
(***************************************************************************)
EXTENDS Heap, TLAPS

(* Where each heap ends. *)
Limits(fr) == [h \in DOMAIN fr |-> h + fr[h] * FRAME_SIZE]

LimitsOK(E) == E \in [DOMAIN E -> 0 .. MEMORY] /\ DOMAIN E \subseteq 0 .. MEMORY

(* No heap reaches into another. *)
Apart(E) == \A g, h \in DOMAIN E : g # h => E[g] <= h \/ E[h] <= g

EndOf(hd, b) == b + hd[b].size

Heads(E, hd) ==
  /\ hd \in [DOMAIN hd -> [size : 1 .. MEMORY, free : BOOLEAN, heap : DOMAIN E]]
  /\ DOMAIN hd \subseteq 0 .. MEMORY

Feet(ft) == ft \in [DOMAIN ft -> 1 .. MEMORY] /\ DOMAIN ft \subseteq 0 .. MEMORY

(* Every heap begins with a block. *)
Started(E, hd) ==
  \A h \in DOMAIN E : heap_start(h) \in DOMAIN hd /\ hd[heap_start(h)].heap = h

(* A block lies in its heap and has room for its header and footer. *)
Inside(E, hd, b) ==
  /\ heap_start(hd[b].heap) <= b /\ EndOf(hd, b) <= E[hd[b].heap]
  /\ hd[b].size >= HEAD + FOOT

(* It is followed and preceded by a block of the same heap. *)
Followed(E, hd, b) ==
  EndOf(hd, b) < E[hd[b].heap] =>
    EndOf(hd, b) \in DOMAIN hd /\ hd[EndOf(hd, b)].heap = hd[b].heap

Preceded(hd, b) ==
  heap_start(hd[b].heap) < b =>
    \E c \in DOMAIN hd : EndOf(hd, c) = b /\ hd[c].heap = hd[b].heap

(* No other block touches it. *)
Alone(hd, b) == \A c \in DOMAIN hd : c # b => EndOf(hd, b) <= c \/ EndOf(hd, c) <= b

(* Its footer repeats its size. *)
Footed(hd, ft, b) == EndOf(hd, b) \in DOMAIN ft /\ ft[EndOf(hd, b)] = hd[b].size

(* The headers, and the headers with their footers, describe rows of blocks. *)
HeadRow(E, hd) ==
  /\ Heads(E, hd) /\ Started(E, hd)
  /\ \A b \in DOMAIN hd :
       Inside(E, hd, b) /\ Followed(E, hd, b) /\ Preceded(hd, b) /\ Alone(hd, b)

FootRow(hd, ft) == Feet(ft) /\ \A b \in DOMAIN hd : Footed(hd, ft, b)

Row(E, hd, ft) == HeadRow(E, hd) /\ FootRow(hd, ft)

(* Blocks begin and end at aligned addresses. *)
Aligned(hd) == \A b \in DOMAIN hd : b % ALIGNMENT = 0 /\ hd[b].size % ALIGNMENT = 0

(* The heaps begin with a frame and own the frames behind it. *)
HeapsInv ==
  /\ heaps \in Seq(0 .. MEMORY) /\ NoRepeats(heaps)
  /\ frames \in [Items(heaps) -> 1 .. FRAMES]
  /\ used \subseteq Frame
  /\ \A h \in Items(heaps) : \E f \in Frame : h = f * FRAME_SIZE
  /\ FramesExact

(* The scan stands on a block of the current heap or at its end. *)
ScanInv ==
  /\ pc \in {"idle", "scan"}
  /\ pc = "idle" => req = 0 /\ hp = 0 /\ pos = 0
  /\ pc = "scan" => req \in Sizes /\ hp \in 1 .. Len(heaps) + 1 /\ pos \in 0 .. MEMORY
  /\ pc = "scan" /\ hp <= Len(heaps) =>
       \/ pos \in DOMAIN head /\ head[pos].heap = heaps[hp]
       \/ pos = heap_end(heaps[hp])

HInv == HeapsInv /\ Row(Limits(frames), head, foot) /\ Aligned(head) /\ ScanInv

-----------------------------------------------------------------------------
(* Arithmetic of multiples of a frame or of the alignment. *)
LEMMA Distribute ==
  ASSUME NEW a \in Nat, NEW b \in Nat, NEW n \in Nat
  PROVE  (a + b) * n = a * n + b * n /\ a * n \in Nat /\ (a <= b => a * n <= b * n)
OBVIOUS

(* Division takes a factor out again. *)
LEMMA Divide ==
  ASSUME NEW a \in Nat, NEW n \in Nat \ {0}
  PROVE  /\ (a * n) \div n = a /\ (a * n) % n = 0
         /\ a \div n \in Nat /\ a % n \in 0 .. n - 1 /\ a = n * (a \div n) + (a % n)
OBVIOUS

(* Sums and differences of aligned numbers are aligned. *)
LEMMA AddAligned ==
  ASSUME NEW a \in Nat, NEW b \in Nat, NEW n \in Nat \ {0}, a % n = 0, b % n = 0
  PROVE  (a + b) % n = 0 /\ (a >= b => (a - b) % n = 0)
<1> DEFINE i == a \div n
           j == b \div n
<1>1. i \in Nat /\ j \in Nat /\ a = i * n /\ b = j * n
  BY Divide
<1> HIDE DEF i, j
<1>2. (a + b) % n = 0
  <2>1. a + b = (i + j) * n
    BY <1>1
  <2> QED BY <1>1, <2>1, Divide
<1>3. ASSUME a >= b PROVE (a - b) % n = 0
  <2>1. i - j \in Nat
    BY <1>1, <1>3, Distribute
  <2>2. a - b = (i - j) * n
    BY <1>1
  <2> QED BY <2>1, <2>2, Divide
<1> QED BY <1>2, <1>3

(* ALIGN_UP gives a multiple that is not smaller. *)
LEMMA AlignUp ==
  ASSUME NEW size \in Nat, NEW unit \in Nat \ {0}
  PROVE  /\ ALIGN_UP(size, unit) \in Nat
         /\ ALIGN_UP(size, unit) >= size
         /\ ALIGN_UP(size, unit) % unit = 0
         /\ ALIGN_UP(size, unit) = (ALIGN_UP(size, unit) \div unit) * unit
<1> DEFINE q == (size + unit - 1) \div unit
           r == (size + unit - 1) % unit
<1>1. /\ size + unit - 1 \in Nat /\ q \in Nat /\ r \in 0 .. unit - 1
      /\ size + unit - 1 = unit * q + r
  BY Divide
<1> HIDE DEF q, r
<1>2. ALIGN_UP(size, unit) = q * unit
  BY DEF ALIGN_UP, q
<1>3. q * unit >= size
  BY <1>1
<1>4. q * unit \in Nat /\ (q * unit) % unit = 0 /\ (q * unit) \div unit = q
  BY <1>1, Distribute, Divide
<1> QED BY <1>2, <1>3, <1>4

(* The constants, one by one. *)
LEMMA Units ==
  /\ ALIGNMENT \in Nat \ {0} /\ HEAD \in Nat \ {0} /\ FOOT \in Nat \ {0}
  /\ HEAP_T \in Nat \ {0} /\ FRAME_SIZE \in Nat \ {0} /\ HEAP_FRAMES \in Nat \ {0}
  /\ HEAD % ALIGNMENT = 0 /\ FOOT % ALIGNMENT = 0 /\ HEAP_T % ALIGNMENT = 0
  /\ FRAME_SIZE % ALIGNMENT = 0
  /\ FRAMES \in Nat /\ Sizes \subseteq Nat
BY HeapAssumption

(* What malloc reserves for a request: room for it and for the tags. *)
LEMMA RealFacts ==
  ASSUME NEW size \in Nat
  PROVE  /\ RealSize(size) \in Nat
         /\ RealSize(size) >= size + HEAD + FOOT
         /\ RealSize(size) % ALIGNMENT = 0
         /\ SplitLimit(size) = RealSize(size) + HEAD + FOOT
<1> DEFINE up == ALIGN_UP(size, ALIGNMENT)
<1>1. up \in Nat /\ up >= size /\ up % ALIGNMENT = 0
  BY Units, AlignUp
<1>4. RealSize(size) = up + HEAD + FOOT /\ SplitLimit(size) = RealSize(size) + HEAD + FOOT
  BY DEF RealSize, SplitLimit
<1> HIDE DEF up
<1>0. HEAD \in Nat /\ FOOT \in Nat /\ ALIGNMENT \in Nat \ {0} /\ up + HEAD \in Nat
      /\ HEAD % ALIGNMENT = 0 /\ FOOT % ALIGNMENT = 0
  BY <1>1, Units
<1>2. (up + HEAD) % ALIGNMENT = 0
  BY <1>0, <1>1, AddAligned, Zenon
<1>3. (up + HEAD + FOOT) % ALIGNMENT = 0
  BY <1>0, <1>2, AddAligned, Zenon
<1> QED BY <1>1, <1>3, <1>4, Units

(* The frames of a new heap hold the heap structure and the block. *)
LEMMA FramesForFacts ==
  ASSUME NEW size \in Nat
  PROVE  /\ FramesFor(size) \in Nat \ {0}
         /\ FramesFor(size) * FRAME_SIZE >= RealSize(size) + HEAP_T
<1> DEFINE x == RealSize(size) + HEAP_T
           up == ALIGN_UP(x, FRAME_SIZE)
           need == up \div FRAME_SIZE
<1>1. x \in Nat /\ x > 0
  <2>1. RealSize(size) \in Nat /\ HEAP_T \in Nat \ {0}
    BY RealFacts, Units
  <2> QED BY <2>1
<1>2. up \in Nat /\ up >= x /\ up = need * FRAME_SIZE
  BY <1>1, Units, AlignUp
<1>3. need \in Nat
  BY <1>2, Units, Divide
<1>4. FramesFor(size) = IF need < HEAP_FRAMES THEN HEAP_FRAMES ELSE need
  BY DEF FramesFor
<1>0. FRAME_SIZE \in Nat \ {0} /\ HEAP_FRAMES \in Nat \ {0}
  BY Units
<1> HIDE DEF need, up, x
<1>5. need # 0
  BY <1>0, <1>1, <1>2
<1>6. need < HEAP_FRAMES => need * FRAME_SIZE <= HEAP_FRAMES * FRAME_SIZE
  BY <1>0, <1>3, Distribute
<1>7. HEAP_FRAMES * FRAME_SIZE \in Nat
  BY <1>0, Distribute
<1>8. FramesFor(size) \in Nat \ {0} /\ FramesFor(size) * FRAME_SIZE >= x
  <2>1. CASE need < HEAP_FRAMES
    BY <2>1, <1>0, <1>1, <1>2, <1>4, <1>6, <1>7
  <2>2. CASE ~(need < HEAP_FRAMES)
    BY <2>2, <1>0, <1>1, <1>2, <1>3, <1>4, <1>5
  <2> QED BY <2>1, <2>2
<1> QED BY <1>8 DEF x

-----------------------------------------------------------------------------
(* list_remove removes an item and nothing else. *)
LEMMA RemoveList ==
  ASSUME NEW S, NEW list \in Seq(S), NEW item, NoRepeats(list)
  PROVE  /\ list_remove(list, item) \in Seq(S)
         /\ Items(list_remove(list, item)) = Items(list) \ {item}
         /\ NoRepeats(list_remove(list, item))
<1>1. CASE ~link_connected(list, item)
  BY <1>1 DEF list_remove, link_connected, Items
<1>2. CASE link_connected(list, item)
  <2> DEFINE p == Position(list, item)
             from(i) == IF i < p THEN i ELSE i + 1
             r == [i \in 1 .. Len(list) - 1 |-> list[from(i)]]
  <2>1. p \in 1 .. Len(list) /\ list[p] = item
    BY <1>2 DEF link_connected, Position
  <2>2. list_remove(list, item) = r
    BY <1>2 DEF list_remove
  <2> HIDE DEF p
  <2> DEFINE to(j) == IF j < p THEN j ELSE j - 1
  <2>3. /\ Len(list) - 1 \in Nat
        /\ \A i \in 1 .. Len(list) - 1 : from(i) \in 1 .. Len(list) /\ from(i) # p
        /\ \A i, j \in 1 .. Len(list) - 1 : from(i) = from(j) => i = j
    BY <2>1
  <2>4. \A j \in 1 .. Len(list) : j # p => to(j) \in 1 .. Len(list) - 1 /\ from(to(j)) = j
    BY <2>1
  <2> HIDE DEF from, to
  <2>5. /\ r \in Seq(S) /\ Len(r) = Len(list) - 1
        /\ \A i \in 1 .. Len(list) - 1 : r[i] = list[from(i)]
    BY <2>3
  <2> HIDE DEF r
  <2>6. \A i \in 1 .. Len(r) : r[i] \in Items(list) \ {item}
    <3>1. \A i \in 1 .. Len(r) : r[i] = list[from(i)] /\ list[from(i)] # item
      BY <2>1, <2>3, <2>5 DEF NoRepeats
    <3> QED BY <2>3, <2>5, <3>1 DEF Items
  <2>7. \A j \in 1 .. Len(list) : list[j] # item => list[j] \in Items(r)
    <3>1. \A j \in 1 .. Len(list) : list[j] # item => to(j) \in 1 .. Len(r) /\ list[j] = r[to(j)]
      BY <2>1, <2>4, <2>5
    <3> QED BY <3>1 DEF Items
  <2>8. NoRepeats(r)
    <3>1. \A i, j \in 1 .. Len(list) - 1 : list[from(i)] = list[from(j)] => i = j
      BY <2>3 DEF NoRepeats
    <3> QED BY <2>5, <3>1 DEF NoRepeats
  <2>9. Items(r) = Items(list) \ {item}
    BY <2>6, <2>7 DEF Items
  <2> QED BY <2>2, <2>5, <2>8, <2>9
<1> QED BY <1>1, <1>2

-----------------------------------------------------------------------------
(* The number of addresses. *)
LEMMA MemoryNat == MEMORY \in Nat
BY Units, Distribute DEF MEMORY

(* Addresses and sizes of blocks. *)
LEMMA HeadsNat ==
  ASSUME NEW E, NEW hd, Heads(E, hd), NEW b \in DOMAIN hd
  PROVE  /\ b \in Nat /\ b <= MEMORY
         /\ hd[b].size \in Nat /\ hd[b].size > 0 /\ hd[b].size <= MEMORY
         /\ hd[b].free \in BOOLEAN /\ hd[b].heap \in DOMAIN E
         /\ EndOf(hd, b) = b + hd[b].size /\ EndOf(hd, b) \in Nat /\ EndOf(hd, b) > b
         /\ hd[b] = [size |-> hd[b].size, free |-> hd[b].free, heap |-> hd[b].heap]
BY MemoryNat DEF Heads, EndOf

(* Addresses and limits of heaps. *)
LEMMA LimitsNat ==
  ASSUME NEW E, LimitsOK(E), NEW h \in DOMAIN E
  PROVE  /\ h \in Nat /\ E[h] \in Nat /\ E[h] <= MEMORY
         /\ heap_start(h) = h + HEAP_T /\ heap_start(h) \in Nat
BY MemoryNat, Units DEF LimitsOK, heap_start

(* The order of two blocks of a row. *)
LEMMA Order ==
  ASSUME NEW E, NEW hd, HeadRow(E, hd), NEW p \in DOMAIN hd, NEW b \in DOMAIN hd, b # p
  PROVE  \/ EndOf(hd, p) <= b /\ p < b
         \/ EndOf(hd, b) <= p /\ b < p
<1>1. Heads(E, hd) /\ Alone(hd, p)
  BY DEF HeadRow
<1>2. EndOf(hd, p) <= b \/ EndOf(hd, b) <= p
  BY <1>1 DEF Alone
<1>3. b \in Nat /\ p \in Nat /\ EndOf(hd, b) \in Nat /\ EndOf(hd, b) > b /\ EndOf(hd, p) \in Nat /\ EndOf(hd, p) > p
  BY <1>1, HeadsNat
<1> QED BY <1>2, <1>3

(* block_init, seen as a write of a header and a write of a footer. *)
HeadInit(hd, a, s, f, h) ==
  [x \in {b \in DOMAIN hd : ~(a < b /\ b < a + s)} \cup {a} |->
     IF x = a THEN [size |-> s, free |-> f, heap |-> h] ELSE hd[x]]

FootInit(ft, a, s) ==
  [x \in {b \in DOMAIN ft : ~(a < b /\ b < a + s)} \cup {a + s} |->
     IF x = a + s THEN s ELSE ft[x]]

(* A write of a footer keeps the footers outside the block. *)
LEMMA FootInitFacts ==
  ASSUME NEW ft, Feet(ft), NEW a \in Nat, NEW s \in 1 .. MEMORY, a + s <= MEMORY,
         NEW ft2, ft2 = FootInit(ft, a, s)
  PROVE  /\ Feet(ft2)
         /\ a + s \in DOMAIN ft2 /\ ft2[a + s] = s
         /\ \A x \in DOMAIN ft : x <= a \/ x > a + s => x \in DOMAIN ft2 /\ ft2[x] = ft[x]
         /\ \A x \in DOMAIN ft2 : x = a + s \/ x \in DOMAIN ft
<1>1. MEMORY \in Nat /\ ft \in [DOMAIN ft -> 1 .. MEMORY] /\ DOMAIN ft \subseteq 0 .. MEMORY
  BY MemoryNat DEF Feet
<1>2. DOMAIN ft2 = {b \in DOMAIN ft : ~(a < b /\ b < a + s)} \cup {a + s}
  BY DEF FootInit
<1>3. \A x \in DOMAIN ft2 : ft2[x] = IF x = a + s THEN s ELSE ft[x]
  BY DEF FootInit
<1>4. ft2 = [x \in DOMAIN ft2 |-> ft2[x]]
  BY DEF FootInit
<1>5. DOMAIN ft2 \subseteq 0 .. MEMORY
  BY <1>1, <1>2
<1>6. \A x \in DOMAIN ft2 : ft2[x] \in 1 .. MEMORY
  BY <1>1, <1>2, <1>3
<1>7. Feet(ft2)
  BY <1>4, <1>5, <1>6 DEF Feet
<1>8. \A x \in DOMAIN ft : x <= a \/ x > a + s => x \in DOMAIN ft2 /\ x # a + s
  BY <1>1, <1>2
<1>9. \A x \in DOMAIN ft2 : x = a + s \/ x \in DOMAIN ft
  BY <1>2
<1>10. a + s \in DOMAIN ft2
  BY <1>2
<1> QED BY <1>3, <1>7, <1>8, <1>9, <1>10

-----------------------------------------------------------------------------
(***************************************************************************)
(* Dividing the block p: n bytes stay with p, the rest becomes a free      *)
(* block behind it.                                                        *)
(***************************************************************************)
Divided(hd, hd2, p, n) ==
  /\ DOMAIN hd2 = DOMAIN hd \cup {p + n} /\ p + n \notin DOMAIN hd
  /\ hd2 = [x \in DOMAIN hd2 |-> hd2[x]]
  /\ hd2[p] = [size |-> n, free |-> FALSE, heap |-> hd[p].heap]
  /\ hd2[p + n] = [size |-> hd[p].size - n, free |-> TRUE, heap |-> hd[p].heap]
  /\ \A x \in DOMAIN hd : x # p => hd2[x] = hd[x]

(* The two writes of a split, the block behind first, divide the block. *)
LEMMA SplitWrites ==
  ASSUME NEW E, NEW hd, HeadRow(E, hd), NEW p \in DOMAIN hd, NEW n \in Nat \ {0},
         n < hd[p].size
  PROVE  Divided(hd, HeadInit(HeadInit(hd, p + n, hd[p].size - n, TRUE, hd[p].heap),
                              p, n, FALSE, hd[p].heap), p, n)
<1> DEFINE s == hd[p].size
           h == hd[p].heap
           q == p + n
           hd1 == HeadInit(hd, q, s - n, TRUE, h)
           hd2 == HeadInit(hd1, p, n, FALSE, h)
<1>1. Heads(E, hd)
  BY DEF HeadRow
<1>2. p \in Nat /\ s \in Nat /\ s > 0 /\ EndOf(hd, p) = p + s
  BY <1>1, HeadsNat
<1>3. q \in Nat /\ q + (s - n) = p + s /\ p < q /\ q < p + s
  BY <1>2
<1>4. \A b \in DOMAIN hd : b \in Nat /\ (b <= p \/ b >= p + s)
  <2>1. ASSUME NEW b \in DOMAIN hd PROVE b \in Nat /\ (b <= p \/ b >= p + s)
    <3>1. b \in Nat
      BY <1>1, HeadsNat
    <3>2. CASE b = p
      BY <3>1, <3>2
    <3>3. CASE b # p
      BY <3>1, <3>3, <1>2, Order
    <3> QED BY <3>2, <3>3
  <2> QED BY <2>1
<1> HIDE DEF s, q, h, hd1, hd2
<1>5. /\ DOMAIN hd1 = {b \in DOMAIN hd : ~(q < b /\ b < q + (s - n))} \cup {q}
      /\ hd1[q] = [size |-> s - n, free |-> TRUE, heap |-> h]
      /\ \A x \in DOMAIN hd1 : x # q => hd1[x] = hd[x]
  BY DEF hd1, HeadInit
<1>6. /\ DOMAIN hd2 = {b \in DOMAIN hd1 : ~(p < b /\ b < p + n)} \cup {p}
      /\ hd2 = [x \in DOMAIN hd2 |-> hd2[x]]
      /\ hd2[p] = [size |-> n, free |-> FALSE, heap |-> h]
      /\ \A x \in DOMAIN hd2 : x # p => hd2[x] = hd1[x]
  BY DEF hd2, HeadInit
<1>7. DOMAIN hd1 = DOMAIN hd \cup {q} /\ q \notin DOMAIN hd
  <2>1. \A b \in DOMAIN hd : ~(q < b /\ b < q + (s - n)) /\ b # q
    BY <1>2, <1>3, <1>4
  <2> QED BY <2>1, <1>5
<1>8. DOMAIN hd2 = DOMAIN hd \cup {q}
  <2>1. \A b \in DOMAIN hd1 : ~(p < b /\ b < p + n)
    BY <1>2, <1>3, <1>4, <1>7 DEF q
  <2> QED BY <2>1, <1>6, <1>7
<1>9. \A x \in DOMAIN hd : x # p => hd2[x] = hd[x]
  BY <1>5, <1>6, <1>7, <1>8
<1>10. hd2[q] = [size |-> s - n, free |-> TRUE, heap |-> h]
  <2>1. q # p
    BY <1>2, <1>3
  <2>2. hd2[q] = hd1[q]
    BY <2>1, <1>6, <1>8
  <2> QED BY <2>2, <1>5
<1>11. Divided(hd, hd2, p, n)
  BY <1>6, <1>7, <1>8, <1>9, <1>10 DEF Divided, q, s, h
<1> QED BY <1>11 DEF hd2, hd1, q, s, h

(* Sizes and ends of the blocks of a divided row. *)
LEMMA DividedEnds ==
  ASSUME NEW E, NEW hd, HeadRow(E, hd), NEW p \in DOMAIN hd, NEW n \in Nat \ {0},
         n < hd[p].size, NEW hd2, Divided(hd, hd2, p, n)
  PROVE  /\ p \in Nat /\ hd[p].size \in Nat /\ p < p + n /\ p + n < EndOf(hd, p)
         /\ hd2[p].heap = hd[p].heap /\ hd2[p + n].heap = hd[p].heap
         /\ hd2[p].size = n /\ hd2[p + n].size = hd[p].size - n
         /\ EndOf(hd2, p) = p + n /\ EndOf(hd2, p + n) = EndOf(hd, p)
         /\ \A b \in DOMAIN hd : b # p => b # p + n /\ EndOf(hd2, b) = EndOf(hd, b) /\ hd2[b] = hd[b]
         /\ p \in DOMAIN hd2 /\ p + n \in DOMAIN hd2
         /\ \A b \in DOMAIN hd : b \in DOMAIN hd2 /\ hd2[b].heap = hd[b].heap
         /\ \A b \in DOMAIN hd2 : b = p + n \/ b \in DOMAIN hd
<1>1. Heads(E, hd)
  BY DEF HeadRow
<1>2. p \in Nat /\ hd[p].size \in Nat /\ EndOf(hd, p) = p + hd[p].size
  BY <1>1, HeadsNat
<1>3. /\ hd2[p].heap = hd[p].heap /\ hd2[p + n].heap = hd[p].heap
      /\ hd2[p].size = n /\ hd2[p + n].size = hd[p].size - n
  BY DEF Divided
<1>4. EndOf(hd2, p) = p + n /\ EndOf(hd2, p + n) = EndOf(hd, p)
  BY <1>2, <1>3 DEF EndOf
<1>5. \A b \in DOMAIN hd : b # p => b # p + n /\ hd2[b] = hd[b]
  BY DEF Divided
<1>6. \A b \in DOMAIN hd : b # p => EndOf(hd2, b) = EndOf(hd, b)
  BY <1>5 DEF EndOf
<1>7. DOMAIN hd2 = DOMAIN hd \cup {p + n}
  BY DEF Divided
<1>8. p < p + n /\ p + n < EndOf(hd, p)
  BY <1>2
<1>9. \A b \in DOMAIN hd : hd2[b].heap = hd[b].heap
  BY <1>3, <1>5
<1> QED BY <1>2, <1>3, <1>4, <1>5, <1>6, <1>7, <1>8, <1>9

(* A divided row is a row. *)
LEMMA DividedRow ==
  ASSUME NEW E, LimitsOK(E), NEW hd, HeadRow(E, hd), NEW p \in DOMAIN hd, NEW n \in Nat,
         n >= HEAD + FOOT, hd[p].size - n >= HEAD + FOOT, NEW hd2, Divided(hd, hd2, p, n)
  PROVE  HeadRow(E, hd2)
<1> DEFINE q == p + n
<1>0. n \in Nat \ {0} /\ n < hd[p].size /\ Heads(E, hd) /\ HEAD + FOOT \in Nat
  <2>1. Heads(E, hd) /\ HEAD \in Nat \ {0} /\ FOOT \in Nat \ {0}
    BY Units DEF HeadRow
  <2>2. hd[p].size \in Nat
    BY <2>1, HeadsNat
  <2> QED BY <2>1, <2>2
<1>1. /\ p \in Nat /\ hd[p].size \in Nat /\ p < q /\ q < EndOf(hd, p)
      /\ hd2[p].heap = hd[p].heap /\ hd2[q].heap = hd[p].heap
      /\ hd2[p].size = n /\ hd2[q].size = hd[p].size - n
      /\ EndOf(hd2, p) = q /\ EndOf(hd2, q) = EndOf(hd, p)
      /\ p \in DOMAIN hd2 /\ q \in DOMAIN hd2
  BY <1>0, DividedEnds
<1>2. /\ \A b \in DOMAIN hd : b # p => b # q /\ EndOf(hd2, b) = EndOf(hd, b) /\ hd2[b] = hd[b]
      /\ \A b \in DOMAIN hd : b \in DOMAIN hd2 /\ hd2[b].heap = hd[b].heap
      /\ \A b \in DOMAIN hd2 : b = q \/ b \in DOMAIN hd
  BY <1>0, DividedEnds
<1>3. \A b \in DOMAIN hd : /\ Inside(E, hd, b) /\ Followed(E, hd, b)
                           /\ Preceded(hd, b) /\ Alone(hd, b)
  BY DEF HeadRow
<1>4. \A b \in DOMAIN hd : /\ b \in Nat /\ b <= MEMORY /\ hd[b].heap \in DOMAIN E
                           /\ EndOf(hd, b) \in Nat /\ EndOf(hd, b) > b
  BY <1>0, HeadsNat
<1>5. /\ hd[p].heap \in DOMAIN E /\ E[hd[p].heap] \in Nat /\ E[hd[p].heap] <= MEMORY
      /\ heap_start(hd[p].heap) \in Nat
      /\ EndOf(hd, p) <= E[hd[p].heap] /\ heap_start(hd[p].heap) <= p
  BY <1>3, <1>4, LimitsNat DEF Inside
<1>6. Heads(E, hd2)
  <2>1. q \in 0 .. MEMORY
    BY <1>1, <1>4, <1>5, MemoryNat
  <2>2. DOMAIN hd2 \subseteq 0 .. MEMORY
    BY <2>1, <1>0, <1>2 DEF Heads
  <2>3. hd[p].size <= MEMORY /\ MEMORY \in Nat
    BY <1>0, HeadsNat, MemoryNat
  <2>4. n \in 1 .. MEMORY /\ hd[p].size - n \in 1 .. MEMORY
    BY <2>3, <1>0, <1>1
  <2>5. hd2[p] \in [size : 1 .. MEMORY, free : BOOLEAN, heap : DOMAIN E]
    BY <2>4, <1>5 DEF Divided
  <2>6. hd2[q] \in [size : 1 .. MEMORY, free : BOOLEAN, heap : DOMAIN E]
    BY <2>4, <1>5 DEF Divided
  <2>7. \A b \in DOMAIN hd : hd[b] \in [size : 1 .. MEMORY, free : BOOLEAN, heap : DOMAIN E]
    BY <1>0 DEF Heads
  <2>8. \A b \in DOMAIN hd2 : hd2[b] \in [size : 1 .. MEMORY, free : BOOLEAN, heap : DOMAIN E]
    BY <2>5, <2>6, <2>7, <1>2
  <2>9. hd2 = [x \in DOMAIN hd2 |-> hd2[x]]
    BY DEF Divided
  <2> QED BY <2>2, <2>8, <2>9 DEF Heads
<1>7. Started(E, hd2)
  BY <1>2 DEF HeadRow, Started
<1> HIDE DEF q
<1>8. \A b \in DOMAIN hd2 : Inside(E, hd2, b)
  <2>1. Inside(E, hd2, p)
    <3>1. q <= E[hd[p].heap]
      BY <1>1, <1>4, <1>5 DEF q
    <3> QED BY <3>1, <1>1, <1>5 DEF Inside
  <2>2. Inside(E, hd2, q)
    <3>1. heap_start(hd[p].heap) <= q
      BY <1>1, <1>5 DEF q
    <3> QED BY <3>1, <1>1, <1>5 DEF Inside
  <2>3. \A b \in DOMAIN hd : b # p => Inside(E, hd2, b)
    BY <1>2, <1>3 DEF Inside
  <2> QED BY <2>1, <2>2, <2>3, <1>2
<1>9. \A b \in DOMAIN hd2 : Followed(E, hd2, b)
  <2>1. Followed(E, hd2, p)
    BY <1>1 DEF Followed
  <2>2. Followed(E, hd2, q)
    <3>1. Followed(E, hd, p)
      BY <1>3
    <3> QED BY <3>1, <1>1, <1>2 DEF Followed
  <2>3. ASSUME NEW b \in DOMAIN hd, b # p PROVE Followed(E, hd2, b)
    BY <2>3, <1>2, <1>3 DEF Followed
  <2> QED BY <2>1, <2>2, <2>3, <1>2
<1>10. \A b \in DOMAIN hd2 : Preceded(hd2, b)
  <2>1. Preceded(hd2, q)
    BY <1>1 DEF Preceded
  <2>2. ASSUME NEW b \in DOMAIN hd PROVE Preceded(hd2, b)
    <3>1. SUFFICES ASSUME heap_start(hd[b].heap) < b
                   PROVE  \E c \in DOMAIN hd2 : EndOf(hd2, c) = b /\ hd2[c].heap = hd[b].heap
      BY <1>2 DEF Preceded
    <3>2. PICK c \in DOMAIN hd : EndOf(hd, c) = b /\ hd[c].heap = hd[b].heap
      BY <3>1, <1>3 DEF Preceded
    <3>3. CASE c = p
      BY <3>2, <3>3, <1>1
    <3>4. CASE c # p
      BY <3>2, <3>4, <1>2
    <3> QED BY <3>3, <3>4
  <2> QED BY <2>1, <2>2, <1>2
<1>11. \A b \in DOMAIN hd2 : Alone(hd2, b)
  <2>1. \A b \in DOMAIN hd : b # p => \/ EndOf(hd, p) <= b /\ p < b
                                      \/ EndOf(hd, b) <= p /\ b < p
    BY Order
  <2>2. q \in Nat
    BY <1>1 DEF q
  <2>3. \A b \in DOMAIN hd : b # p => (q <= b \/ EndOf(hd, b) <= p) /\ (EndOf(hd, p) <= b \/ EndOf(hd, b) <= q)
    BY <2>1, <2>2, <1>1, <1>4
  <2>4. Alone(hd2, p)
    <3>1. ASSUME NEW c \in DOMAIN hd2, c # p PROVE EndOf(hd2, p) <= c \/ EndOf(hd2, c) <= p
      <4>1. CASE c = q
        BY <4>1, <2>2, <1>1
      <4>2. CASE c # q
        BY <4>2, <3>1, <2>3, <1>1, <1>2
      <4> QED BY <4>1, <4>2
    <3> QED BY <3>1 DEF Alone
  <2>5. Alone(hd2, q)
    <3>1. ASSUME NEW c \in DOMAIN hd2, c # q PROVE EndOf(hd2, q) <= c \/ EndOf(hd2, c) <= q
      <4>1. CASE c = p
        BY <4>1, <2>2, <1>1
      <4>2. CASE c # p
        BY <4>2, <3>1, <2>3, <1>1, <1>2
      <4> QED BY <4>1, <4>2
    <3> QED BY <3>1 DEF Alone
  <2>6. ASSUME NEW b \in DOMAIN hd, b # p PROVE Alone(hd2, b)
    <3>1. ASSUME NEW c \in DOMAIN hd2, c # b PROVE EndOf(hd2, b) <= c \/ EndOf(hd2, c) <= b
      <4>1. CASE c = p
        BY <4>1, <2>6, <2>3, <1>1, <1>2
      <4>2. CASE c = q
        BY <4>2, <2>6, <2>3, <1>1, <1>2
      <4>3. CASE c # p /\ c # q
        BY <4>3, <3>1, <2>6, <1>2, <1>3 DEF Alone
      <4> QED BY <4>1, <4>2, <4>3
    <3> QED BY <3>1 DEF Alone
  <2> QED BY <2>4, <2>5, <2>6, <1>2
<1> QED BY <1>6, <1>7, <1>8, <1>9, <1>10, <1>11 DEF HeadRow

(* The footers after the two writes of a split. *)
LEMMA DividedFeet ==
  ASSUME NEW E, LimitsOK(E), NEW hd, NEW ft, HeadRow(E, hd), FootRow(hd, ft),
         NEW p \in DOMAIN hd, NEW n \in Nat \ {0}, n < hd[p].size,
         NEW hd2, Divided(hd, hd2, p, n)
  PROVE  FootRow(hd2, FootInit(FootInit(ft, p + n, hd[p].size - n), p, n))
<1> DEFINE q == p + n
           e == EndOf(hd, p)
           s == hd[p].size
           ft1 == FootInit(ft, q, s - n)
           ft2 == FootInit(ft1, p, n)
<1>1. Heads(E, hd) /\ Feet(ft) /\ \A b \in DOMAIN hd : Footed(hd, ft, b)
  BY DEF HeadRow, FootRow
<1>2. p \in Nat /\ s \in Nat /\ s <= MEMORY /\ e = p + s /\ MEMORY \in Nat
  BY <1>1, HeadsNat, MemoryNat
<1>3. e <= MEMORY
  <2>1. e <= E[hd[p].heap] /\ hd[p].heap \in DOMAIN E
    BY <1>1, HeadsNat DEF HeadRow, Inside
  <2>2. E[hd[p].heap] \in Nat /\ E[hd[p].heap] <= MEMORY
    BY <2>1, LimitsNat
  <2> QED BY <2>1, <2>2, <1>2
<1>4. /\ q \in Nat /\ q + (s - n) = e /\ p < q /\ q < e /\ e \in Nat
      /\ s - n \in 1 .. MEMORY /\ n \in 1 .. MEMORY /\ q <= MEMORY
  BY <1>2, <1>3
<1>5. /\ Feet(ft1) /\ e \in DOMAIN ft1 /\ ft1[e] = s - n
      /\ \A x \in DOMAIN ft : x <= q \/ x > e => x \in DOMAIN ft1 /\ ft1[x] = ft[x]
  <2> HIDE DEF q, e, s
  <2>1. q + (s - n) <= MEMORY
    BY <1>3, <1>4
  <2> HIDE DEF ft1
  <2>2. /\ Feet(ft1) /\ q + (s - n) \in DOMAIN ft1 /\ ft1[q + (s - n)] = s - n
        /\ \A x \in DOMAIN ft : x <= q \/ x > q + (s - n) => x \in DOMAIN ft1 /\ ft1[x] = ft[x]
    BY <2>1, <1>1, <1>4, FootInitFacts DEF ft1
  <2> QED BY <2>2, <1>4
<1>6. /\ Feet(ft2) /\ q \in DOMAIN ft2 /\ ft2[q] = n
      /\ \A x \in DOMAIN ft1 : x <= p \/ x > q => x \in DOMAIN ft2 /\ ft2[x] = ft1[x]
  <2> HIDE DEF ft1, e, s
  <2>1. p + n <= MEMORY
    BY <1>4
  <2> HIDE DEF ft2
  <2> QED BY <2>1, <1>2, <1>4, <1>5, FootInitFacts DEF ft2
<1> HIDE DEF ft1, ft2
<1>7. e \in DOMAIN ft2 /\ ft2[e] = s - n
  BY <1>4, <1>5, <1>6
<1>8. /\ hd2[p].size = n /\ hd2[q].size = s - n
      /\ EndOf(hd2, p) = q /\ EndOf(hd2, q) = e
      /\ \A b \in DOMAIN hd : b # p => b # q /\ EndOf(hd2, b) = EndOf(hd, b) /\ hd2[b] = hd[b]
      /\ \A b \in DOMAIN hd2 : b = q \/ b \in DOMAIN hd
  BY DividedEnds
<1> HIDE DEF q, e, s
<1>9. ASSUME NEW b \in DOMAIN hd, b # p PROVE Footed(hd2, ft2, b)
  <2>1. EndOf(hd, b) \in Nat /\ EndOf(hd, b) > b /\ b \in Nat
    BY <1>1, HeadsNat
  <2>2. EndOf(hd, b) <= p \/ EndOf(hd, b) > e
    <3>1. e <= b \/ EndOf(hd, b) <= p
      BY <1>9, Order DEF e
    <3> QED BY <3>1, <2>1, <1>4
  <2>3. EndOf(hd, b) \in DOMAIN ft /\ ft[EndOf(hd, b)] = hd[b].size
    BY <1>1 DEF Footed
  <2>4. EndOf(hd, b) \in DOMAIN ft1 /\ ft1[EndOf(hd, b)] = hd[b].size
    BY <2>1, <2>2, <2>3, <1>2, <1>4, <1>5
  <2>5. EndOf(hd, b) \in DOMAIN ft2 /\ ft2[EndOf(hd, b)] = hd[b].size
    BY <2>1, <2>2, <2>4, <1>2, <1>4, <1>6
  <2> QED BY <2>5, <1>8, <1>9 DEF Footed
<1>10. FootRow(hd2, ft2)
  BY <1>6, <1>7, <1>8, <1>9 DEF FootRow, Footed
<1> QED BY <1>10 DEF ft2, ft1, q, s

(* Dividing at an aligned size keeps the alignment. *)
LEMMA DividedAligned ==
  ASSUME NEW E, NEW hd, HeadRow(E, hd), NEW p \in DOMAIN hd, NEW n \in Nat \ {0}, n < hd[p].size,
         NEW hd2, Divided(hd, hd2, p, n), Aligned(hd), n % ALIGNMENT = 0
  PROVE  Aligned(hd2)
<1>1. p \in Nat /\ hd[p].size \in Nat /\ ALIGNMENT \in Nat \ {0}
  BY HeadsNat, Units DEF HeadRow
<1>2. p % ALIGNMENT = 0 /\ hd[p].size % ALIGNMENT = 0
  BY DEF Aligned
<1>3. (p + n) % ALIGNMENT = 0
  BY <1>1, <1>2, AddAligned
<1>4. (hd[p].size - n) % ALIGNMENT = 0
  <2>1. hd[p].size >= n
    BY <1>1
  <2> QED BY <2>1, <1>1, <1>2, AddAligned
<1>5. hd2[p].size = n /\ hd2[p + n].size = hd[p].size - n
  BY DEF Divided
<1>6. \A b \in DOMAIN hd : b # p => hd2[b] = hd[b]
  BY DEF Divided
<1>7. DOMAIN hd2 = DOMAIN hd \cup {p + n}
  BY DEF Divided
<1>8. \A b \in DOMAIN hd : b % ALIGNMENT = 0 /\ hd[b].size % ALIGNMENT = 0
  BY DEF Aligned
<1> QED BY <1>2, <1>3, <1>4, <1>5, <1>6, <1>7, <1>8 DEF Aligned

-----------------------------------------------------------------------------
(* Marking blocks as free or allocated leaves the rows as they are. *)
Marked(hd, hd2) ==
  /\ DOMAIN hd2 = DOMAIN hd
  /\ hd2 = [x \in DOMAIN hd2 |-> hd2[x]]
  /\ \A x \in DOMAIN hd : \E f \in BOOLEAN :
       hd2[x] = [size |-> hd[x].size, free |-> f, heap |-> hd[x].heap]

(* A row with other marks is a row, with the same footers. *)
LEMMA MarkedRow ==
  ASSUME NEW E, NEW hd, NEW ft, HeadRow(E, hd), FootRow(hd, ft), NEW hd2, Marked(hd, hd2)
  PROVE  HeadRow(E, hd2) /\ FootRow(hd2, ft) /\ (Aligned(hd) => Aligned(hd2))
<1>1. DOMAIN hd2 = DOMAIN hd /\ hd2 = [x \in DOMAIN hd2 |-> hd2[x]]
  BY DEF Marked
<1>2. \A x \in DOMAIN hd : hd2[x].size = hd[x].size /\ hd2[x].heap = hd[x].heap
  BY DEF Marked
<1>3. \A x \in DOMAIN hd : EndOf(hd2, x) = EndOf(hd, x)
  BY <1>2 DEF EndOf
<1>4. Heads(E, hd2)
  <2>1. \A x \in DOMAIN hd : hd[x].size \in 1 .. MEMORY /\ hd[x].heap \in DOMAIN E
    BY DEF HeadRow, Heads
  <2>2. \A x \in DOMAIN hd2 : hd2[x] \in [size : 1 .. MEMORY, free : BOOLEAN, heap : DOMAIN E]
    BY <2>1, <1>1 DEF Marked
  <2>3. DOMAIN hd2 \subseteq 0 .. MEMORY
    BY <1>1 DEF HeadRow, Heads
  <2> QED BY <2>2, <2>3, <1>1 DEF Heads
<1>5. Started(E, hd2)
  BY <1>1, <1>2 DEF HeadRow, Started
<1>6. ASSUME NEW b \in DOMAIN hd
      PROVE  Inside(E, hd2, b) /\ Followed(E, hd2, b) /\ Preceded(hd2, b) /\ Alone(hd2, b)
  <2>1. Inside(E, hd, b) /\ Followed(E, hd, b) /\ Preceded(hd, b) /\ Alone(hd, b)
    BY DEF HeadRow
  <2>2. Inside(E, hd2, b)
    BY <2>1, <1>2, <1>3 DEF Inside
  <2>3. Followed(E, hd2, b)
    BY <2>1, <1>1, <1>2, <1>3 DEF Followed
  <2>4. Preceded(hd2, b)
    BY <2>1, <1>1, <1>2, <1>3 DEF Preceded
  <2>5. Alone(hd2, b)
    BY <2>1, <1>1, <1>3 DEF Alone
  <2> QED BY <2>2, <2>3, <2>4, <2>5
<1>7. HeadRow(E, hd2)
  BY <1>1, <1>4, <1>5, <1>6 DEF HeadRow
<1>8. FootRow(hd2, ft)
  BY <1>1, <1>2, <1>3 DEF FootRow, Footed
<1>9. Aligned(hd) => Aligned(hd2)
  BY <1>1, <1>2 DEF Aligned
<1> QED BY <1>7, <1>8, <1>9

-----------------------------------------------------------------------------
(***************************************************************************)
(* Joining the block a with the block behind it to one free block.         *)
(***************************************************************************)
Neighbours(hd, a, n) ==
  /\ a \in DOMAIN hd /\ n \in DOMAIN hd
  /\ EndOf(hd, a) = n /\ hd[n].heap = hd[a].heap

Joined(hd, hd2, a, n) ==
  /\ DOMAIN hd2 = DOMAIN hd \ {n}
  /\ hd2 = [x \in DOMAIN hd2 |-> hd2[x]]
  /\ hd2[a] = [size |-> hd[a].size + hd[n].size, free |-> TRUE, heap |-> hd[a].heap]
  /\ \A x \in DOMAIN hd2 : x # a => hd2[x] = hd[x]

(* Where the blocks around two neighbours are. *)
LEMMA AroundNeighbours ==
  ASSUME NEW E, NEW hd, HeadRow(E, hd), NEW a, NEW n, Neighbours(hd, a, n)
  PROVE  /\ a \in Nat /\ n \in Nat /\ a < n /\ n < EndOf(hd, n) /\ EndOf(hd, n) \in Nat
         /\ hd[a].size \in Nat /\ hd[n].size \in Nat /\ hd[a].size > 0 /\ hd[n].size > 0
         /\ n = a + hd[a].size
         /\ EndOf(hd, n) = a + (hd[a].size + hd[n].size)
         /\ \A b \in DOMAIN hd : b # a /\ b # n =>
              /\ b \in Nat /\ EndOf(hd, b) \in Nat /\ b < EndOf(hd, b)
              /\ \/ b < a /\ EndOf(hd, b) <= a
                 \/ EndOf(hd, n) <= b
<1>1. Heads(E, hd) /\ a \in DOMAIN hd /\ n \in DOMAIN hd /\ EndOf(hd, a) = n
  BY DEF HeadRow, Neighbours
<1>2. /\ a \in Nat /\ n \in Nat /\ a < n /\ n < EndOf(hd, n) /\ EndOf(hd, n) \in Nat
      /\ hd[a].size \in Nat /\ hd[n].size \in Nat /\ hd[a].size > 0 /\ hd[n].size > 0
      /\ n = a + hd[a].size /\ EndOf(hd, n) = n + hd[n].size
  BY <1>1, HeadsNat
<1>3. EndOf(hd, n) = a + (hd[a].size + hd[n].size)
  BY <1>2
<1>4. ASSUME NEW b \in DOMAIN hd, b # a, b # n
      PROVE  /\ b \in Nat /\ EndOf(hd, b) \in Nat /\ b < EndOf(hd, b)
             /\ \/ b < a /\ EndOf(hd, b) <= a
                \/ EndOf(hd, n) <= b
  <2>1. b \in Nat /\ EndOf(hd, b) \in Nat /\ b < EndOf(hd, b)
    BY <1>1, HeadsNat
  <2>2. n <= b \/ (EndOf(hd, b) <= a /\ b < a)
    BY <1>1, <1>4, Order
  <2>3. EndOf(hd, n) <= b \/ (EndOf(hd, b) <= n /\ b < n)
    BY <1>1, <1>4, Order
  <2> QED BY <2>1, <2>2, <2>3, <1>2
<1> QED BY <1>2, <1>3, <1>4

(* Writing a block over two neighbours joins them. *)
LEMMA JoinWrite ==
  ASSUME NEW E, NEW hd, HeadRow(E, hd), NEW a, NEW n, Neighbours(hd, a, n)
  PROVE  Joined(hd, HeadInit(hd, a, hd[a].size + hd[n].size, TRUE, hd[a].heap), a, n)
<1> DEFINE s == hd[a].size + hd[n].size
           h == hd[a].heap
           hd2 == HeadInit(hd, a, s, TRUE, h)
<1>1. a \in DOMAIN hd /\ n \in DOMAIN hd
  BY DEF Neighbours
<1>2. a \in Nat /\ n \in Nat /\ a < n /\ n < a + s /\ EndOf(hd, n) = a + s /\ s \in Nat
  BY AroundNeighbours
<1>3. \A b \in DOMAIN hd : b # a /\ b # n => b \in Nat /\ (b < a \/ a + s <= b)
  BY <1>2, AroundNeighbours
<1> HIDE DEF s, h, hd2
<1>4. /\ DOMAIN hd2 = {b \in DOMAIN hd : ~(a < b /\ b < a + s)} \cup {a}
      /\ hd2 = [x \in DOMAIN hd2 |-> hd2[x]]
      /\ hd2[a] = [size |-> s, free |-> TRUE, heap |-> h]
      /\ \A x \in DOMAIN hd2 : x # a => hd2[x] = hd[x]
  BY DEF hd2, HeadInit
<1>5. DOMAIN hd2 = DOMAIN hd \ {n}
  <2>1. \A b \in DOMAIN hd : (a < b /\ b < a + s) <=> b = n
    BY <1>2, <1>3
  <2>2. n # a
    BY <1>2
  <2> QED BY <2>1, <2>2, <1>1, <1>4
<1> QED BY <1>4, <1>5 DEF Joined, hd2, s, h

(* A row with two joined blocks is a row. *)
LEMMA JoinedRow ==
  ASSUME NEW E, LimitsOK(E), NEW hd, HeadRow(E, hd), NEW a, NEW n, Neighbours(hd, a, n),
         NEW hd2, Joined(hd, hd2, a, n)
  PROVE  /\ HeadRow(E, hd2) /\ a \in DOMAIN hd2
         /\ EndOf(hd2, a) = EndOf(hd, n)
<1>0. Heads(E, hd) /\ a \in DOMAIN hd /\ n \in DOMAIN hd /\ EndOf(hd, a) = n /\ hd[n].heap = hd[a].heap
  BY DEF HeadRow, Neighbours
<1> DEFINE s == hd[a].size + hd[n].size
           e == EndOf(hd, n)
           h == hd[a].heap
<1>1. a \in Nat /\ n \in Nat /\ a < n /\ n < e /\ e = a + s /\ s \in Nat /\ e \in Nat
  BY AroundNeighbours
<1>2. \A b \in DOMAIN hd : b # a /\ b # n =>
              /\ b \in Nat /\ EndOf(hd, b) \in Nat /\ b < EndOf(hd, b)
              /\ \/ b < a /\ EndOf(hd, b) <= a
                 \/ e <= b
  BY AroundNeighbours
<1>3. /\ DOMAIN hd2 = DOMAIN hd \ {n} /\ a \in DOMAIN hd2
      /\ hd2[a].size = s /\ hd2[a].heap = h
      /\ \A b \in DOMAIN hd2 : b # a => hd2[b] = hd[b]
  BY <1>0, <1>1 DEF Joined
<1>4. EndOf(hd2, a) = e /\ \A b \in DOMAIN hd2 : b # a => EndOf(hd2, b) = EndOf(hd, b)
  BY <1>1, <1>3 DEF EndOf
<1>5. \A b \in DOMAIN hd : /\ Inside(E, hd, b) /\ Followed(E, hd, b)
                           /\ Preceded(hd, b) /\ Alone(hd, b)
  BY DEF HeadRow
<1>6. /\ h \in DOMAIN E /\ E[h] \in Nat /\ E[h] <= MEMORY /\ MEMORY \in Nat
      /\ heap_start(h) \in Nat /\ heap_start(h) <= a /\ e <= E[h]
      /\ hd[a].size >= HEAD + FOOT /\ HEAD + FOOT \in Nat /\ hd[a].size \in Nat /\ hd[n].size \in Nat
  <2>1. h \in DOMAIN E
    BY <1>0, HeadsNat
  <2>2. Inside(E, hd, a) /\ Inside(E, hd, n)
    BY <1>0, <1>5
  <2>3. HEAD + FOOT \in Nat
    BY Units
  <2> QED BY <2>1, <2>2, <2>3, <1>0, LimitsNat, MemoryNat, HeadsNat DEF Inside
<1> HIDE DEF s, e, h
<1>7. Heads(E, hd2)
  <2>1. s \in 1 .. MEMORY
    BY <1>1, <1>6
  <2>2. hd2[a] = [size |-> s, free |-> TRUE, heap |-> h]
    BY DEF Joined, s, h
  <2>3. hd2[a] \in [size : 1 .. MEMORY, free : BOOLEAN, heap : DOMAIN E]
    BY <2>1, <2>2, <1>6
  <2>4. \A b \in DOMAIN hd : hd[b] \in [size : 1 .. MEMORY, free : BOOLEAN, heap : DOMAIN E]
    BY <1>0 DEF Heads
  <2>5. \A b \in DOMAIN hd2 : hd2[b] \in [size : 1 .. MEMORY, free : BOOLEAN, heap : DOMAIN E]
    BY <2>3, <2>4, <1>3
  <2>6. hd2 = [x \in DOMAIN hd2 |-> hd2[x]]
    BY DEF Joined
  <2>7. DOMAIN hd2 \subseteq 0 .. MEMORY
    BY <1>0, <1>3 DEF Heads
  <2> QED BY <2>5, <2>6, <2>7 DEF Heads
<1>8. \A b \in DOMAIN hd2 : hd2[b].heap = hd[b].heap
  BY <1>3 DEF h
<1>9. Started(E, hd2)
  <2>1. ASSUME NEW g \in DOMAIN E PROVE heap_start(g) \in DOMAIN hd2 /\ hd2[heap_start(g)].heap = g
    <3>1. heap_start(g) \in DOMAIN hd /\ hd[heap_start(g)].heap = g
      BY DEF HeadRow, Started
    <3>2. heap_start(g) # n
      <4>1. SUFFICES ASSUME heap_start(g) = n PROVE FALSE
        OBVIOUS
      <4>2. g = h
        BY <4>1, <3>1, <1>0 DEF h
      <4> QED BY <4>1, <4>2, <1>1, <1>6
    <3> QED BY <3>1, <3>2, <1>3, <1>8
  <2> QED BY <2>1 DEF Started
<1>10. \A b \in DOMAIN hd2 : Inside(E, hd2, b)
  <2>1. Inside(E, hd2, a)
    <3>1. s >= HEAD + FOOT
      BY <1>6 DEF s
    <3> QED BY <3>1, <1>3, <1>4, <1>6 DEF Inside
  <2>2. \A b \in DOMAIN hd2 : b # a => Inside(E, hd2, b)
    BY <1>3, <1>4, <1>5 DEF Inside
  <2> QED BY <2>1, <2>2
<1>11. \A b \in DOMAIN hd2 : Followed(E, hd2, b)
  <2>1. Followed(E, hd2, a)
    <3>1. Followed(E, hd, n)
      BY <1>0, <1>5
    <3>2. e < E[h] => e \in DOMAIN hd /\ hd[e].heap = h
      BY <3>1, <1>0 DEF Followed, e, h
    <3>3. e # n
      BY <1>1
    <3> QED BY <3>2, <3>3, <1>3, <1>4, <1>8 DEF Followed
  <2>2. ASSUME NEW b \in DOMAIN hd2, b # a PROVE Followed(E, hd2, b)
    <3>1. Followed(E, hd, b) /\ EndOf(hd2, b) = EndOf(hd, b) /\ hd2[b].heap = hd[b].heap
      BY <2>2, <1>3, <1>4, <1>5, <1>8
    <3>2. EndOf(hd, b) # n
      BY <2>2, <1>1, <1>2, <1>3
    <3> QED BY <3>1, <3>2, <1>3, <1>8 DEF Followed
  <2> QED BY <2>1, <2>2
<1>12. \A b \in DOMAIN hd2 : Preceded(hd2, b)
  <2>1. ASSUME NEW b \in DOMAIN hd2, heap_start(hd[b].heap) < b
        PROVE  \E c \in DOMAIN hd2 : EndOf(hd2, c) = b /\ hd2[c].heap = hd[b].heap
    <3>1. PICK c \in DOMAIN hd : EndOf(hd, c) = b /\ hd[c].heap = hd[b].heap
      BY <2>1, <1>3, <1>5 DEF Preceded
    <3>2. CASE c = n
      BY <3>1, <3>2, <1>0, <1>3, <1>4, <1>8 DEF e
    <3>3. CASE c # n
      <4>1. c # a
        BY <3>1, <1>0, <1>3
      <4> QED BY <4>1, <3>1, <3>3, <1>3, <1>4, <1>8
    <3> QED BY <3>2, <3>3
  <2> QED BY <2>1, <1>8 DEF Preceded
<1>13. \A b \in DOMAIN hd2 : Alone(hd2, b)
  <2>1. ASSUME NEW b \in DOMAIN hd2, NEW c \in DOMAIN hd2, c # b
        PROVE  EndOf(hd2, b) <= c \/ EndOf(hd2, c) <= b
    <3>1. CASE b = a
      BY <3>1, <2>1, <1>1, <1>2, <1>3, <1>4
    <3>2. CASE c = a
      BY <3>2, <2>1, <1>1, <1>2, <1>3, <1>4
    <3>3. CASE b # a /\ c # a
      BY <3>3, <2>1, <1>3, <1>4, <1>5 DEF Alone
    <3> QED BY <3>1, <3>2, <3>3
  <2> QED BY <2>1 DEF Alone
<1>14. HeadRow(E, hd2)
  BY <1>7, <1>9, <1>10, <1>11, <1>12, <1>13 DEF HeadRow
<1> QED BY <1>3, <1>4, <1>14 DEF e

(* The footer that a join writes, and the ones it keeps. *)
LEMMA JoinedFeet ==
  ASSUME NEW E, LimitsOK(E), NEW hd, NEW ft, HeadRow(E, hd), FootRow(hd, ft),
         NEW a, NEW n, Neighbours(hd, a, n), NEW hd2, Joined(hd, hd2, a, n)
  PROVE  FootRow(hd2, FootInit(ft, a, hd[a].size + hd[n].size))
<1> DEFINE s == hd[a].size + hd[n].size
           e == EndOf(hd, n)
           ft2 == FootInit(ft, a, s)
<1>1. a \in Nat /\ n \in Nat /\ a < n /\ n < e /\ e = a + s /\ s \in Nat /\ e \in Nat
  BY AroundNeighbours
<1>2. \A b \in DOMAIN hd : b # a /\ b # n =>
              /\ b \in Nat /\ EndOf(hd, b) \in Nat /\ b < EndOf(hd, b)
              /\ \/ b < a /\ EndOf(hd, b) <= a
                 \/ e <= b
  BY AroundNeighbours
<1>3. n \in DOMAIN hd /\ a \in DOMAIN hd /\ Heads(E, hd) /\ Inside(E, hd, n)
  BY DEF Neighbours, HeadRow
<1>4. e <= MEMORY /\ MEMORY \in Nat
  <2>1. e <= E[hd[n].heap] /\ hd[n].heap \in DOMAIN E
    BY <1>3, HeadsNat DEF Inside
  <2>2. E[hd[n].heap] \in Nat /\ E[hd[n].heap] <= MEMORY
    BY <2>1, LimitsNat
  <2> QED BY <2>1, <2>2, <1>1, MemoryNat
<1>5. Feet(ft) /\ \A b \in DOMAIN hd : EndOf(hd, b) \in DOMAIN ft /\ ft[EndOf(hd, b)] = hd[b].size
  BY DEF FootRow, Footed
<1>6. /\ DOMAIN hd2 = DOMAIN hd \ {n} /\ hd2[a].size = s
      /\ \A b \in DOMAIN hd2 : b # a => hd2[b] = hd[b]
  BY DEF Joined
<1> HIDE DEF s, e
<1>7. EndOf(hd2, a) = e /\ \A b \in DOMAIN hd2 : b # a => EndOf(hd2, b) = EndOf(hd, b)
  BY <1>1, <1>6 DEF EndOf
<1>8. s \in 1 .. MEMORY /\ a + s <= MEMORY
  BY <1>1, <1>4
<1> HIDE DEF ft2
<1>9. /\ Feet(ft2) /\ e \in DOMAIN ft2 /\ ft2[e] = s
      /\ \A x \in DOMAIN ft : x <= a \/ x > e => x \in DOMAIN ft2 /\ ft2[x] = ft[x]
  BY <1>1, <1>5, <1>8, FootInitFacts DEF ft2
<1>10. ASSUME NEW b \in DOMAIN hd2, b # a PROVE Footed(hd2, ft2, b)
  <2>1. b \in DOMAIN hd /\ b # n /\ EndOf(hd2, b) = EndOf(hd, b) /\ hd2[b] = hd[b]
    BY <1>6, <1>7, <1>10
  <2>2. EndOf(hd, b) <= a \/ EndOf(hd, b) > e
    BY <2>1, <1>1, <1>2, <1>10
  <2> QED BY <2>1, <2>2, <1>5, <1>9 DEF Footed
<1>11. Footed(hd2, ft2, a)
  BY <1>6, <1>7, <1>9 DEF Footed
<1>12. FootRow(hd2, ft2)
  BY <1>9, <1>10, <1>11 DEF FootRow
<1> QED BY <1>12 DEF ft2, s

(* A join keeps the alignment. *)
LEMMA JoinedAligned ==
  ASSUME NEW E, NEW hd, HeadRow(E, hd), NEW a, NEW n, Neighbours(hd, a, n),
         NEW hd2, Joined(hd, hd2, a, n), Aligned(hd)
  PROVE  Aligned(hd2)
<1>1. /\ hd[a].size \in Nat /\ hd[n].size \in Nat /\ ALIGNMENT \in Nat \ {0}
      /\ a \in DOMAIN hd /\ n \in DOMAIN hd
  BY HeadsNat, Units DEF HeadRow, Neighbours
<1>2. \A b \in DOMAIN hd : b % ALIGNMENT = 0 /\ hd[b].size % ALIGNMENT = 0
  BY DEF Aligned
<1>3. (hd[a].size + hd[n].size) % ALIGNMENT = 0
  BY <1>1, <1>2, AddAligned
<1>4. /\ DOMAIN hd2 \subseteq DOMAIN hd /\ hd2[a].size = hd[a].size + hd[n].size
      /\ \A b \in DOMAIN hd2 : b # a => hd2[b] = hd[b]
  BY DEF Joined
<1> QED BY <1>2, <1>3, <1>4 DEF Aligned

-----------------------------------------------------------------------------
(***************************************************************************)
(* A new heap h with the limit e, of one block.                            *)
(***************************************************************************)
Grown(E, E2, h, e) ==
  /\ DOMAIN E2 = DOMAIN E \cup {h} /\ h \notin DOMAIN E
  /\ E2[h] = e /\ \A g \in DOMAIN E : E2[g] = E[g]

(* The blocks of the other heaps are before or behind a heap. *)
LEMMA OtherHeaps ==
  ASSUME NEW E, NEW E2, NEW h, NEW e, NEW hd, LimitsOK(E2), Apart(E2), Grown(E, E2, h, e),
         HeadRow(E, hd), NEW b \in DOMAIN hd
  PROVE  /\ b \in Nat /\ EndOf(hd, b) \in Nat /\ b < EndOf(hd, b)
         /\ EndOf(hd, b) <= h \/ e < b
<1>1. Heads(E, hd) /\ Inside(E, hd, b)
  BY DEF HeadRow
<1>2. b \in Nat /\ EndOf(hd, b) \in Nat /\ b < EndOf(hd, b) /\ hd[b].heap \in DOMAIN E
  BY <1>1, HeadsNat
<1> DEFINE g == hd[b].heap
<1>3. g \in DOMAIN E2 /\ h \in DOMAIN E2 /\ g # h /\ E2[g] = E[g] /\ E2[h] = e
  BY <1>2 DEF Grown
<1>4. E2[g] <= h \/ E2[h] <= g
  BY <1>3 DEF Apart
<1>5. h \in Nat /\ g \in Nat /\ E2[h] \in Nat /\ E2[g] \in Nat /\ heap_start(g) = g + HEAP_T
  BY <1>3, LimitsNat
<1>6. heap_start(g) <= b /\ EndOf(hd, b) <= E[g]
  BY <1>1 DEF Inside
<1>7. HEAP_T \in Nat /\ HEAP_T > 0
  BY Units
<1> HIDE DEF g
<1> QED BY <1>2, <1>3, <1>4, <1>5, <1>6, <1>7

(* An allocated block is written. *)
Placed(hd, hd2, c, s, h) ==
  /\ DOMAIN hd2 = {b \in DOMAIN hd : ~(c < b /\ b < c + s)} \cup {c}
  /\ hd2 = [x \in DOMAIN hd2 |-> hd2[x]]
  /\ hd2[c] = [size |-> s, free |-> FALSE, heap |-> h]
  /\ \A x \in DOMAIN hd2 : x # c => hd2[x] = hd[x]

(* Writing a header places a block. *)
LEMMA PlaceWrite ==
  ASSUME NEW hd, NEW c, NEW s, NEW h
  PROVE  Placed(hd, HeadInit(hd, c, s, FALSE, h), c, s, h)
BY DEF Placed, HeadInit

(* The new heap and the old ones are rows of blocks. *)
LEMMA GrownRow ==
  ASSUME NEW E, NEW E2, NEW h, NEW e, NEW hd, NEW ft, LimitsOK(E2), Apart(E2), Grown(E, E2, h, e),
         HeadRow(E, hd), FootRow(hd, ft),
         NEW s \in Nat, NEW c, c = heap_start(h), c + s = e, s >= HEAD + FOOT,
         NEW hd2, Placed(hd, hd2, c, s, h), NEW ft2, ft2 = FootInit(ft, c, s)
  PROVE  /\ HeadRow(E2, hd2) /\ FootRow(hd2, ft2)
         /\ c \notin DOMAIN hd /\ DOMAIN hd2 = DOMAIN hd \cup {c}
         /\ \A b \in DOMAIN hd : hd2[b] = hd[b]
<1>0. /\ DOMAIN E2 = DOMAIN E \cup {h} /\ h \notin DOMAIN E /\ h \in DOMAIN E2
      /\ E2[h] = e /\ \A g \in DOMAIN E : E2[g] = E[g]
  BY DEF Grown
<1>1. /\ h \in Nat /\ e \in Nat /\ e <= MEMORY /\ MEMORY \in Nat /\ c \in Nat /\ h < c
      /\ HEAD + FOOT \in Nat /\ HEAD + FOOT > 0
  <2>1. h \in Nat /\ e \in Nat /\ e <= MEMORY /\ c \in Nat /\ c = h + HEAP_T
    BY <1>0, LimitsNat
  <2>2. HEAP_T \in Nat /\ HEAP_T > 0 /\ HEAD + FOOT \in Nat /\ HEAD + FOOT > 0
    BY Units
  <2> QED BY <2>1, <2>2, MemoryNat
<1>2. c + s = e /\ c < e /\ s \in 1 .. MEMORY
  BY <1>1
<1>3. \A b \in DOMAIN hd : /\ b \in Nat /\ EndOf(hd, b) \in Nat /\ b < EndOf(hd, b)
                           /\ EndOf(hd, b) <= h \/ e < b
  BY OtherHeaps
<1>4. Heads(E, hd) /\ Started(E, hd)
  BY DEF HeadRow
<1>5. \A b \in DOMAIN hd : /\ Inside(E, hd, b) /\ Followed(E, hd, b)
                           /\ Preceded(hd, b) /\ Alone(hd, b)
  BY DEF HeadRow
<1>6. /\ DOMAIN hd2 = {b \in DOMAIN hd : ~(c < b /\ b < c + s)} \cup {c}
      /\ hd2 = [x \in DOMAIN hd2 |-> hd2[x]]
      /\ hd2[c] = [size |-> s, free |-> FALSE, heap |-> h]
      /\ \A x \in DOMAIN hd2 : x # c => hd2[x] = hd[x]
  BY DEF Placed
<1>7. \A b \in DOMAIN hd : ~(c < b /\ b < c + s) /\ b # c
  BY <1>1, <1>2, <1>3
<1>8. /\ DOMAIN hd2 = DOMAIN hd \cup {c} /\ c \notin DOMAIN hd
      /\ \A b \in DOMAIN hd : hd2[b] = hd[b] /\ b # c
  BY <1>6, <1>7
<1>9. /\ EndOf(hd2, c) = e /\ hd2[c].heap = h /\ hd2[c].size = s
      /\ \A b \in DOMAIN hd : EndOf(hd2, b) = EndOf(hd, b)
  BY <1>2, <1>6, <1>8 DEF EndOf
<1>10. \A b \in DOMAIN hd : hd[b].heap \in DOMAIN E /\ E2[hd[b].heap] = E[hd[b].heap]
  BY <1>0, <1>4, HeadsNat
<1>11. Heads(E2, hd2)
  <2>1. \A b \in DOMAIN hd : hd[b] \in [size : 1 .. MEMORY, free : BOOLEAN, heap : DOMAIN E2]
    BY <1>0, <1>4 DEF Heads
  <2>2. hd2[c] \in [size : 1 .. MEMORY, free : BOOLEAN, heap : DOMAIN E2]
    BY <1>0, <1>2, <1>6
  <2>3. \A b \in DOMAIN hd2 : hd2[b] \in [size : 1 .. MEMORY, free : BOOLEAN, heap : DOMAIN E2]
    BY <2>1, <2>2, <1>8
  <2>4. c \in 0 .. MEMORY
    BY <1>1, <1>2
  <2>5. DOMAIN hd2 \subseteq 0 .. MEMORY
    BY <2>4, <1>4, <1>8 DEF Heads
  <2> QED BY <2>3, <2>5, <1>6 DEF Heads
<1>12. Started(E2, hd2)
  BY <1>0, <1>4, <1>8, <1>9 DEF Started
<1>13. \A b \in DOMAIN hd2 : Inside(E2, hd2, b)
  <2>1. Inside(E2, hd2, c)
    BY <1>0, <1>1, <1>9 DEF Inside
  <2>2. \A b \in DOMAIN hd : Inside(E2, hd2, b)
    BY <1>5, <1>8, <1>9, <1>10 DEF Inside
  <2> QED BY <2>1, <2>2, <1>8
<1>14. \A b \in DOMAIN hd2 : Followed(E2, hd2, b)
  <2>1. Followed(E2, hd2, c)
    BY <1>0, <1>1, <1>9 DEF Followed
  <2>2. \A b \in DOMAIN hd : Followed(E2, hd2, b)
    BY <1>5, <1>8, <1>9, <1>10 DEF Followed
  <2> QED BY <2>1, <2>2, <1>8
<1>15. \A b \in DOMAIN hd2 : Preceded(hd2, b)
  <2>1. Preceded(hd2, c)
    BY <1>1, <1>9 DEF Preceded
  <2>2. \A b \in DOMAIN hd : Preceded(hd2, b)
    BY <1>5, <1>8, <1>9 DEF Preceded
  <2> QED BY <2>1, <2>2, <1>8
<1>16. \A b \in DOMAIN hd2 : Alone(hd2, b)
  <2>1. \A b \in DOMAIN hd : EndOf(hd2, b) <= c \/ EndOf(hd2, c) <= b
    BY <1>1, <1>3, <1>9
  <2>2. \A b \in DOMAIN hd : Alone(hd2, b)
    BY <2>1, <1>5, <1>8, <1>9 DEF Alone
  <2>3. Alone(hd2, c)
    BY <2>1, <1>8 DEF Alone
  <2> QED BY <2>2, <2>3, <1>8
<1>17. HeadRow(E2, hd2)
  BY <1>11, <1>12, <1>13, <1>14, <1>15, <1>16 DEF HeadRow
<1>18. FootRow(hd2, ft2)
  <2>1. Feet(ft) /\ \A b \in DOMAIN hd : EndOf(hd, b) \in DOMAIN ft /\ ft[EndOf(hd, b)] = hd[b].size
    BY DEF FootRow, Footed
  <2>2. c + s <= MEMORY
    BY <1>1, <1>2
  <2>3. /\ Feet(ft2) /\ c + s \in DOMAIN ft2 /\ ft2[c + s] = s
        /\ \A x \in DOMAIN ft : x <= c \/ x > c + s => x \in DOMAIN ft2 /\ ft2[x] = ft[x]
    BY <2>1, <2>2, <1>1, <1>2, FootInitFacts
  <2>4. \A b \in DOMAIN hd : EndOf(hd, b) <= c \/ EndOf(hd, b) > c + s
    BY <1>1, <1>2, <1>3
  <2>5. \A b \in DOMAIN hd : Footed(hd2, ft2, b)
    BY <2>1, <2>3, <2>4, <1>8, <1>9 DEF Footed
  <2>6. Footed(hd2, ft2, c)
    BY <2>3, <1>2, <1>9 DEF Footed
  <2> QED BY <2>3, <2>5, <2>6, <1>8 DEF FootRow
<1> QED BY <1>6, <1>8, <1>17, <1>18

(* Writing a block and dividing it is the same as writing the two parts. *)
LEMMA PlaceDivide ==
  ASSUME NEW hd, NEW c \in Nat, NEW s \in Nat, NEW n \in Nat \ {0}, n < s, NEW h,
         NEW hd1, Placed(hd, hd1, c, s, h),
         \A b \in DOMAIN hd : b \in Nat /\ (b < c \/ b >= c + s)
  PROVE  Divided(hd1, HeadInit(HeadInit(hd, c + n, s - n, TRUE, h), c, n, FALSE, h), c, n)
<1> DEFINE q == c + n
           x == HeadInit(hd, q, s - n, TRUE, h)
           y == HeadInit(x, c, n, FALSE, h)
<1>1. q \in Nat /\ q + (s - n) = c + s /\ c < q /\ q < c + s
  OBVIOUS
<1> HIDE DEF q, x, y
<1>2. /\ DOMAIN x = {b \in DOMAIN hd : ~(q < b /\ b < q + (s - n))} \cup {q}
      /\ x[q] = [size |-> s - n, free |-> TRUE, heap |-> h]
      /\ \A b \in DOMAIN x : b # q => x[b] = hd[b]
  BY DEF x, HeadInit
<1>3. /\ DOMAIN y = {b \in DOMAIN x : ~(c < b /\ b < c + n)} \cup {c}
      /\ y = [b \in DOMAIN y |-> y[b]]
      /\ y[c] = [size |-> n, free |-> FALSE, heap |-> h]
      /\ \A b \in DOMAIN y : b # c => y[b] = x[b]
  BY DEF y, HeadInit
<1>4. \A b \in DOMAIN hd : ~(q < b /\ b < q + (s - n)) /\ ~(c < b /\ b < c + s) /\ b # q /\ b # c
  BY <1>1
<1>5. DOMAIN x = DOMAIN hd \cup {q} /\ q \notin DOMAIN hd /\ q # c
  BY <1>1, <1>2, <1>4
<1>6. \A b \in DOMAIN x : ~(c < b /\ b < c + n)
  <2>1. \A b \in DOMAIN hd : ~(c < b /\ b < c + n)
    OBVIOUS
  <2>2. ~(q < c + n)
    BY DEF q
  <2> QED BY <2>1, <2>2, <1>5
<1>7. DOMAIN y = DOMAIN hd \cup {q, c}
  BY <1>3, <1>5, <1>6
<1>8. /\ DOMAIN hd1 = DOMAIN hd \cup {c}
      /\ \A b \in DOMAIN hd : hd1[b] = hd[b] /\ b # c
      /\ hd1[c].size = s /\ hd1[c].heap = h
  BY <1>4 DEF Placed
<1>9. y[q] = [size |-> s - n, free |-> TRUE, heap |-> h]
  BY <1>2, <1>3, <1>5, <1>7
<1>10. \A b \in DOMAIN hd1 : b # c => y[b] = hd1[b]
  BY <1>2, <1>3, <1>5, <1>7, <1>8
<1>11. Divided(hd1, y, c, n)
  BY <1>3, <1>5, <1>7, <1>8, <1>9, <1>10 DEF Divided, q
<1> QED BY <1>11 DEF y, x, q

(* The footers after the two writes do not depend on the first. *)
LEMMA WriteTwiceFeet ==
  ASSUME NEW ft, DOMAIN ft \subseteq Nat,
         NEW c \in Nat, NEW s \in Nat, NEW n \in Nat \ {0}, n < s
  PROVE  FootInit(FootInit(FootInit(ft, c, s), c + n, s - n), c, n)
           = FootInit(FootInit(ft, c + n, s - n), c, n)
<1> DEFINE q == c + n
           t == s - n
           ft1 == FootInit(ft, c, s)
<1>0. q = c + n /\ q \in Nat /\ q + t = c + s /\ c < q /\ q < c + s /\ q # c /\ q # c + s
  OBVIOUS
<1> HIDE DEF q, t
<1> DEFINE x == FootInit(ft1, q, t)
           y == FootInit(ft, q, t)
           x2 == FootInit(x, c, n)
           y2 == FootInit(y, c, n)
<1>1. /\ DOMAIN ft1 = {b \in DOMAIN ft : ~(c < b /\ b < c + s)} \cup {c + s}
      /\ \A b \in DOMAIN ft1 : b # c + s => ft1[b] = ft[b]
  BY DEF FootInit
<1> HIDE DEF ft1
<1>2. /\ DOMAIN x = {b \in DOMAIN ft1 : ~(q < b /\ b < q + t)} \cup {q + t}
      /\ DOMAIN y = {b \in DOMAIN ft : ~(q < b /\ b < q + t)} \cup {q + t}
      /\ \A b \in DOMAIN x : b # q + t => x[b] = ft1[b]
      /\ \A b \in DOMAIN y : b # q + t => y[b] = ft[b]
      /\ x[q + t] = y[q + t]
  BY DEF FootInit
<1> HIDE DEF x, y
<1>3. /\ DOMAIN x2 = {b \in DOMAIN x : ~(c < b /\ b < c + n)} \cup {c + n}
      /\ DOMAIN y2 = {b \in DOMAIN y : ~(c < b /\ b < c + n)} \cup {c + n}
      /\ \A b \in DOMAIN x2 : b # c + n => x2[b] = x[b]
      /\ \A b \in DOMAIN y2 : b # c + n => y2[b] = y[b]
      /\ x2[c + n] = y2[c + n]
      /\ x2 = [b \in DOMAIN x2 |-> x2[b]] /\ y2 = [b \in DOMAIN y2 |-> y2[b]]
  BY DEF FootInit
<1> HIDE DEF x2, y2
<1>4. \A b \in DOMAIN y2 : b \in DOMAIN x2 /\ x2[b] = y2[b]
  <2>1. ASSUME NEW b \in DOMAIN y2, b # c + s, b # q PROVE b \in DOMAIN x2 /\ x2[b] = y2[b]
    <3>1. b \in DOMAIN ft /\ b \in Nat /\ ~(q < b /\ b < c + s) /\ ~(c < b /\ b < q)
      BY <2>1, <1>2, <1>3, <1>0
    <3>2. ~(c < b /\ b < c + s)
      BY <3>1, <2>1, <1>0
    <3>3. b \in DOMAIN ft1 /\ b \in DOMAIN x /\ b \in DOMAIN x2 /\ b \in DOMAIN y
      BY <3>1, <3>2, <2>1, <1>1, <1>2, <1>3, <1>0
    <3> QED BY <3>3, <2>1, <1>1, <1>2, <1>3, <1>0
  <2>2. c + s \in DOMAIN x2 /\ c + s \in DOMAIN y2 /\ x2[c + s] = y2[c + s]
    BY <1>2, <1>3, <1>0
  <2>3. q \in DOMAIN x2 /\ q \in DOMAIN y2 /\ x2[q] = y2[q]
    BY <1>0, <1>3
  <2> QED BY <2>1, <2>2, <2>3
<1>5. \A b \in DOMAIN x2 : b \in DOMAIN y2
  BY <1>1, <1>2, <1>3, <1>0
<1>6. DOMAIN x2 = DOMAIN y2
  BY <1>4, <1>5
<1>7. x2 = y2
  BY <1>3, <1>4, <1>6
<1> QED BY <1>7 DEF x2, y2, x, y, ft1, q, t

(* A new heap of two blocks. *)
LEMMA GrownTwice ==
  ASSUME NEW E, NEW E2, NEW h, NEW e, NEW hd, NEW ft, LimitsOK(E2), Apart(E2), Grown(E, E2, h, e),
         HeadRow(E, hd), FootRow(hd, ft),
         NEW s \in Nat, NEW c, c = heap_start(h), c + s = e,
         NEW n \in Nat \ {0}, n >= HEAD + FOOT, s - n >= HEAD + FOOT, n < s,
         NEW hd1, Placed(hd, hd1, c, s, h), HeadRow(E2, hd1), NEW ft1, ft1 = FootInit(ft, c, s), FootRow(hd1, ft1),
         NEW hd2, Divided(hd1, hd2, c, n),
         NEW ft2, ft2 = FootInit(FootInit(ft, c + n, s - n), c, n)
  PROVE  HeadRow(E2, hd2) /\ FootRow(hd2, ft2)
<1>1. c \in DOMAIN hd1 /\ hd1[c].size = s
  BY DEF Placed
<1>2. HeadRow(E2, hd2)
  BY <1>1, DividedRow
<1>3. c \in Nat
  BY LimitsNat DEF Grown
<1>4. DOMAIN ft \subseteq Nat
  BY DEF FootRow, Feet
<1> DEFINE q == c + n
           t == s - n
<1>5. FootInit(FootInit(ft1, q, t), c, n) = FootInit(FootInit(ft, q, t), c, n)
  BY <1>3, <1>4, WriteTwiceFeet
<1>6. FootRow(hd2, FootInit(FootInit(ft1, c + n, hd1[c].size - n), c, n))
  BY <1>1, DividedFeet
<1> QED BY <1>1, <1>2, <1>5, <1>6

-----------------------------------------------------------------------------
(* A heap disappears with its blocks and the footers in it. *)
LEMMA ReleasedRow ==
  ASSUME NEW E, NEW E2, NEW h, LimitsOK(E), Apart(E), h \in DOMAIN E,
         DOMAIN E2 = DOMAIN E \ {h}, \A g \in DOMAIN E2 : E2[g] = E[g],
         NEW hd, NEW ft, HeadRow(E, hd), FootRow(hd, ft),
         NEW hd2, hd2 = [a \in DOMAIN hd \ {b \in DOMAIN hd : hd[b].heap = h} |-> hd[a]],
         NEW ft2, ft2 = [a \in DOMAIN ft \ {b \in DOMAIN ft : h < b /\ b <= E[h]} |-> ft[a]]
  PROVE  HeadRow(E2, hd2) /\ FootRow(hd2, ft2) /\ (Aligned(hd) => Aligned(hd2))
<1>1. /\ DOMAIN hd2 = {b \in DOMAIN hd : hd[b].heap # h}
      /\ \A b \in DOMAIN hd2 : b \in DOMAIN hd /\ hd2[b] = hd[b] /\ hd[b].heap # h
  OBVIOUS
<1>2. hd2 = [x \in DOMAIN hd2 |-> hd2[x]]
  OBVIOUS
<1>3. \A b \in DOMAIN hd2 : EndOf(hd2, b) = EndOf(hd, b)
  BY <1>1 DEF EndOf
<1>4. Heads(E, hd) /\ Started(E, hd)
  BY DEF HeadRow
<1>5. \A b \in DOMAIN hd : /\ Inside(E, hd, b) /\ Followed(E, hd, b)
                           /\ Preceded(hd, b) /\ Alone(hd, b)
  BY DEF HeadRow
<1>6. \A b \in DOMAIN hd2 : hd[b].heap \in DOMAIN E /\ hd[b].heap \in DOMAIN E2 /\ E2[hd[b].heap] = E[hd[b].heap]
  BY <1>1, <1>4, HeadsNat
<1>7. Heads(E2, hd2)
  <2>1. \A b \in DOMAIN hd2 : hd2[b] \in [size : 1 .. MEMORY, free : BOOLEAN, heap : DOMAIN E2]
    <3>1. \A b \in DOMAIN hd : hd[b] \in [size : 1 .. MEMORY, free : BOOLEAN, heap : DOMAIN E]
      BY <1>4 DEF Heads
    <3> QED BY <3>1, <1>1, <1>6
  <2>2. DOMAIN hd2 \subseteq 0 .. MEMORY
    BY <1>1, <1>4 DEF Heads
  <2> QED BY <2>1, <2>2, <1>2 DEF Heads
<1>8. Started(E2, hd2)
  BY <1>1, <1>4 DEF Started
<1>9. \A b \in DOMAIN hd2 : Inside(E2, hd2, b)
  BY <1>1, <1>3, <1>5, <1>6 DEF Inside
<1>10. \A b \in DOMAIN hd2 : Followed(E2, hd2, b)
  BY <1>1, <1>3, <1>5, <1>6 DEF Followed
<1>11. \A b \in DOMAIN hd2 : Preceded(hd2, b)
  <2>1. ASSUME NEW b \in DOMAIN hd2, heap_start(hd[b].heap) < b
        PROVE  \E c \in DOMAIN hd2 : EndOf(hd2, c) = b /\ hd2[c].heap = hd[b].heap
    <3>1. PICK c \in DOMAIN hd : EndOf(hd, c) = b /\ hd[c].heap = hd[b].heap
      BY <2>1, <1>1, <1>5 DEF Preceded
    <3>2. c \in DOMAIN hd2
      BY <3>1, <1>1
    <3> QED BY <3>1, <3>2, <1>1, <1>3
  <2> QED BY <2>1, <1>1 DEF Preceded
<1>12. \A b \in DOMAIN hd2 : Alone(hd2, b)
  BY <1>1, <1>3, <1>5 DEF Alone
<1>13. FootRow(hd2, ft2)
  <2>1. Feet(ft) /\ \A b \in DOMAIN hd : EndOf(hd, b) \in DOMAIN ft /\ ft[EndOf(hd, b)] = hd[b].size
    BY DEF FootRow, Footed
  <2>2. Feet(ft2)
    BY <2>1 DEF Feet
  <2>3. ASSUME NEW b \in DOMAIN hd2 PROVE Footed(hd2, ft2, b)
    <3> DEFINE g == hd[b].heap
               z == EndOf(hd, b)
    <3>1. b \in DOMAIN hd /\ g # h /\ g \in DOMAIN E /\ z \in Nat /\ b < z /\ b \in Nat
      BY <1>1, <1>4, <1>6, HeadsNat
    <3>2. /\ g \in Nat /\ h \in Nat /\ E[g] \in Nat /\ E[h] \in Nat
          /\ heap_start(g) = g + HEAP_T /\ HEAP_T \in Nat
      BY <3>1, LimitsNat, Units
    <3>3. heap_start(g) <= b /\ z <= E[g]
      BY <3>1, <1>5 DEF Inside
    <3>4. E[g] <= h \/ E[h] <= g
      BY <3>1 DEF Apart
    <3>5. z \in DOMAIN ft /\ ft[z] = hd[b].size
      BY <3>1, <2>1
    <3> HIDE DEF g, z
    <3>6. ~(h < z /\ z <= E[h])
      BY <3>1, <3>2, <3>3, <3>4
    <3>7. z \in DOMAIN ft2 /\ ft2[z] = hd[b].size
      BY <3>5, <3>6
    <3> QED BY <3>7, <1>1, <1>3 DEF Footed, z
  <2> QED BY <2>2, <2>3 DEF FootRow
<1>14. Aligned(hd) => Aligned(hd2)
  BY <1>1 DEF Aligned
<1> QED BY <1>7, <1>8, <1>9, <1>10, <1>11, <1>12, <1>13, <1>14 DEF HeadRow

-----------------------------------------------------------------------------
(* A heap that begins with the frame f and owns c frames. *)
LEMMA FrameArithmetic ==
  ASSUME NEW f \in Nat, NEW c \in Nat
  PROVE  /\ f * FRAME_SIZE \in Nat /\ (f * FRAME_SIZE) \div FRAME_SIZE = f
         /\ f * FRAME_SIZE + c * FRAME_SIZE = (f + c) * FRAME_SIZE
         /\ c * FRAME_SIZE \in Nat
         /\ (c * FRAME_SIZE) % ALIGNMENT = 0
<1>1. FRAME_SIZE \in Nat \ {0} /\ ALIGNMENT \in Nat \ {0} /\ FRAME_SIZE % ALIGNMENT = 0
  BY Units
<1>2. f * FRAME_SIZE \in Nat /\ c * FRAME_SIZE \in Nat /\ f * FRAME_SIZE + c * FRAME_SIZE = (f + c) * FRAME_SIZE
  BY <1>1, Distribute
<1>3. (f * FRAME_SIZE) \div FRAME_SIZE = f
  BY <1>1, Divide
<1> DEFINE k == FRAME_SIZE \div ALIGNMENT
<1>4. k \in Nat /\ FRAME_SIZE = ALIGNMENT * k
  BY <1>1, Divide
<1> HIDE DEF k
<1>5. c * k \in Nat
  BY <1>4
<1>6. c * FRAME_SIZE = (c * k) * ALIGNMENT
  BY <1>1, <1>4, <1>5
<1>7. ((c * k) * ALIGNMENT) % ALIGNMENT = 0
  BY <1>1, <1>5, Divide
<1> QED BY <1>2, <1>3, <1>6, <1>7

(* Frames are ordered as their addresses. *)
LEMMA FrameOrder ==
  ASSUME NEW a \in Nat, NEW b \in Nat, a <= b
  PROVE  a * FRAME_SIZE <= b * FRAME_SIZE
BY Units, Distribute

(* A run of frames. *)
LEMMA Runs ==
  ASSUME NEW f \in Nat, NEW c \in Nat \ {0}
  PROVE  /\ f \in Run(f, c)
         /\ Run(f, c) \subseteq Frame => f + c <= FRAMES
         /\ \A f2 \in Nat, c2 \in Nat \ {0} :
              Run(f, c) \cap Run(f2, c2) = {} => f + c <= f2 \/ f2 + c2 <= f
<1>1. f \in Run(f, c)
  BY DEF Run
<1>2. Run(f, c) \subseteq Frame => f + c <= FRAMES
  <2>1. f + c - 1 \in Run(f, c)
    BY DEF Run
  <2>2. FRAMES \in Nat
    BY Units
  <2> QED BY <2>1, <2>2 DEF Frame
<1>3. ASSUME NEW f2 \in Nat, NEW c2 \in Nat \ {0}, Run(f, c) \cap Run(f2, c2) = {}
      PROVE  f + c <= f2 \/ f2 + c2 <= f
  <2>1. f2 \notin Run(f, c) \/ f2 \notin Run(f2, c2)
    BY <1>3
  <2>2. f \notin Run(f, c) \/ f \notin Run(f2, c2)
    BY <1>3
  <2> QED BY <2>1, <2>2 DEF Run
<1> QED BY <1>1, <1>2, <1>3

(* Heaps with frames of their own are inside memory and apart. *)
LEMMA HeapsApart ==
  ASSUME NEW H, NEW fr \in [H -> 1 .. FRAMES],
         \A h \in H : \E f \in Frame : h = f * FRAME_SIZE,
         \A h \in H : Run(h \div FRAME_SIZE, fr[h]) \subseteq Frame,
         \A g, h \in H : g # h => Run(g \div FRAME_SIZE, fr[g]) \cap Run(h \div FRAME_SIZE, fr[h]) = {}
  PROVE  /\ DOMAIN Limits(fr) = H /\ LimitsOK(Limits(fr)) /\ Apart(Limits(fr))
         /\ \A h \in H : Limits(fr)[h] = h + fr[h] * FRAME_SIZE
<1> DEFINE E == Limits(fr)
<1>1. DOMAIN E = H /\ \A h \in H : E[h] = h + fr[h] * FRAME_SIZE
  BY DEF Limits
<1>2. E = [h \in DOMAIN E |-> E[h]]
  BY DEF Limits
<1> HIDE DEF E
<1> DEFINE d(h) == h \div FRAME_SIZE
<1>3. ASSUME NEW h \in H
      PROVE  /\ d(h) \in Nat /\ fr[h] \in Nat \ {0} /\ h = d(h) * FRAME_SIZE
             /\ d(h) + fr[h] <= FRAMES
             /\ E[h] = (d(h) + fr[h]) * FRAME_SIZE
  <2>1. FRAMES \in Nat
    BY Units
  <2>2. fr[h] \in Nat \ {0}
    BY <2>1
  <2>3. PICK f \in Frame : h = f * FRAME_SIZE
    OBVIOUS
  <2>4. f \in Nat
    BY <2>1 DEF Frame
  <2>5. d(h) = f
    BY <2>3, <2>4, FrameArithmetic
  <2>6. Run(f, fr[h]) \subseteq Frame
    BY <2>5
  <2>7. f + fr[h] <= FRAMES
    BY <2>2, <2>4, <2>6, Runs
  <2>8. f * FRAME_SIZE + fr[h] * FRAME_SIZE = (f + fr[h]) * FRAME_SIZE
    BY <2>2, <2>4, FrameArithmetic
  <2> QED BY <2>2, <2>3, <2>4, <2>5, <2>7, <2>8, <1>1
<1> HIDE DEF d
<1>4. \A h \in H : h \in 0 .. MEMORY /\ E[h] \in 0 .. MEMORY
  <2>1. ASSUME NEW h \in H PROVE h \in 0 .. MEMORY /\ E[h] \in 0 .. MEMORY
    <3>1. FRAMES \in Nat /\ MEMORY \in Nat /\ MEMORY = FRAMES * FRAME_SIZE
      BY Units, MemoryNat DEF MEMORY
    <3>2. d(h) \in Nat /\ d(h) + fr[h] \in Nat /\ d(h) <= d(h) + fr[h] /\ d(h) + fr[h] <= FRAMES
      BY <3>1, <1>3
    <3>3. d(h) * FRAME_SIZE <= (d(h) + fr[h]) * FRAME_SIZE
      BY <3>2, FrameOrder
    <3>4. (d(h) + fr[h]) * FRAME_SIZE <= FRAMES * FRAME_SIZE
      BY <3>1, <3>2, FrameOrder
    <3>5. d(h) * FRAME_SIZE \in Nat /\ (d(h) + fr[h]) * FRAME_SIZE \in Nat
      BY <3>2, FrameArithmetic
    <3>6. h \in Nat /\ E[h] \in Nat /\ h <= E[h] /\ E[h] <= MEMORY
      BY <3>1, <3>3, <3>4, <3>5, <1>3
    <3> QED BY <3>1, <3>6
  <2> QED BY <2>1
<1>5. LimitsOK(E)
  BY <1>1, <1>2, <1>4 DEF LimitsOK
<1>6. Apart(E)
  <2>1. ASSUME NEW g \in H, NEW h \in H, g # h PROVE E[g] <= h \/ E[h] <= g
    <3>1. Run(d(g), fr[g]) \cap Run(d(h), fr[h]) = {}
      BY <2>1 DEF d
    <3>2. d(g) \in Nat /\ fr[g] \in Nat \ {0} /\ d(h) \in Nat /\ fr[h] \in Nat \ {0}
      BY <1>3
    <3>3. d(g) + fr[g] <= d(h) \/ d(h) + fr[h] <= d(g)
      BY <3>1, <3>2, Runs
    <3>4. d(g) + fr[g] \in Nat /\ d(h) + fr[h] \in Nat
      BY <3>2
    <3>5. (d(g) + fr[g]) * FRAME_SIZE <= d(h) * FRAME_SIZE \/ (d(h) + fr[h]) * FRAME_SIZE <= d(g) * FRAME_SIZE
      BY <3>2, <3>3, <3>4, FrameOrder
    <3> QED BY <3>5, <1>3
  <2> QED BY <2>1, <1>1 DEF Apart
<1> QED BY <1>1, <1>5, <1>6 DEF E

-----------------------------------------------------------------------------
(* The limits of the listed heaps. *)
LEMMA HeapsFacts ==
  ASSUME HeapsInv
  PROVE  /\ DOMAIN Limits(frames) = Items(heaps) /\ LimitsOK(Limits(frames)) /\ Apart(Limits(frames))
         /\ \A h \in Items(heaps) : Limits(frames)[h] = heap_end(h)
<1>1. /\ frames \in [Items(heaps) -> 1 .. FRAMES]
      /\ \A h \in Items(heaps) : \E f \in Frame : h = f * FRAME_SIZE
      /\ used \subseteq Frame
  BY DEF HeapsInv
<1>2. \A h \in Items(heaps) : Run(h \div FRAME_SIZE, frames[h]) \subseteq used
  BY DEF HeapsInv, FramesExact, FramesOf
<1>3. \A g, h \in Items(heaps) : g # h =>
         Run(g \div FRAME_SIZE, frames[g]) \cap Run(h \div FRAME_SIZE, frames[h]) = {}
  BY DEF HeapsInv, FramesExact, FramesOf
<1>4. \A h \in Items(heaps) : Run(h \div FRAME_SIZE, frames[h]) \subseteq Frame
  BY <1>1, <1>2
<1>5. /\ DOMAIN Limits(frames) = Items(heaps) /\ LimitsOK(Limits(frames)) /\ Apart(Limits(frames))
      /\ \A h \in Items(heaps) : Limits(frames)[h] = h + frames[h] * FRAME_SIZE
  BY <1>1, <1>3, <1>4, HeapsApart
<1> QED BY <1>5 DEF heap_end

(* A place in the list holds a heap. *)
LEMMA HeapsAt ==
  ASSUME HeapsInv, NEW i \in 1 .. Len(heaps)
  PROVE  heaps[i] \in Items(heaps) /\ Len(heaps) \in Nat
BY DEF HeapsInv, Items

(* The memory of the present state. *)
LEMMA MemFields == Mem.head = head /\ Mem.foot = foot
BY DEF Mem

(* What holds of the headers when HInv does. *)
LEMMA HInvRow ==
  ASSUME HInv
  PROVE  /\ HeapsInv /\ HeadRow(Limits(frames), head) /\ FootRow(head, foot) /\ Aligned(head)
         /\ Heads(Limits(frames), head)
         /\ \A b \in DOMAIN head :
              /\ b \in Nat /\ b <= MEMORY /\ EndOf(head, b) \in Nat /\ b < EndOf(head, b)
              /\ EndOf(head, b) = b + head[b].size /\ head[b].size \in Nat
              /\ head[b].heap \in Items(heaps) /\ head[b].free \in BOOLEAN
              /\ heap_start(head[b].heap) <= b /\ EndOf(head, b) <= heap_end(head[b].heap)
              /\ heap_start(head[b].heap) \in Nat /\ heap_end(head[b].heap) \in Nat
<1>1. HeapsInv /\ HeadRow(Limits(frames), head) /\ FootRow(head, foot) /\ Aligned(head)
  BY DEF HInv, Row
<1>2. Heads(Limits(frames), head)
  BY <1>1 DEF HeadRow
<1>3. /\ DOMAIN Limits(frames) = Items(heaps) /\ LimitsOK(Limits(frames))
      /\ \A h \in Items(heaps) : Limits(frames)[h] = heap_end(h)
  BY <1>1, HeapsFacts
<1>4. ASSUME NEW b \in DOMAIN head
      PROVE   /\ b \in Nat /\ b <= MEMORY /\ EndOf(head, b) \in Nat /\ b < EndOf(head, b)
              /\ EndOf(head, b) = b + head[b].size /\ head[b].size \in Nat
              /\ head[b].heap \in Items(heaps) /\ head[b].free \in BOOLEAN
              /\ heap_start(head[b].heap) <= b /\ EndOf(head, b) <= heap_end(head[b].heap)
              /\ heap_start(head[b].heap) \in Nat /\ heap_end(head[b].heap) \in Nat
  <2>1. /\ b \in Nat /\ b <= MEMORY /\ EndOf(head, b) \in Nat /\ b < EndOf(head, b)
        /\ EndOf(head, b) = b + head[b].size /\ head[b].size \in Nat
        /\ head[b].heap \in DOMAIN Limits(frames) /\ head[b].free \in BOOLEAN
    BY <1>2, HeadsNat
  <2>2. /\ heap_start(head[b].heap) <= b
        /\ EndOf(head, b) <= Limits(frames)[head[b].heap]
    BY <1>1 DEF HeadRow, Inside
  <2>3. heap_start(head[b].heap) \in Nat /\ Limits(frames)[head[b].heap] \in Nat
    BY <2>1, <1>3, LimitsNat
  <2> QED BY <2>1, <2>2, <2>3, <1>3
<1> QED BY <1>1, <1>2, <1>4

(* The block that the scan looks at. *)
LEMMA ScanBlock ==
  ASSUME HInv, Visiting
  PROVE  /\ pos \in DOMAIN head /\ head[pos].heap = heaps[hp]
         /\ hp \in 1 .. Len(heaps) /\ heaps[hp] \in Items(heaps)
         /\ req \in Sizes /\ req \in Nat
<1>1. pc = "scan" /\ hp <= Len(heaps) /\ pos < heap_end(heaps[hp])
  BY DEF Visiting
<1>2. req \in Sizes /\ hp \in 1 .. Len(heaps) + 1 /\ pos \in 0 .. MEMORY
  BY <1>1 DEF HInv, ScanInv
<1>3. Len(heaps) \in Nat
  BY DEF HInv, HeapsInv
<1>4. hp \in 1 .. Len(heaps)
  BY <1>1, <1>2, <1>3
<1>5. heaps[hp] \in Items(heaps)
  BY <1>4, HeapsAt DEF HInv
<1>6. heap_end(heaps[hp]) \in Nat /\ pos \in Nat
  <2>1. LimitsOK(Limits(frames)) /\ DOMAIN Limits(frames) = Items(heaps) /\ Limits(frames)[heaps[hp]] = heap_end(heaps[hp])
    BY <1>5, HeapsFacts DEF HInv
  <2>2. Limits(frames)[heaps[hp]] \in Nat
    BY <2>1, <1>5, LimitsNat
  <2> QED BY <2>1, <2>2, <1>2, MemoryNat
<1>7. pos # heap_end(heaps[hp])
  BY <1>1, <1>6
<1>8. pos \in DOMAIN head /\ head[pos].heap = heaps[hp]
  BY <1>1, <1>7 DEF HInv, ScanInv
<1> QED BY <1>2, <1>4, <1>5, <1>8, Units

(* The first block of a heap. *)
LEMMA StartBlock ==
  ASSUME HInv, NEW h \in Items(heaps)
  PROVE  /\ heap_start(h) \in DOMAIN head /\ head[heap_start(h)].heap = h
         /\ heap_start(h) \in 0 .. MEMORY
<1>1. DOMAIN Limits(frames) = Items(heaps) /\ HeadRow(Limits(frames), head)
  BY HeapsFacts, HInvRow
<1>2. heap_start(h) \in DOMAIN head /\ head[heap_start(h)].heap = h
  BY <1>1 DEF HeadRow, Started
<1> QED BY <1>1, <1>2 DEF HeadRow, Heads

(* Steps that leave the blocks alone. *)
LEMMA SameBlocks ==
  ASSUME HInv, UNCHANGED <<heaps, frames, used, head, foot>>, ScanInv'
  PROVE  HInv'
<1>1. HeapsInv'
  BY DEF HInv, HeapsInv, FramesExact, FramesOf
<1>2. Row(Limits(frames), head, foot)' /\ Aligned(head)'
  BY DEF HInv
<1> QED BY <1>1, <1>2 DEF HInv

(* malloc starts at the first block of the first heap. *)
LEMMA MallocStep ==
  ASSUME HInv, NEW size \in Sizes, malloc(size)
  PROVE  HInv'
<1>1. /\ pc' = "scan" /\ req' = size /\ hp' = 1
      /\ pos' = IF heaps = << >> THEN 0 ELSE heap_start(heaps[1])
      /\ UNCHANGED <<heaps, frames, used, head, foot>>
  BY DEF malloc
<1>2. heaps \in Seq(0 .. MEMORY) /\ Len(heaps) \in Nat
  BY DEF HInv, HeapsInv
<1>3. CASE heaps = << >>
  <2>1. Len(heaps) = 0 /\ pos' = 0 /\ MEMORY \in Nat
    BY <1>1, <1>3, MemoryNat
  <2>2. ScanInv'
    BY <2>1, <1>1 DEF ScanInv
  <2> QED BY <2>2, <1>1, SameBlocks
<1>4. CASE heaps # << >>
  <2>1. 1 \in 1 .. Len(heaps)
    BY <1>2, <1>4
  <2>2. heaps[1] \in Items(heaps)
    BY <2>1 DEF Items
  <2>3. pos' \in DOMAIN head /\ head[pos'].heap = heaps[1] /\ pos' \in 0 .. MEMORY
    BY <2>2, <1>1, <1>4, StartBlock
  <2>4. ScanInv'
    BY <2>1, <2>3, <1>1, <1>2 DEF ScanInv
  <2> QED BY <2>4, <1>1, SameBlocks
<1> QED BY <1>3, <1>4

(* A skip goes on to the next block, or to the end of the heap. *)
LEMMA SkipStep ==
  ASSUME HInv, malloc_skip
  PROVE  HInv'
<1>1. Visiting /\ pos' = pos + head[pos].size /\ UNCHANGED <<heaps, frames, used, head, foot, pc, req, hp>>
  BY DEF malloc_skip
<1>2. /\ pos \in DOMAIN head /\ head[pos].heap = heaps[hp]
      /\ hp \in 1 .. Len(heaps) /\ heaps[hp] \in Items(heaps)
  BY <1>1, ScanBlock
<1>3. /\ pos' = EndOf(head, pos) /\ pos' \in Nat /\ pos' <= heap_end(heaps[hp]) /\ heap_end(heaps[hp]) \in Nat
      /\ HeapsInv
  BY <1>1, <1>2, HInvRow
<1>4. /\ DOMAIN Limits(frames) = Items(heaps) /\ LimitsOK(Limits(frames))
      /\ Limits(frames)[heaps[hp]] = heap_end(heaps[hp])
  BY <1>2, <1>3, HeapsFacts
<1>5. heap_end(heaps[hp]) <= MEMORY
  BY <1>2, <1>4, LimitsNat
<1>6. Followed(Limits(frames), head, pos)
  BY <1>2, HInvRow DEF HeadRow
<1>7. pos' < heap_end(heaps[hp]) => pos' \in DOMAIN head /\ head[pos'].heap = heaps[hp]
  BY <1>2, <1>3, <1>4, <1>6 DEF Followed
<1>8. \/ pos' \in DOMAIN head /\ head[pos'].heap = heaps[hp]
      \/ pos' = heap_end(heaps[hp])
  BY <1>3, <1>7
<1>9. pos' \in 0 .. MEMORY
  BY <1>3, <1>5, MemoryNat
<1>10. pc = "scan" /\ req \in Sizes /\ hp \in 1 .. Len(heaps) + 1
  BY <1>1 DEF HInv, ScanInv, Visiting
<1>11. ScanInv'
  BY <1>1, <1>8, <1>9, <1>10 DEF ScanInv, heap_end
<1> QED BY <1>1, <1>11, SameBlocks

(* The scan goes on to the first block of the next heap. *)
LEMMA NextHeapStep ==
  ASSUME HInv, malloc_next_heap
  PROVE  HInv'
<1>1. /\ pc = "scan" /\ hp <= Len(heaps) /\ hp' = hp + 1
      /\ pos' = IF hp < Len(heaps) THEN heap_start(heaps[hp + 1]) ELSE 0
      /\ UNCHANGED <<heaps, frames, used, head, foot, pc, req>>
  BY DEF malloc_next_heap
<1>2. req \in Sizes /\ hp \in 1 .. Len(heaps) + 1 /\ Len(heaps) \in Nat
  BY <1>1 DEF HInv, ScanInv, HeapsInv
<1>3. hp' \in 1 .. Len(heaps) + 1
  BY <1>1, <1>2
<1>4. CASE hp < Len(heaps)
  <2>1. hp + 1 \in 1 .. Len(heaps)
    BY <1>2, <1>4
  <2>2. heaps[hp + 1] \in Items(heaps)
    BY <2>1 DEF Items
  <2>3. pos' \in DOMAIN head /\ head[pos'].heap = heaps[hp + 1] /\ pos' \in 0 .. MEMORY
    BY <2>2, <1>1, <1>4, StartBlock
  <2>4. ScanInv'
    BY <2>3, <1>1, <1>2, <1>3 DEF ScanInv
  <2> QED BY <2>4, <1>1, SameBlocks
<1>5. CASE ~(hp < Len(heaps))
  <2>1. hp' > Len(heaps) /\ pos' = 0 /\ pos' \in 0 .. MEMORY
    BY <1>1, <1>2, <1>5, MemoryNat
  <2>2. ~(hp' <= Len(heaps))
    BY <2>1, <1>2, <1>3
  <2>3. ScanInv'
    BY <2>1, <2>2, <1>1, <1>2, <1>3 DEF ScanInv
  <2> QED BY <2>3, <1>1, SameBlocks
<1> QED BY <1>4, <1>5

(* The end of a scan. *)
LEMMA ReturnScan ==
  ASSUME Return
  PROVE  ScanInv'
BY DEF Return, ScanInv

(* malloc that fails changes no block. *)
LEMMA FailsStep ==
  ASSUME HInv, malloc_fails
  PROVE  HInv'
BY SameBlocks, ReturnScan DEF malloc_fails

(* Steps that change headers and footers but no heap. *)
LEMMA SameHeaps ==
  ASSUME HInv, UNCHANGED <<heaps, frames, used>>, Row(Limits(frames), head', foot'), Aligned(head'), ScanInv'
  PROVE  HInv'
<1>1. HeapsInv'
  BY DEF HInv, HeapsInv, FramesExact, FramesOf
<1>2. Row(Limits(frames), head, foot)' /\ Aligned(head)'
  OBVIOUS
<1> QED BY <1>1, <1>2 DEF HInv

-----------------------------------------------------------------------------
(* The size of a split. *)
LEMMA SplitSizes ==
  ASSUME NEW size \in Nat, NEW s \in Nat, s > SplitLimit(size)
  PROVE  /\ RealSize(size) \in Nat \ {0} /\ RealSize(size) < s
         /\ RealSize(size) >= HEAD + FOOT /\ s - RealSize(size) >= HEAD + FOOT
<1>1. /\ RealSize(size) \in Nat /\ RealSize(size) >= size + HEAD + FOOT
      /\ SplitLimit(size) = RealSize(size) + HEAD + FOOT
  BY RealFacts
<1>2. HEAD \in Nat \ {0} /\ FOOT \in Nat \ {0}
  BY Units
<1> QED BY <1>1, <1>2

(* malloc_split divides the block at pos. *)
LEMMA SplitFacts ==
  ASSUME HInv, malloc_split
  PROVE  /\ pos \in DOMAIN head /\ head[pos].free
         /\ RealSize(req) \in Nat \ {0} /\ RealSize(req) < head[pos].size
         /\ RealSize(req) >= HEAD + FOOT /\ head[pos].size - RealSize(req) >= HEAD + FOOT
         /\ Divided(head, head', pos, RealSize(req))
         /\ foot' = FootInit(FootInit(foot, pos + RealSize(req), head[pos].size - RealSize(req)),
                             pos, RealSize(req))
         /\ Return /\ UNCHANGED <<heaps, frames, used>>
<1> DEFINE real == RealSize(req)
           rest == block_init(Mem, pos + real, head[pos].size - real, TRUE, heaps[hp])
           m == block_init(rest, pos, real, FALSE, heaps[hp])
<1>1. /\ Visiting /\ Suitable(pos) /\ head[pos].size > SplitLimit(req)
      /\ Return /\ UNCHANGED <<heaps, frames, used>>
  BY DEF malloc_split
<1>2. head' = m.head /\ foot' = m.foot
  BY DEF malloc_split, Install
<1>3. pos \in DOMAIN head /\ head[pos].heap = heaps[hp] /\ req \in Nat
  BY <1>1, ScanBlock
<1>4. head[pos].size \in Nat /\ HeadRow(Limits(frames), head)
  BY <1>3, HInvRow
<1>5. /\ real \in Nat \ {0} /\ real < head[pos].size
      /\ real >= HEAD + FOOT /\ head[pos].size - real >= HEAD + FOOT
  BY <1>1, <1>3, <1>4, SplitSizes
<1> DEFINE q == pos + real
           t == head[pos].size - real
           h == heaps[hp]
<1>6. rest = block_init(Mem, q, t, TRUE, h) /\ m = block_init(rest, pos, real, FALSE, h)
  OBVIOUS
<1> HIDE DEF real, rest, m, q, t, h
<1>7. /\ m.head = HeadInit(HeadInit(head, q, t, TRUE, h), pos, real, FALSE, h)
      /\ m.foot = FootInit(FootInit(foot, q, t), pos, real)
  <2>1. rest.head = HeadInit(head, q, t, TRUE, h)
    BY <1>6 DEF block_init, HeadInit, Mem
  <2>2. rest.foot = FootInit(foot, q, t)
    BY <1>6 DEF block_init, FootInit, Mem
  <2>3. m.head = HeadInit(rest.head, pos, real, FALSE, h)
    BY <1>6 DEF block_init, HeadInit
  <2>4. m.foot = FootInit(rest.foot, pos, real)
    BY <1>6 DEF block_init, FootInit
  <2> QED BY <2>1, <2>2, <2>3, <2>4
<1>8. Divided(head, HeadInit(HeadInit(head, pos + real, head[pos].size - real, TRUE, head[pos].heap),
                              pos, real, FALSE, head[pos].heap), pos, real)
  BY <1>3, <1>4, <1>5, SplitWrites
<1>9. Divided(head, head', pos, real)
  BY <1>2, <1>3, <1>7, <1>8 DEF q, t, h
<1>10. foot' = FootInit(FootInit(foot, pos + real, head[pos].size - real), pos, real)
  BY <1>2, <1>7 DEF q, t
<1>11. head[pos].free
  BY <1>1 DEF Suitable
<1> QED BY <1>1, <1>3, <1>5, <1>9, <1>10, <1>11 DEF real

(* A split keeps the rows. *)
LEMMA SplitStep ==
  ASSUME HInv, malloc_split
  PROVE  HInv'
<1> DEFINE real == RealSize(req)
<1>1. /\ pos \in DOMAIN head
      /\ real \in Nat \ {0} /\ real < head[pos].size
      /\ real >= HEAD + FOOT /\ head[pos].size - real >= HEAD + FOOT
      /\ Divided(head, head', pos, real)
      /\ foot' = FootInit(FootInit(foot, pos + real, head[pos].size - real), pos, real)
      /\ Return /\ UNCHANGED <<heaps, frames, used>>
  BY SplitFacts
<1>2. HeadRow(Limits(frames), head) /\ FootRow(head, foot) /\ Aligned(head) /\ HeapsInv
  BY HInvRow
<1>3. LimitsOK(Limits(frames))
  BY <1>2, HeapsFacts
<1>4. real % ALIGNMENT = 0
  <2>1. req \in Nat
    BY ScanBlock DEF malloc_split
  <2> QED BY <2>1, RealFacts
<1> HIDE DEF real
<1>5. HeadRow(Limits(frames), head')
  BY <1>1, <1>2, <1>3, DividedRow
<1>6. FootRow(head', foot')
  BY <1>1, <1>2, <1>3, DividedFeet
<1>7. Aligned(head')
  BY <1>1, <1>2, <1>4, DividedAligned
<1>8. ScanInv'
  BY <1>1, ReturnScan
<1> QED BY <1>1, <1>5, <1>6, <1>7, <1>8, SameHeaps DEF Row

(* malloc_whole takes the block at pos. *)
LEMMA WholeFacts ==
  ASSUME HInv, malloc_whole
  PROVE  /\ pos \in DOMAIN head /\ head[pos].free /\ head[pos].size >= RealSize(req) /\ req \in Nat
         /\ head' = [head EXCEPT ![pos].free = FALSE]
         /\ DOMAIN head' = DOMAIN head
         /\ head'[pos] = [size |-> head[pos].size, free |-> FALSE, heap |-> head[pos].heap]
         /\ \A b \in DOMAIN head : b # pos => head'[b] = head[b]
         /\ Marked(head, head')
         /\ Return /\ UNCHANGED <<heaps, frames, used, foot>>
<1>1. /\ Visiting /\ Suitable(pos) /\ head' = [head EXCEPT ![pos].free = FALSE]
      /\ Return /\ UNCHANGED <<heaps, frames, used, foot>>
  BY DEF malloc_whole
<1>2. pos \in DOMAIN head /\ req \in Nat
  BY <1>1, ScanBlock
<1>3. Heads(Limits(frames), head)
  BY HInvRow
<1>4. \A b \in DOMAIN head : /\ head[b] = [size |-> head[b].size, free |-> head[b].free, heap |-> head[b].heap]
                             /\ head[b].free \in BOOLEAN
  BY <1>3, HeadsNat
<1>5. DOMAIN head' = DOMAIN head /\ \A b \in DOMAIN head : b # pos => head'[b] = head[b]
  BY <1>1
<1>6. head'[pos] = [head[pos] EXCEPT !.free = FALSE]
  BY <1>1, <1>2
<1>7. head'[pos] = [size |-> head[pos].size, free |-> FALSE, heap |-> head[pos].heap]
  BY <1>2, <1>4, <1>6
<1>8. head' = [x \in DOMAIN head' |-> head'[x]]
  BY <1>1
<1>9. Marked(head, head')
  BY <1>2, <1>4, <1>5, <1>7, <1>8 DEF Marked
<1> QED BY <1>1, <1>2, <1>5, <1>7, <1>9 DEF Suitable

(* Taking a whole block keeps the rows. *)
LEMMA WholeStep ==
  ASSUME HInv, malloc_whole
  PROVE  HInv'
<1>1. Marked(head, head') /\ Return /\ UNCHANGED <<heaps, frames, used, foot>>
  BY WholeFacts
<1>2. HeadRow(Limits(frames), head) /\ FootRow(head, foot) /\ Aligned(head)
  BY HInvRow
<1>3. HeadRow(Limits(frames), head') /\ FootRow(head', foot') /\ Aligned(head')
  BY <1>1, <1>2, MarkedRow
<1>4. ScanInv'
  BY <1>1, ReturnScan
<1> QED BY <1>1, <1>3, <1>4, SameHeaps DEF Row

-----------------------------------------------------------------------------
(* The frames of a new heap. *)
LEMMA NewFrames ==
  ASSUME HInv, NEW first \in Frame, NEW count \in Nat \ {0}, NEW h, h = first * FRAME_SIZE,
         Run(first, count) \subseteq Frame \ used,
         used' = used \cup Run(first, count),
         frames' = [g \in DOMAIN frames \cup {h} |-> IF g = h THEN count ELSE frames[g]],
         heaps' = list_append(heaps, h)
  PROVE  /\ HeapsInv' /\ h \notin Items(heaps) /\ Items(heaps') = Items(heaps) \cup {h}
         /\ LimitsOK(Limits(frames')) /\ Apart(Limits(frames'))
         /\ Grown(Limits(frames), Limits(frames'), h, h + count * FRAME_SIZE)
<1>0. FRAMES \in Nat /\ MEMORY \in Nat /\ first \in Nat
  BY Units, MemoryNat DEF Frame
<1>1. /\ heaps \in Seq(0 .. MEMORY) /\ NoRepeats(heaps)
      /\ frames \in [Items(heaps) -> 1 .. FRAMES] /\ used \subseteq Frame
      /\ \A g \in Items(heaps) : \E f \in Frame : g = f * FRAME_SIZE
  BY DEF HInv, HeapsInv
<1>2. h \div FRAME_SIZE = first /\ h \in Nat
  BY <1>0, FrameArithmetic
<1>3. first \in Run(first, count) /\ first + count <= FRAMES
  BY <1>0, Runs
<1>4. \A g \in Items(heaps) : Run(g \div FRAME_SIZE, frames[g]) \subseteq used
  BY DEF HInv, HeapsInv, FramesExact, FramesOf
<1>5. h \notin Items(heaps)
  <2>1. SUFFICES ASSUME h \in Items(heaps) PROVE FALSE
    OBVIOUS
  <2>2. frames[h] \in Nat \ {0}
    BY <2>1, <1>0, <1>1
  <2>3. first \in Run(first, frames[h])
    BY <2>2, <1>0, Runs
  <2> QED BY <2>1, <2>3, <1>2, <1>3, <1>4
<1>6. h \in 0 .. MEMORY
  <2>1. first * FRAME_SIZE <= FRAMES * FRAME_SIZE
    BY <1>0, <1>3, FrameOrder
  <2> QED BY <2>1, <1>0, <1>2 DEF MEMORY
<1>7. heaps' \in Seq(0 .. MEMORY) /\ Items(heaps') = Items(heaps) \cup {h} /\ NoRepeats(heaps')
  <2> DEFINE S == 0 .. MEMORY
  <2>1. heaps \in Seq(S) /\ h \in S
    BY <1>1, <1>6
  <2> HIDE DEF S
  <2>2. /\ list_append(heaps, h) \in Seq(S) /\ Items(list_append(heaps, h)) = Items(heaps) \cup {h}
        /\ NoRepeats(heaps) /\ h \notin Items(heaps) => NoRepeats(list_append(heaps, h))
    BY <2>1 DEF list_append, Items, NoRepeats
  <2>3. heaps' \in Seq(S) /\ Items(heaps') = Items(heaps) \cup {h} /\ NoRepeats(heaps')
    BY <2>2, <1>1, <1>5
  <2> QED BY <2>3 DEF S
<1>8. count \in 1 .. FRAMES
  BY <1>0, <1>3
<1>9. /\ frames' \in [Items(heaps') -> 1 .. FRAMES]
      /\ frames'[h] = count /\ \A g \in Items(heaps) : frames'[g] = frames[g] /\ g # h
  BY <1>1, <1>5, <1>7, <1>8
<1>10. used' \subseteq Frame /\ \A g \in Items(heaps') : \E f \in Frame : g = f * FRAME_SIZE
  BY <1>1, <1>7
<1> DEFINE R(g) == Run(g \div FRAME_SIZE, frames'[g])
<1>11. R(h) = Run(first, count) /\ \A g \in Items(heaps) : R(g) = Run(g \div FRAME_SIZE, frames[g])
  BY <1>2, <1>9
<1>12. used = UNION {Run(g \div FRAME_SIZE, frames[g]) : g \in Items(heaps)}
  BY DEF HInv, HeapsInv, FramesExact, FramesOf
<1>13. \A g, k \in Items(heaps) : g # k =>
         Run(g \div FRAME_SIZE, frames[g]) \cap Run(k \div FRAME_SIZE, frames[k]) = {}
  BY DEF HInv, HeapsInv, FramesExact, FramesOf
<1> HIDE DEF R
<1>14. \A g, k \in Items(heaps') : g # k => R(g) \cap R(k) = {}
  <2>1. \A g \in Items(heaps) : R(g) \subseteq used
    BY <1>4, <1>11
  <2>2. \A g \in Items(heaps) : R(g) \cap R(h) = {} /\ R(h) \cap R(g) = {}
    BY <2>1, <1>11
  <2>3. \A g, k \in Items(heaps) : g # k => R(g) \cap R(k) = {}
    BY <1>11, <1>13
  <2> QED BY <2>2, <2>3, <1>7
<1>15. used' = UNION {R(g) : g \in Items(heaps')}
  <2>1. used = UNION {R(g) : g \in Items(heaps)}
    BY <1>11, <1>12
  <2>2. used' = used \cup R(h)
    BY <1>11
  <2> QED BY <2>1, <2>2, <1>7
<1>16. HeapsInv'
  BY <1>7, <1>9, <1>10, <1>14, <1>15 DEF HeapsInv, FramesExact, FramesOf, R
<1>17. \A g \in Items(heaps') : R(g) \subseteq Frame
  <2>1. \A g \in Items(heaps') : R(g) \subseteq used'
    BY <1>15
  <2> QED BY <2>1, <1>10
<1>18. /\ DOMAIN Limits(frames') = Items(heaps') /\ LimitsOK(Limits(frames')) /\ Apart(Limits(frames'))
       /\ \A g \in Items(heaps') : Limits(frames')[g] = g + frames'[g] * FRAME_SIZE
  <2>1. \A g, k \in Items(heaps') : g # k =>
          Run(g \div FRAME_SIZE, frames'[g]) \cap Run(k \div FRAME_SIZE, frames'[k]) = {}
    BY <1>14 DEF R
  <2>2. \A g \in Items(heaps') : Run(g \div FRAME_SIZE, frames'[g]) \subseteq Frame
    BY <1>17 DEF R
  <2> DEFINE H == Items(heaps')
             fr == frames'
  <2>3. /\ fr \in [H -> 1 .. FRAMES]
        /\ \A g \in H : \E f \in Frame : g = f * FRAME_SIZE
        /\ \A g \in H : Run(g \div FRAME_SIZE, fr[g]) \subseteq Frame
        /\ \A g, k \in H : g # k => Run(g \div FRAME_SIZE, fr[g]) \cap Run(k \div FRAME_SIZE, fr[k]) = {}
    BY <2>1, <2>2, <1>9, <1>10
  <2> HIDE DEF H, fr
  <2>4. /\ DOMAIN Limits(fr) = H /\ LimitsOK(Limits(fr)) /\ Apart(Limits(fr))
        /\ \A g \in H : Limits(fr)[g] = g + fr[g] * FRAME_SIZE
    BY <2>3, HeapsApart
  <2> QED BY <2>4 DEF H, fr
<1>19. DOMAIN Limits(frames) = Items(heaps) /\ \A g \in Items(heaps) : Limits(frames)[g] = g + frames[g] * FRAME_SIZE
  BY <1>1 DEF Limits
<1>20. Grown(Limits(frames), Limits(frames'), h, h + count * FRAME_SIZE)
  BY <1>5, <1>7, <1>9, <1>18, <1>19 DEF Grown
<1> QED BY <1>5, <1>7, <1>16, <1>18, <1>20

(* The first block of a new heap: it is all of the heap, or is divided. *)
NewHeap(h, s, hd1) ==
  /\ Grown(Limits(frames), Limits(frames'), h, heap_start(h) + s)
  /\ LimitsOK(Limits(frames')) /\ Apart(Limits(frames'))
  /\ s \in Nat /\ s >= RealSize(req)
  /\ Placed(head, hd1, heap_start(h), s, h)
  /\ HeadRow(Limits(frames'), hd1) /\ Aligned(hd1)
  /\ heap_start(h) \notin DOMAIN head /\ DOMAIN hd1 = DOMAIN head \cup {heap_start(h)}
  /\ \A b \in DOMAIN head : hd1[b] = head[b]
  /\ \/ head' = hd1
     \/ /\ RealSize(req) \in Nat \ {0} /\ RealSize(req) < s
        /\ Divided(hd1, head', heap_start(h), RealSize(req))

(* malloc_heap adds a heap of one or two blocks. *)
LEMMA NewHeapFacts ==
  ASSUME HInv, malloc_heap
  PROVE  /\ HeapsInv' /\ Row(Limits(frames'), head', foot') /\ Aligned(head')
         /\ Return /\ req \in Nat
         /\ \E h, s, hd1 : NewHeap(h, s, hd1)
<1>1. pc = "scan" /\ Return
  BY DEF malloc_heap
<1>2. req \in Nat
  BY <1>1, Units DEF HInv, ScanInv
<1> DEFINE count == FramesFor(req)
           real == RealSize(req)
           payload == count * FRAME_SIZE - HEAP_T
           Rest(h) == block_init(Mem, heap_start(h) + real, payload - real, TRUE, h)
           New(h) == IF payload > SplitLimit(req)
                     THEN block_init(Rest(h), heap_start(h), real, FALSE, h)
                     ELSE block_init(Mem, heap_start(h), payload, FALSE, h)
<1>3. PICK first \in Frame :
           /\ Run(first, count) \subseteq Frame \ used
           /\ used' = used \cup Run(first, count)
           /\ frames' = [g \in DOMAIN frames \cup {first * FRAME_SIZE} |->
                           IF g = first * FRAME_SIZE THEN count ELSE frames[g]]
           /\ Install(New(first * FRAME_SIZE))
           /\ heaps' = list_append(heaps, first * FRAME_SIZE)
  BY DEF malloc_heap
<1> DEFINE h == first * FRAME_SIZE
           c == heap_start(h)
           E == Limits(frames)
           E2 == Limits(frames')
           hd1 == HeadInit(head, c, payload, FALSE, h)
           ft1 == FootInit(foot, c, payload)
<1>4. /\ count \in Nat \ {0} /\ count * FRAME_SIZE \in Nat /\ count * FRAME_SIZE >= real + HEAP_T
      /\ real \in Nat /\ real >= HEAD + FOOT /\ real % ALIGNMENT = 0
      /\ HEAP_T \in Nat /\ HEAD + FOOT \in Nat /\ HEAD + FOOT > 0
  <2>1. count \in Nat \ {0} /\ count * FRAME_SIZE >= real + HEAP_T
    BY <1>2, FramesForFacts
  <2>2. count * FRAME_SIZE \in Nat
    BY <2>1, FrameArithmetic
  <2>3. real \in Nat /\ real >= req + HEAD + FOOT /\ real % ALIGNMENT = 0
    BY <1>2, RealFacts
  <2>4. HEAP_T \in Nat /\ HEAD \in Nat /\ FOOT \in Nat /\ HEAD > 0
    BY Units
  <2> HIDE DEF count, real
  <2> QED BY <1>2, <2>1, <2>2, <2>3, <2>4
<1>5. payload \in Nat /\ payload >= real /\ payload >= HEAD + FOOT
  <2> HIDE DEF count, real
  <2> QED BY <1>4
<1>6. /\ HeapsInv' /\ h \notin Items(heaps) /\ LimitsOK(E2) /\ Apart(E2)
      /\ Grown(E, E2, h, h + count * FRAME_SIZE)
  <2> HIDE DEF count
  <2> QED BY <1>3, <1>4, NewFrames
<1>7. first \in Nat /\ h \in Nat /\ h % ALIGNMENT = 0 /\ c = h + HEAP_T /\ c \in Nat
  <2>1. first \in Nat
    BY Units DEF Frame
  <2>2. h \in Nat /\ h % ALIGNMENT = 0
    BY <2>1, FrameArithmetic
  <2> QED BY <2>1, <2>2, <1>4 DEF heap_start
<1>8. c + payload = h + count * FRAME_SIZE
  <2> HIDE DEF h, count
  <2> QED BY <1>4, <1>7
<1>9. Grown(E, E2, h, c + payload)
  BY <1>6, <1>8
<1>10. HeadRow(E, head) /\ FootRow(head, foot) /\ Aligned(head) /\ Heads(E, head)
  BY HInvRow
<1>11. Placed(head, hd1, c, payload, h)
  BY PlaceWrite
<1> HIDE DEF hd1, payload, h, c, count, real, E, E2, ft1
<1>12. /\ HeadRow(E2, hd1) /\ FootRow(hd1, ft1)
       /\ c \notin DOMAIN head /\ DOMAIN hd1 = DOMAIN head \cup {c}
       /\ \A b \in DOMAIN head : hd1[b] = head[b]
  BY <1>5, <1>6, <1>9, <1>10, <1>11, GrownRow DEF c, ft1
<1>13. hd1[c].size = payload /\ hd1[c].heap = h /\ c \in DOMAIN hd1
  BY <1>11, <1>12 DEF Placed
<1>14. c % ALIGNMENT = 0 /\ payload % ALIGNMENT = 0
  <2>1. (count * FRAME_SIZE) % ALIGNMENT = 0
    BY <1>4, FrameArithmetic
  <2>2. HEAP_T % ALIGNMENT = 0 /\ ALIGNMENT \in Nat \ {0}
    BY Units
  <2>3. (h + HEAP_T) % ALIGNMENT = 0
    BY <2>2, <1>4, <1>7, AddAligned
  <2>4. count * FRAME_SIZE >= HEAP_T
    BY <1>4
  <2>5. (count * FRAME_SIZE - HEAP_T) % ALIGNMENT = 0
    BY <2>1, <2>2, <2>4, <1>4, AddAligned
  <2> QED BY <2>3, <2>5, <1>7 DEF payload
<1>15. Aligned(hd1)
  BY <1>10, <1>12, <1>13, <1>14 DEF Aligned
<1>16. CASE ~(payload > SplitLimit(req))
  <2>1. head' = block_init(Mem, c, payload, FALSE, h).head /\ foot' = block_init(Mem, c, payload, FALSE, h).foot
    BY <1>3, <1>16 DEF Install, h, c
  <2>2. head' = hd1 /\ foot' = ft1
    BY <2>1 DEF block_init, HeadInit, FootInit, hd1, ft1, Mem
  <2>3. NewHeap(h, payload, hd1)
    BY <2>2, <1>5, <1>6, <1>9, <1>11, <1>12, <1>15 DEF NewHeap, c, E, E2, real
  <2> QED BY <2>2, <2>3, <1>1, <1>2, <1>6, <1>12, <1>15 DEF Row, E2
<1>17. CASE payload > SplitLimit(req)
  <2>1. /\ real \in Nat \ {0} /\ real < payload
        /\ real >= HEAD + FOOT /\ payload - real >= HEAD + FOOT
    BY <1>2, <1>5, <1>17, SplitSizes DEF real
  <2> DEFINE q == c + real
             t == payload - real
             rest == block_init(Mem, q, t, TRUE, h)
             m == block_init(rest, c, real, FALSE, h)
  <2>2. head' = m.head /\ foot' = m.foot
    BY <1>3, <1>17 DEF Install, h, c
  <2> HIDE DEF q, t
  <2>3. rest.head = HeadInit(head, q, t, TRUE, h) /\ rest.foot = FootInit(foot, q, t)
    BY DEF block_init, HeadInit, FootInit, Mem
  <2> HIDE DEF rest
  <2>4. m.head = HeadInit(rest.head, c, real, FALSE, h) /\ m.foot = FootInit(rest.foot, c, real)
    BY DEF block_init, HeadInit, FootInit
  <2> HIDE DEF m
  <2>5. /\ head' = HeadInit(HeadInit(head, c + real, payload - real, TRUE, h), c, real, FALSE, h)
        /\ foot' = FootInit(FootInit(foot, c + real, payload - real), c, real)
    BY <2>2, <2>3, <2>4 DEF q, t
  <2>6. \A b \in DOMAIN head : b \in Nat /\ (b < c \/ b >= c + payload)
    <3>1. ASSUME NEW b \in DOMAIN head PROVE b \in Nat /\ (b < c \/ b >= c + payload)
      <4>1. b \in Nat /\ EndOf(head, b) \in Nat /\ b < EndOf(head, b) /\ (EndOf(head, b) <= h \/ c + payload < b)
        BY <1>6, <1>9, <1>10, OtherHeaps
      <4> QED BY <4>1, <1>4, <1>5, <1>7
    <3> QED BY <3>1
  <2>7. Divided(hd1, HeadInit(HeadInit(head, c + real, payload - real, TRUE, h), c, real, FALSE, h), c, real)
    BY <2>1, <2>6, <1>5, <1>7, <1>11, PlaceDivide
  <2>10. Divided(hd1, head', c, real)
    BY <2>5, <2>7
  <2>11. HeadRow(E2, head') /\ FootRow(head', foot')
    <3>1. /\ c = heap_start(h) /\ ft1 = FootInit(foot, c, payload)
          /\ foot' = FootInit(FootInit(foot, c + real, payload - real), c, real)
      BY <2>5 DEF c, ft1
    <3> QED BY <3>1, <2>1, <2>10, <1>5, <1>6, <1>9, <1>10, <1>11, <1>12, GrownTwice
  <2>13. Aligned(head')
    BY <2>1, <2>10, <1>4, <1>12, <1>13, <1>15, DividedAligned
  <2>14. NewHeap(h, payload, hd1)
    BY <2>1, <2>10, <1>5, <1>6, <1>9, <1>11, <1>12, <1>15 DEF NewHeap, c, E, E2, real
  <2> QED BY <2>11, <2>13, <2>14, <1>1, <1>2, <1>6 DEF Row, E2
<1> QED BY <1>16, <1>17

(* A new heap keeps the rows of the others. *)
LEMMA NewHeapStep ==
  ASSUME HInv, malloc_heap
  PROVE  HInv'
<1>1. HeapsInv' /\ Row(Limits(frames'), head', foot') /\ Aligned(head') /\ Return
  BY NewHeapFacts
<1>2. ScanInv'
  BY <1>1, ReturnScan
<1> QED BY <1>1, <1>2 DEF HInv

-----------------------------------------------------------------------------
(***************************************************************************)
(* What a merge of free makes of a memory: nothing, or it joins the block  *)
(* a with the block n behind it, both free.                                *)
(***************************************************************************)
Merged(hd, hd2, a, n) ==
  Neighbours(hd, a, n) /\ hd[a].free /\ hd[n].free /\ Joined(hd, hd2, a, n)

(* The write of a merge, which is the same for both neighbours. *)
LEMMA MergedRow ==
  ASSUME NEW E, LimitsOK(E), NEW hd, NEW ft, Row(E, hd, ft), Aligned(hd), NEW a, NEW n,
         Neighbours(hd, a, n), NEW m, m.head = hd, m.foot = ft,
         NEW r, r = block_init(m, a, hd[a].size + hd[n].size, TRUE, hd[a].heap)
  PROVE  Row(E, r.head, r.foot) /\ Aligned(r.head) /\ Joined(hd, r.head, a, n)
<1> DEFINE s == hd[a].size + hd[n].size
           h == hd[a].heap
<1>1. r = block_init(m, a, s, TRUE, h)
  OBVIOUS
<1> HIDE DEF s, h
<1>2. r.head = HeadInit(hd, a, s, TRUE, h)
  <2>1. block_init(m, a, s, TRUE, h).head = HeadInit(m.head, a, s, TRUE, h)
    BY DEF block_init, HeadInit
  <2> QED BY <2>1, <1>1
<1>3. r.foot = FootInit(ft, a, s)
  BY <1>1 DEF block_init, FootInit
<1>4. HeadRow(E, hd) /\ FootRow(hd, ft)
  BY DEF Row
<1>5. Joined(hd, HeadInit(hd, a, hd[a].size + hd[n].size, TRUE, hd[a].heap), a, n)
  BY <1>4, JoinWrite
<1>6. Joined(hd, r.head, a, n)
  BY <1>2, <1>5 DEF s, h
<1>7. HeadRow(E, r.head)
  BY <1>4, <1>6, JoinedRow
<1>8. FootRow(r.head, r.foot)
  <2>1. FootRow(r.head, FootInit(ft, a, hd[a].size + hd[n].size))
    BY <1>4, <1>6, JoinedFeet
  <2> QED BY <2>1, <1>3 DEF s
<1>9. Aligned(r.head)
  BY <1>4, <1>6, JoinedAligned
<1> QED BY <1>6, <1>7, <1>8, <1>9 DEF Row

(* MergeNext, for a block that is free already. *)
LEMMA MergeNextFacts ==
  ASSUME HeapsInv, NEW m, Row(Limits(frames), m.head, m.foot), Aligned(m.head),
         NEW x \in DOMAIN m.head, m.head[x].free, NEW r, r = MergeNext(m, x)
  PROVE  /\ Row(Limits(frames), r.head, r.foot) /\ Aligned(r.head)
         /\ \/ /\ r = m
               /\ EndOf(m.head, x) < heap_end(m.head[x].heap) => ~m.head[EndOf(m.head, x)].free
            \/ Merged(m.head, r.head, x, EndOf(m.head, x))
<1> DEFINE hd == m.head
           n == EndOf(hd, x)
           h == hd[x].heap
           E == Limits(frames)
<1>1. LimitsOK(E) /\ DOMAIN E = Items(heaps) /\ \A g \in Items(heaps) : E[g] = heap_end(g)
  BY HeapsFacts
<1>2. Heads(E, hd) /\ Followed(E, hd, x)
  BY DEF Row, HeadRow
<1>3. h \in DOMAIN E /\ n = x + hd[x].size
  BY <1>2, HeadsNat
<1>4. r = IF n < heap_end(h) /\ hd[n].free
          THEN block_init(m, x, hd[x].size + hd[n].size, TRUE, hd[x].heap)
          ELSE m
  BY <1>3 DEF MergeNext
<1>5. CASE ~(n < heap_end(h) /\ hd[n].free)
  <2>1. r = m
    BY <1>4, <1>5
  <2> QED BY <2>1, <1>5
<1>6. CASE n < heap_end(h) /\ hd[n].free
  <2>1. r = block_init(m, x, hd[x].size + hd[n].size, TRUE, hd[x].heap)
    BY <1>4, <1>6
  <2>2. n < E[h]
    BY <1>1, <1>3, <1>6
  <2>3. n \in DOMAIN hd /\ hd[n].heap = h
    BY <2>2, <1>2 DEF Followed
  <2>4. Neighbours(hd, x, n)
    BY <2>3 DEF Neighbours
  <2> HIDE DEF E, n
  <2>5. Row(E, r.head, r.foot) /\ Aligned(r.head) /\ Joined(hd, r.head, x, n)
    BY <2>1, <2>4, <1>1, MergedRow DEF E
  <2>6. Merged(hd, r.head, x, n)
    BY <2>4, <2>5, <1>6 DEF Merged
  <2> QED BY <2>5, <2>6 DEF E, n
<1> QED BY <1>5, <1>6

(* MergePrev finds the previous block through its footer. *)
LEMMA MergePrevFacts ==
  ASSUME HeapsInv, NEW m, Row(Limits(frames), m.head, m.foot), Aligned(m.head),
         NEW x \in DOMAIN m.head, m.head[x].free, NEW r, r = MergePrev(m, x)
  PROVE  /\ Row(Limits(frames), r.head, r.foot) /\ Aligned(r.head)
         /\ \/ /\ r = m
               /\ \A c \in DOMAIN m.head : EndOf(m.head, c) = x /\ m.head[c].heap = m.head[x].heap => ~m.head[c].free
            \/ \E c \in DOMAIN m.head : Merged(m.head, r.head, c, x)
<1> DEFINE hd == m.head
           h == hd[x].heap
           E == Limits(frames)
           p == x - m.foot[x]
<1>1. LimitsOK(E) /\ DOMAIN E = Items(heaps)
  BY HeapsFacts
<1>2. /\ HeadRow(E, hd) /\ Heads(E, hd) /\ Preceded(hd, x) /\ \A b \in DOMAIN hd : Footed(hd, m.foot, b)
      /\ \A b \in DOMAIN hd : Inside(E, hd, b)
  BY DEF Row, HeadRow, FootRow
<1>3. r = IF heap_start(h) < x /\ hd[p].free
          THEN block_init(m, p, hd[p].size + hd[x].size, TRUE, h)
          ELSE m
  BY DEF MergePrev
<1>4. ASSUME NEW c \in DOMAIN hd, EndOf(hd, c) = x, hd[c].heap = h
      PROVE  p = c /\ heap_start(h) < x
  <2>1. c \in Nat /\ hd[c].size \in Nat /\ x = c + hd[c].size /\ x \in Nat /\ c < x
    BY <1>2, <1>4, HeadsNat
  <2>2. m.foot[x] = hd[c].size
    BY <1>2, <1>4 DEF Footed
  <2>3. heap_start(h) <= c /\ h \in DOMAIN E
    BY <1>2, <1>4, HeadsNat DEF Inside
  <2>4. heap_start(h) \in Nat
    BY <2>3, <1>1, LimitsNat
  <2>5. heap_start(h) < x
    BY <2>1, <2>3, <2>4
  <2>6. p = c
    BY <2>1, <2>2
  <2> QED BY <2>5, <2>6
<1>5. CASE heap_start(h) < x
  <2>1. PICK c \in DOMAIN hd : EndOf(hd, c) = x /\ hd[c].heap = h
    BY <1>2, <1>5 DEF Preceded
  <2>2. p = c
    BY <2>1, <1>4
  <2>3. r = IF hd[c].free THEN block_init(m, c, hd[c].size + hd[x].size, TRUE, hd[c].heap) ELSE m
    BY <2>1, <2>2, <1>3, <1>5
  <2> HIDE DEF p
  <2>4. CASE hd[c].free
    <3>1. Neighbours(hd, c, x)
      BY <2>1 DEF Neighbours
    <3>2. r = block_init(m, c, hd[c].size + hd[x].size, TRUE, hd[c].heap)
      BY <2>3, <2>4
    <3>3. Row(E, r.head, r.foot) /\ Aligned(r.head) /\ Joined(hd, r.head, c, x)
      <4> HIDE DEF E
      <4> QED BY <3>1, <3>2, <1>1, MergedRow DEF E
    <3>4. Merged(hd, r.head, c, x)
      BY <3>1, <3>3, <2>4 DEF Merged
    <3> QED BY <3>3, <3>4
  <2>5. CASE ~hd[c].free
    <3>1. r = m
      BY <2>3, <2>5
    <3>2. \A b \in DOMAIN hd : EndOf(hd, b) = x /\ hd[b].heap = h => b = c
      BY <2>2, <1>4
    <3> QED BY <3>1, <3>2, <2>5
  <2> QED BY <2>4, <2>5
<1>6. CASE ~(heap_start(h) < x)
  <2>1. r = m
    BY <1>3, <1>6
  <2>2. \A c \in DOMAIN hd : ~(EndOf(hd, c) = x /\ hd[c].heap = h)
    BY <1>4, <1>6
  <2> QED BY <2>1, <2>2
<1> QED BY <1>5, <1>6

(* The headers after a merge. *)
AfterMerge(hd, hd2, a, n) ==
  /\ a \in DOMAIN hd /\ n \in DOMAIN hd /\ a # n
  /\ DOMAIN hd2 = DOMAIN hd \ {n} /\ a \in DOMAIN hd2
  /\ hd2[a].free /\ hd2[a].heap = hd[a].heap /\ hd[n].heap = hd[a].heap
  /\ EndOf(hd, a) = n /\ EndOf(hd2, a) = EndOf(hd, n)
  /\ \A b \in DOMAIN hd2 : b # a => hd2[b] = hd[b] /\ EndOf(hd2, b) = EndOf(hd, b)

(* A merge takes the header n away and lets a end where n did. *)
LEMMA MergedFacts ==
  ASSUME NEW E, LimitsOK(E), NEW hd, HeadRow(E, hd), NEW hd2, NEW a, NEW n, Merged(hd, hd2, a, n)
  PROVE  AfterMerge(hd, hd2, a, n)
<1>1. Neighbours(hd, a, n) /\ Joined(hd, hd2, a, n)
  BY DEF Merged
<1>2. a \in DOMAIN hd2 /\ EndOf(hd2, a) = EndOf(hd, n)
  BY <1>1, JoinedRow
<1>3. a \in DOMAIN hd /\ n \in DOMAIN hd /\ hd[n].heap = hd[a].heap /\ EndOf(hd, a) = n
  BY <1>1 DEF Neighbours
<1>4. /\ DOMAIN hd2 = DOMAIN hd \ {n} /\ \A b \in DOMAIN hd2 : b # a => hd2[b] = hd[b]
      /\ hd2[a] = [size |-> hd[a].size + hd[n].size, free |-> TRUE, heap |-> hd[a].heap]
  BY <1>1 DEF Joined
<1>5. \A b \in DOMAIN hd2 : b # a => EndOf(hd2, b) = EndOf(hd, b)
  BY <1>4 DEF EndOf
<1>6. hd2[a].free /\ hd2[a].heap = hd[a].heap
  BY <1>4
<1>7. a # n
  BY <1>2, <1>4
<1> QED BY <1>2, <1>3, <1>4, <1>5, <1>6, <1>7 DEF AfterMerge

-----------------------------------------------------------------------------
(***************************************************************************)
(* The headers on the way through free: hd0 with the block x marked free,  *)
(* hd1 after the look at the next block, hd2 after the look at the         *)
(* previous one.                                                           *)
(***************************************************************************)
FreePath(x, hd0, hd1, hd2) ==
  /\ DOMAIN hd0 = DOMAIN head
  /\ hd0[x] = [size |-> head[x].size, free |-> TRUE, heap |-> head[x].heap]
  /\ \A b \in DOMAIN head : b # x => hd0[b] = head[b]
  /\ HeadRow(Limits(frames), hd0) /\ HeadRow(Limits(frames), hd1) /\ HeadRow(Limits(frames), hd2)
  /\ \/ /\ hd1 = hd0
        /\ EndOf(hd0, x) < heap_end(hd0[x].heap) => ~hd0[EndOf(hd0, x)].free
     \/ Merged(hd0, hd1, x, EndOf(hd0, x))
  /\ \/ /\ hd2 = hd1
        /\ \A c \in DOMAIN hd1 : EndOf(hd1, c) = x /\ hd1[c].heap = hd1[x].heap => ~hd1[c].free
     \/ \E c \in DOMAIN hd1 : Merged(hd1, hd2, c, x)
  /\ x \in DOMAIN hd1 /\ hd1[x].free /\ hd1[x].heap = head[x].heap

(* The heap h is one free block. *)
OneFree(hd, h) == hd[heap_start(h)].free /\ EndOf(hd, heap_start(h)) = heap_end(h)

(* free of the last block of the heap h. *)
Releases(h) ==
  /\ heaps' = list_remove(heaps, h)
  /\ frames' = [g \in DOMAIN frames \ {h} |-> frames[g]]
  /\ used' = used \ Released(h)
  /\ head' = [a \in DOMAIN head \ {b \in DOMAIN head : head[b].heap = h} |-> head[a]]
  /\ foot' = [a \in DOMAIN foot \ {b \in DOMAIN foot : h < b /\ b <= heap_end(h)} |-> foot[a]]

(* free goes along the path, then keeps or releases the heap. *)
LEMMA FreeFacts ==
  ASSUME HInv, NEW x \in DOMAIN head, free(x)
  PROVE  /\ ~head[x].free /\ pc = "idle" /\ UNCHANGED <<pc, req, hp, pos>>
         /\ \E hd0, hd1, hd2, ft2 :
              /\ FreePath(x, hd0, hd1, hd2)
              /\ Row(Limits(frames), hd2, ft2) /\ Aligned(hd2)
              /\ \/ OneFree(hd2, head[x].heap) /\ Releases(head[x].heap)
                 \/ /\ ~OneFree(hd2, head[x].heap)
                    /\ head' = hd2 /\ foot' = ft2 /\ UNCHANGED <<heaps, frames, used>>
<1> DEFINE h == head[x].heap
           m0 == [Mem EXCEPT !.head[x].free = TRUE]
           m1 == MergeNext(m0, x)
           m2 == MergePrev(m1, x)
           E == Limits(frames)
<1>1. ~head[x].free /\ pc = "idle" /\ UNCHANGED <<pc, req, hp, pos>>
  BY DEF free
<1>2. IF Empty(m2, h)
      THEN Releases(h)
      ELSE Install(m2) /\ UNCHANGED <<heaps, frames, used>>
  BY DEF free, Releases
<1>3. HeapsInv /\ Row(E, head, foot) /\ Aligned(head) /\ Heads(E, head)
  BY HInvRow DEF HInv
<1>4. LimitsOK(E)
  BY <1>3, HeapsFacts
<1>5. m0.head = [head EXCEPT ![x].free = TRUE] /\ m0.foot = foot
  BY DEF Mem
<1> HIDE DEF m0, m1, m2, E
<1> DEFINE hd0 == m0.head
           hd1 == m1.head
           hd2 == m2.head
<1>6. /\ DOMAIN hd0 = DOMAIN head
      /\ hd0 = [b \in DOMAIN hd0 |-> hd0[b]]
      /\ \A b \in DOMAIN head : b # x => hd0[b] = head[b]
      /\ hd0[x] = [head[x] EXCEPT !.free = TRUE]
  BY <1>5
<1>7. \A b \in DOMAIN head : /\ head[b] = [size |-> head[b].size, free |-> head[b].free, heap |-> head[b].heap]
                             /\ head[b].free \in BOOLEAN
  BY <1>3, HeadsNat
<1>8. hd0[x] = [size |-> head[x].size, free |-> TRUE, heap |-> head[x].heap]
  BY <1>6, <1>7
<1>9. Marked(head, hd0)
  BY <1>6, <1>7, <1>8 DEF Marked
<1>10. HeadRow(E, hd0) /\ FootRow(hd0, m0.foot) /\ Aligned(hd0)
  BY <1>3, <1>5, <1>9, MarkedRow DEF Row
<1>11. x \in DOMAIN hd0 /\ hd0[x].free /\ hd0[x].heap = h
  BY <1>6, <1>8
<1> HIDE DEF hd0
<1>12. /\ Row(E, hd1, m1.foot) /\ Aligned(hd1)
       /\ \/ /\ m1 = m0
             /\ EndOf(hd0, x) < heap_end(hd0[x].heap) => ~hd0[EndOf(hd0, x)].free
          \/ Merged(hd0, hd1, x, EndOf(hd0, x))
  BY <1>3, <1>10, <1>11, MergeNextFacts DEF m1, hd0, E, Row
<1>13. HeadRow(E, hd1)
  BY <1>12 DEF Row
<1>14. x \in DOMAIN hd1 /\ hd1[x].free /\ hd1[x].heap = h
  <2>1. CASE m1 = m0
    BY <2>1, <1>11 DEF hd0
  <2>2. CASE Merged(hd0, hd1, x, EndOf(hd0, x))
    <3> HIDE DEF hd1, h
    <3> DEFINE n == EndOf(hd0, x)
    <3> HIDE DEF n
    <3>1. AfterMerge(hd0, hd1, x, n)
      BY <2>2, <1>4, <1>10, MergedFacts DEF n
    <3>2. x \in DOMAIN hd1 /\ hd1[x].free /\ hd1[x].heap = hd0[x].heap
      BY <3>1 DEF AfterMerge
    <3> QED BY <3>2, <1>11
  <2> QED BY <2>1, <2>2, <1>12
<1>15. /\ Row(E, hd2, m2.foot) /\ Aligned(hd2)
       /\ \/ /\ m2 = m1
             /\ \A c \in DOMAIN hd1 : EndOf(hd1, c) = x /\ hd1[c].heap = hd1[x].heap => ~hd1[c].free
          \/ \E c \in DOMAIN hd1 : Merged(hd1, hd2, c, x)
  BY <1>3, <1>12, <1>14, MergePrevFacts DEF m2, E
<1>16. HeadRow(E, hd2)
  BY <1>15 DEF Row
<1>17. FreePath(x, hd0, hd1, hd2)
  <2>1. m1 = m0 => hd1 = hd0
    BY DEF hd0
  <2>2. m2 = m1 => hd2 = hd1
    OBVIOUS
  <2> HIDE DEF hd1, hd2
  <2> QED BY <2>1, <2>2, <1>6, <1>8, <1>10, <1>12, <1>13, <1>14, <1>15, <1>16 DEF FreePath, E
<1>18. Empty(m2, h) <=> OneFree(hd2, h)
  BY DEF Empty, OneFree, EndOf
<1>19. \/ OneFree(hd2, h) /\ Releases(h)
       \/ /\ ~OneFree(hd2, h)
          /\ head' = hd2 /\ foot' = m2.foot /\ UNCHANGED <<heaps, frames, used>>
  BY <1>2, <1>18 DEF Install
<1> HIDE DEF h, hd1, hd2
<1>20. Row(E, hd2, m2.foot) /\ Aligned(hd2)
  BY <1>15
<1> QED BY <1>1, <1>17, <1>19, <1>20 DEF h, E

(* The frames of a heap that is released. *)
LEMMA FewerFrames ==
  ASSUME HInv, NEW h \in Items(heaps), Releases(h)
  PROVE  /\ HeapsInv' /\ Items(heaps') = Items(heaps) \ {h}
         /\ DOMAIN Limits(frames') = DOMAIN Limits(frames) \ {h}
         /\ \A g \in DOMAIN Limits(frames') : Limits(frames')[g] = Limits(frames)[g]
<1>1. /\ heaps \in Seq(0 .. MEMORY) /\ NoRepeats(heaps)
      /\ frames \in [Items(heaps) -> 1 .. FRAMES] /\ used \subseteq Frame
      /\ \A g \in Items(heaps) : \E f \in Frame : g = f * FRAME_SIZE
  BY DEF HInv, HeapsInv
<1>2. heaps' \in Seq(0 .. MEMORY) /\ Items(heaps') = Items(heaps) \ {h} /\ NoRepeats(heaps')
  <2> DEFINE S == 0 .. MEMORY
  <2>1. heaps \in Seq(S)
    BY <1>1
  <2> HIDE DEF S
  <2>2. /\ list_remove(heaps, h) \in Seq(S) /\ Items(list_remove(heaps, h)) = Items(heaps) \ {h}
        /\ NoRepeats(list_remove(heaps, h))
    BY <2>1, <1>1, RemoveList
  <2> QED BY <2>2 DEF Releases, S
<1>3. /\ frames' \in [Items(heaps') -> 1 .. FRAMES] /\ DOMAIN frames' = Items(heaps')
      /\ \A g \in Items(heaps') : frames'[g] = frames[g] /\ g \in Items(heaps) /\ g # h
  BY <1>1, <1>2 DEF Releases
<1> DEFINE R(g) == Run(g \div FRAME_SIZE, frames[g])
           R2(g) == Run(g \div FRAME_SIZE, frames'[g])
<1>4. \A g \in Items(heaps') : R2(g) = R(g)
  BY <1>3
<1>5. used = UNION {R(g) : g \in Items(heaps)}
  BY DEF HInv, HeapsInv, FramesExact, FramesOf
<1>6. \A g, k \in Items(heaps) : g # k => R(g) \cap R(k) = {}
  BY DEF HInv, HeapsInv, FramesExact, FramesOf
<1>7. used' = used \ R(h)
  BY DEF Releases, Released
<1> HIDE DEF R, R2
<1>8. used' = UNION {R2(g) : g \in Items(heaps')}
  <2>1. \A g \in Items(heaps') : R(g) \cap R(h) = {}
    BY <1>3, <1>6
  <2>2. used' = UNION {R(g) : g \in Items(heaps')}
    BY <2>1, <1>2, <1>5, <1>7
  <2> QED BY <2>2, <1>4
<1>9. \A g, k \in Items(heaps') : g # k => R2(g) \cap R2(k) = {}
  BY <1>3, <1>4, <1>6
<1>10. used' \subseteq Frame /\ \A g \in Items(heaps') : \E f \in Frame : g = f * FRAME_SIZE
  BY <1>1, <1>3, <1>7
<1>11. HeapsInv'
  BY <1>2, <1>3, <1>8, <1>9, <1>10 DEF HeapsInv, FramesExact, FramesOf, R2
<1>12. DOMAIN Limits(frames') = DOMAIN Limits(frames) \ {h}
  BY <1>1, <1>2, <1>3 DEF Limits
<1>13. \A g \in DOMAIN Limits(frames') : Limits(frames')[g] = Limits(frames)[g]
  BY <1>1, <1>3 DEF Limits
<1> QED BY <1>2, <1>11, <1>12, <1>13

(* free keeps the rows. *)
LEMMA FreeStep ==
  ASSUME HInv, NEW x \in DOMAIN head, free(x)
  PROVE  HInv'
<1>1. pc = "idle" /\ UNCHANGED <<pc, req, hp, pos>>
  BY FreeFacts
<1>2. ScanInv'
  BY <1>1 DEF HInv, ScanInv
<1> DEFINE h == head[x].heap
           E == Limits(frames)
<1>3. PICK hd0, hd1, hd2, ft2 :
              /\ FreePath(x, hd0, hd1, hd2)
              /\ Row(Limits(frames), hd2, ft2) /\ Aligned(hd2)
              /\ \/ OneFree(hd2, head[x].heap) /\ Releases(head[x].heap)
                 \/ /\ ~OneFree(hd2, head[x].heap)
                    /\ head' = hd2 /\ foot' = ft2 /\ UNCHANGED <<heaps, frames, used>>
  BY FreeFacts
<1>4. CASE head' = hd2 /\ foot' = ft2 /\ UNCHANGED <<heaps, frames, used>>
  <2>1. Row(Limits(frames), head', foot') /\ Aligned(head')
    BY <1>3, <1>4
  <2> QED BY <2>1, <1>2, <1>4, SameHeaps
<1>5. CASE Releases(h)
  <2>1. h \in Items(heaps) /\ HeapsInv /\ HeadRow(E, head) /\ FootRow(head, foot) /\ Aligned(head)
    BY HInvRow
  <2>2. LimitsOK(E) /\ Apart(E) /\ h \in DOMAIN E /\ E[h] = heap_end(h)
    BY <2>1, HeapsFacts
  <2>3. /\ HeapsInv'
        /\ DOMAIN Limits(frames') = DOMAIN E \ {h}
        /\ \A g \in DOMAIN Limits(frames') : Limits(frames')[g] = E[g]
    BY <2>1, <1>5, FewerFrames
  <2>4. /\ head' = [a \in DOMAIN head \ {b \in DOMAIN head : head[b].heap = h} |-> head[a]]
        /\ foot' = [a \in DOMAIN foot \ {b \in DOMAIN foot : h < b /\ b <= E[h]} |-> foot[a]]
    BY <2>2, <1>5 DEF Releases
  <2> HIDE DEF E, h
  <2> DEFINE E2 == Limits(frames')
             hd == head'
             ft == foot'
  <2>5. /\ DOMAIN E2 = DOMAIN E \ {h} /\ \A g \in DOMAIN E2 : E2[g] = E[g]
        /\ hd = [a \in DOMAIN head \ {b \in DOMAIN head : head[b].heap = h} |-> head[a]]
        /\ ft = [a \in DOMAIN foot \ {b \in DOMAIN foot : h < b /\ b <= E[h]} |-> foot[a]]
    BY <2>3, <2>4
  <2> HIDE DEF E2, hd, ft
  <2>6. HeadRow(E2, hd) /\ FootRow(hd, ft) /\ (Aligned(head) => Aligned(hd))
    BY <2>1, <2>2, <2>5, ReleasedRow
  <2>7. Row(Limits(frames'), head', foot') /\ Aligned(head')
    BY <2>1, <2>6 DEF E2, hd, ft, Row
  <2> QED BY <2>3, <2>7, <1>2 DEF HInv
<1> QED BY <1>3, <1>4, <1>5

(* Every step keeps the invariant. *)
LEMMA HInvStep == HInv /\ [Next]_vars => HInv'
<1>1. SUFFICES ASSUME HInv, [Next]_vars PROVE HInv'
  OBVIOUS
<1>2. CASE UNCHANGED vars
  <2>1. UNCHANGED <<heaps, frames, used, head, foot, pc, req, hp, pos>>
    BY <1>2 DEF vars
  <2>2. ScanInv'
    BY <1>1, <2>1 DEF HInv, ScanInv, heap_end
  <2> QED BY <1>1, <2>1, <2>2, SameBlocks
<1>3. ASSUME NEW size \in Sizes, malloc(size) PROVE HInv'
  BY <1>1, <1>3, MallocStep
<1>4. ASSUME NEW x \in DOMAIN head, free(x) PROVE HInv'
  BY <1>1, <1>4, FreeStep
<1>5. CASE Scan
  BY <1>1, <1>5, SkipStep, SplitStep, WholeStep, NextHeapStep, NewHeapStep, FailsStep DEF Scan
<1> QED BY <1>1, <1>2, <1>3, <1>4, <1>5 DEF Next

(* There is no heap at first. *)
LEMMA HInvInit == Init => HInv
<1>1. SUFFICES ASSUME Init PROVE HInv
  OBVIOUS
<1>2. /\ heaps = << >> /\ frames = << >> /\ used = {} /\ head = << >> /\ foot = << >>
      /\ pc = "idle" /\ req = 0 /\ hp = 0 /\ pos = 0
  BY <1>1 DEF Init
<1>3. Items(heaps) = {} /\ DOMAIN frames = {} /\ DOMAIN head = {} /\ DOMAIN foot = {}
  BY <1>2 DEF Items
<1>4. /\ frames = [x \in {} |-> frames[x]] /\ head = [x \in {} |-> head[x]]
      /\ foot = [x \in {} |-> foot[x]]
  BY <1>2
<1>5. HeapsInv
  <2>1. heaps \in Seq(0 .. MEMORY) /\ NoRepeats(heaps)
    BY <1>2 DEF NoRepeats
  <2>2. frames \in [Items(heaps) -> 1 .. FRAMES]
    BY <1>3, <1>4
  <2>3. FramesExact
    BY <1>2, <1>3 DEF FramesExact
  <2> QED BY <2>1, <2>2, <2>3, <1>2, <1>3 DEF HeapsInv
<1>6. Row(Limits(frames), head, foot)
  <2>1. DOMAIN Limits(frames) = {}
    BY <1>3 DEF Limits
  <2>2. HeadRow(Limits(frames), head)
    BY <2>1, <1>3, <1>4 DEF HeadRow, Heads, Started
  <2>3. FootRow(head, foot)
    BY <1>3, <1>4 DEF FootRow, Feet
  <2> QED BY <2>2, <2>3 DEF Row
<1>7. Aligned(head)
  BY <1>3 DEF Aligned
<1>8. ScanInv
  BY <1>2 DEF ScanInv
<1> QED BY <1>5, <1>6, <1>7, <1>8 DEF HInv

(* The inductive invariant holds in every reachable state. *)
THEOREM HeapInvariant == Spec => []HInv
BY HInvInit, HInvStep, PTL DEF Spec

-----------------------------------------------------------------------------
(* A block passes block_check. *)
LEMMA ChecksOf ==
  ASSUME HInv, NEW b \in DOMAIN head
  PROVE  block_check(Mem, b)
<1>1. /\ b \in Nat /\ b < EndOf(head, b) /\ EndOf(head, b) \in Nat
      /\ heap_start(head[b].heap) <= b /\ EndOf(head, b) <= heap_end(head[b].heap)
      /\ heap_end(head[b].heap) \in Nat /\ FootRow(head, foot)
  BY HInvRow
<1>2. b < heap_end(head[b].heap)
  BY <1>1
<1>3. b + head[b].size \in DOMAIN foot /\ foot[b + head[b].size] = head[b].size
  BY <1>1 DEF FootRow, Footed, EndOf
<1> QED BY <1>1, <1>2, <1>3, MemFields DEF block_check

(* The assertions of free hold for an allocated block. *)
LEMMA FreeChecksOf ==
  ASSUME HInv, NEW b \in DOMAIN head, ~head[b].free
  PROVE  FreeChecks(b)
<1> DEFINE h == head[b].heap
           n == b + head[b].size
           E == Limits(frames)
<1>1. /\ HeapsInv /\ HeadRow(E, head) /\ FootRow(head, foot) /\ h \in Items(heaps)
      /\ EndOf(head, b) = n /\ b \in Nat
  BY HInvRow
<1>2. E[h] = heap_end(h)
  BY <1>1, HeapsFacts
<1>3. Followed(E, head, b) /\ Preceded(head, b)
  BY <1>1 DEF HeadRow
<1>4. n < heap_end(h) => block_check(Mem, n)
  <2>1. n < heap_end(h) => n \in DOMAIN head
    BY <1>1, <1>2, <1>3 DEF Followed
  <2> QED BY <2>1, ChecksOf
<1>5. ASSUME heap_start(h) < b
      PROVE  b \in DOMAIN foot /\ foot[b] <= b /\ block_check(Mem, b - foot[b])
  <2>1. PICK c \in DOMAIN head : EndOf(head, c) = b /\ head[c].heap = h
    BY <1>3, <1>5 DEF Preceded
  <2>2. b \in DOMAIN foot /\ foot[b] = head[c].size
    BY <2>1, <1>1 DEF FootRow, Footed
  <2>3. c \in Nat /\ head[c].size \in Nat /\ b = c + head[c].size
    BY <2>1, HInvRow
  <2>4. b - foot[b] = c /\ foot[b] <= b
    BY <2>2, <2>3
  <2> QED BY <2>2, <2>4, ChecksOf
<1>6. block_check(Mem, b)
  BY ChecksOf
<1> QED BY <1>4, <1>5, <1>6 DEF FreeChecks

(* The types follow from the invariant. *)
LEMMA TypeOfHeap == HInv => TypeOK
<1>1. SUFFICES ASSUME HInv PROVE TypeOK
  OBVIOUS
<1>2. HeapsInv /\ Heads(Limits(frames), head) /\ FootRow(head, foot)
  BY <1>1, HInvRow
<1>3. DOMAIN Limits(frames) = Items(heaps)
  BY <1>2, HeapsFacts
<1>4. heaps \in Seq(0 .. MEMORY) /\ frames \in [Items(heaps) -> 1 .. FRAMES] /\ used \subseteq Frame
  BY <1>2 DEF HeapsInv
<1>5. Block \subseteq 0 .. MEMORY /\ head \in [Block -> [size : 1 .. MEMORY, free : BOOLEAN, heap : Items(heaps)]]
  BY <1>2, <1>3 DEF Heads, Block
<1>6. foot \in [DOMAIN foot -> 1 .. MEMORY]
  BY <1>2 DEF FootRow, Feet
<1>7. Len(heaps) \in Nat /\ MEMORY \in Nat
  BY <1>4, MemoryNat
<1>8. pc \in {"idle", "scan"} /\ req \in Sizes \cup {0} /\ hp \in 0 .. Len(heaps) + 1 /\ pos \in 0 .. MEMORY
  <2>1. pc = "idle" \/ pc = "scan"
    BY <1>1 DEF HInv, ScanInv
  <2>2. CASE pc = "idle"
    BY <2>2, <1>1, <1>7 DEF HInv, ScanInv
  <2>3. CASE pc = "scan"
    <3>1. req \in Sizes /\ hp \in 1 .. Len(heaps) + 1 /\ pos \in 0 .. MEMORY
      BY <2>3, <1>1 DEF HInv, ScanInv
    <3> QED BY <3>1, <2>3, <1>7
  <2> QED BY <2>1, <2>2, <2>3
<1> QED BY <1>4, <1>5, <1>6, <1>8 DEF TypeOK

(* So does the tiling. *)
LEMMA TiledFollows == HInv => Tiled
<1>1. SUFFICES ASSUME HInv PROVE Tiled
  OBVIOUS
<1>2. TypeOK
  BY <1>1, TypeOfHeap
<1>3. ChecksPass
  <2>1. Visiting => block_check(Mem, pos)
    BY <1>1, ScanBlock, ChecksOf
  <2>2. \A b \in Block : ~head[b].free => FreeChecks(b)
    BY <1>1, FreeChecksOf DEF Block
  <2> QED BY <2>1, <2>2 DEF ChecksPass
<1>4. NoRepeats(heaps)
  BY <1>1 DEF HInv, HeapsInv
<1>5. \A h \in Items(heaps) : heap_start(h) \in Block /\ head[heap_start(h)].heap = h
  BY <1>1, StartBlock DEF Block
<1>6. ASSUME NEW b \in Block
      PROVE LET h == head[b].heap
            IN  /\ heap_start(h) <= b /\ End(b) <= heap_end(h)
                /\ head[b].size >= HEAD + FOOT
                /\ End(b) < heap_end(h) => End(b) \in Block /\ head[End(b)].heap = h
                /\ End(b) \in DOMAIN foot /\ foot[End(b)] = head[b].size
                /\ \A c \in Block : c <= b \/ c >= End(b)
  <2> DEFINE h == head[b].heap
             E == Limits(frames)
  <2>1. b \in DOMAIN head /\ End(b) = EndOf(head, b)
    BY DEF Block, End, EndOf
  <2>2. /\ HeapsInv /\ HeadRow(E, head) /\ FootRow(head, foot)
        /\ b \in Nat /\ EndOf(head, b) \in Nat /\ h \in Items(heaps)
        /\ heap_start(h) <= b /\ EndOf(head, b) <= heap_end(h)
    BY <1>1, <2>1, HInvRow
  <2>3. E[h] = heap_end(h)
    BY <2>2, HeapsFacts
  <2>4. Inside(E, head, b) /\ Followed(E, head, b) /\ Footed(head, foot, b)
    BY <2>1, <2>2 DEF HeadRow, FootRow
  <2>5. head[b].size >= HEAD + FOOT
    BY <2>4 DEF Inside
  <2>6. End(b) < heap_end(h) => End(b) \in Block /\ head[End(b)].heap = h
    BY <2>1, <2>3, <2>4 DEF Followed, Block
  <2>7. End(b) \in DOMAIN foot /\ foot[End(b)] = head[b].size
    BY <2>1, <2>4 DEF Footed
  <2>8. ASSUME NEW c \in Block PROVE c <= b \/ c >= End(b)
    <3>1. c \in DOMAIN head /\ c \in Nat
      BY <1>1, HInvRow DEF Block
    <3>2. CASE c = b
      BY <3>1, <3>2
    <3>3. CASE c # b
      BY <3>1, <3>3, <2>1, <2>2, Order
    <3> QED BY <3>2, <3>3
  <2> QED BY <2>1, <2>2, <2>5, <2>6, <2>7, <2>8
<1> QED BY <1>2, <1>3, <1>4, <1>5, <1>6 DEF Tiled

(***************************************************************************)
(* The blocks of every heap tile it, with headers and footers that agree,  *)
(* and no assertion of malloc or free fails, for all frames, tags, sizes   *)
(* and requests.                                                           *)
(***************************************************************************)
THEOREM TiledCorrect == Spec => []Tiled
BY HeapInvariant, TiledFollows, PTL

(***************************************************************************)
(* The frame allocator has handed out exactly the frames of the heaps.     *)
(***************************************************************************)
THEOREM FramesCorrect == Spec => []FramesExact
<1>1. HInv => FramesExact
  BY DEF HInv, HeapsInv
<1> QED BY <1>1, HeapInvariant, PTL


-----------------------------------------------------------------------------
(* Where the heap of a block is in the list. *)
LEMMA HeapOfBlock ==
  ASSUME HInv, NEW b \in DOMAIN head
  PROVE  \E i \in 1 .. Len(heaps) : heaps[i] = head[b].heap
<1>1. head[b].heap \in Items(heaps)
  BY HInvRow
<1> QED BY <1>1 DEF Items

(* Nothing is behind the scan when it begins. *)
LEMMA ScanMalloc ==
  ASSUME HInv, NEW size \in Sizes, malloc(size)
  PROVE  ScanMissesNothing'
<1>1. /\ hp' = 1 /\ heaps' = heaps /\ head' = head
      /\ heaps # << >> => pos' = heap_start(heaps[1])
  BY DEF malloc
<1>2. ASSUME NEW b \in DOMAIN head
      PROVE  \E i \in 1 .. Len(heaps) : heaps[i] = head[b].heap /\ (i = 1 => pos' <= b)
  <2>1. PICK i \in 1 .. Len(heaps) : heaps[i] = head[b].heap
    BY HeapOfBlock
  <2>2. heap_start(head[b].heap) <= b
    BY HInvRow
  <2>3. heaps \in Seq(0 .. MEMORY)
    BY HInvRow DEF HeapsInv
  <2>4. heaps # << >>
    BY <2>1, <2>3
  <2>5. i = 1 => pos' <= b
    BY <1>1, <2>1, <2>2, <2>4
  <2> QED BY <2>1, <2>5
<1> QED BY <1>1, <1>2 DEF ScanMissesNothing, Block

(* A skipped block is not suitable, and the others are behind its end. *)
LEMMA ScanSkip ==
  ASSUME HInv, ScanMissesNothing, malloc_skip
  PROVE  ScanMissesNothing'
<1>1. /\ Visiting /\ ~Suitable(pos) /\ pc = "scan"
      /\ pos' = pos + head[pos].size
      /\ hp' = hp /\ heaps' = heaps /\ head' = head /\ req' = req
  BY DEF malloc_skip, Visiting
<1>2. pos \in DOMAIN head /\ HeadRow(Limits(frames), head)
  BY <1>1, ScanBlock, HInvRow
<1>3. pos' = EndOf(head, pos)
  BY <1>1 DEF EndOf
<1>4. ASSUME NEW b \in DOMAIN head, Suitable(b)
      PROVE  \E i \in hp .. Len(heaps) : heaps[i] = head[b].heap /\ (i = hp => pos' <= b)
  <2>1. PICK i \in hp .. Len(heaps) : heaps[i] = head[b].heap /\ (i = hp => pos <= b)
    BY <1>1, <1>4 DEF ScanMissesNothing, Block
  <2>2. b # pos
    BY <1>1, <1>4
  <2>3. (EndOf(head, pos) <= b /\ pos < b) \/ (EndOf(head, b) <= pos /\ b < pos)
    BY <1>2, <2>2, Order
  <2>4. b \in Nat /\ pos \in Nat
    BY <1>2, HInvRow
  <2>5. i = hp => pos' <= b
    BY <1>3, <2>1, <2>3, <2>4
  <2> QED BY <2>1, <2>5
<1>5. \A b \in DOMAIN head : Suitable(b)' <=> Suitable(b)
  BY <1>1 DEF Suitable
<1> QED BY <1>1, <1>4, <1>5 DEF ScanMissesNothing, Block

(* The heap that the scan leaves holds no suitable block. *)
LEMMA ScanNextHeap ==
  ASSUME HInv, ScanMissesNothing, malloc_next_heap
  PROVE  ScanMissesNothing'
<1>1. /\ pc = "scan" /\ hp <= Len(heaps) /\ pos >= heap_end(heaps[hp])
      /\ hp' = hp + 1
      /\ hp < Len(heaps) => pos' = heap_start(heaps[hp + 1])
      /\ heaps' = heaps /\ head' = head /\ req' = req
  BY DEF malloc_next_heap
<1>2. hp \in 1 .. Len(heaps) + 1 /\ pos \in Nat /\ Len(heaps) \in Nat
  BY <1>1, MemoryNat DEF HInv, ScanInv, HeapsInv
<1>3. ASSUME NEW b \in DOMAIN head, Suitable(b)
      PROVE  \E i \in hp + 1 .. Len(heaps) : heaps[i] = head[b].heap /\ (i = hp + 1 => pos' <= b)
  <2>1. PICK i \in hp .. Len(heaps) : heaps[i] = head[b].heap /\ (i = hp => pos <= b)
    BY <1>1, <1>3 DEF ScanMissesNothing, Block
  <2>2. /\ b \in Nat /\ EndOf(head, b) \in Nat /\ b < EndOf(head, b)
        /\ EndOf(head, b) <= heap_end(head[b].heap) /\ heap_end(head[b].heap) \in Nat
        /\ heap_start(head[b].heap) <= b
    BY HInvRow
  <2>3. i # hp
    BY <1>1, <1>2, <2>1, <2>2
  <2>4. i = hp + 1 => pos' <= b
    BY <1>1, <1>2, <2>1, <2>2
  <2>5. i \in hp + 1 .. Len(heaps)
    BY <1>2, <2>1, <2>3
  <2> QED BY <2>1, <2>4, <2>5
<1>4. \A b \in DOMAIN head : Suitable(b)' <=> Suitable(b)
  BY <1>1 DEF Suitable
<1> QED BY <1>1, <1>3, <1>4 DEF ScanMissesNothing, Block

(* Every step keeps what the scan has missed empty. *)
LEMMA ScanStep == HInv /\ ScanMissesNothing /\ [Next]_vars => ScanMissesNothing'
<1> SUFFICES ASSUME HInv, ScanMissesNothing, [Next]_vars
             PROVE  ScanMissesNothing'
  OBVIOUS
<1>1. CASE \E size \in Sizes : malloc(size)
  BY <1>1, ScanMalloc
<1>2. CASE \E addr \in DOMAIN head : free(addr)
  BY <1>2 DEF free, ScanMissesNothing
<1>3. CASE malloc_skip
  BY <1>3, ScanSkip
<1>4. CASE malloc_next_heap
  BY <1>4, ScanNextHeap
<1>5. CASE malloc_split \/ malloc_whole \/ malloc_heap \/ malloc_fails
  <2>1. Return
    BY <1>5 DEF malloc_split, malloc_whole, malloc_heap, malloc_fails
  <2> QED BY <2>1 DEF Return, ScanMissesNothing
<1>6. CASE UNCHANGED vars
  BY <1>6 DEF vars, ScanMissesNothing, Block, Suitable
<1> QED BY <1>1, <1>2, <1>3, <1>4, <1>5, <1>6 DEF Next, Scan

(***************************************************************************)
(* The first-fit scan passes over no block it could use, so malloc asks    *)
(* for a new heap, or fails, only when no free block is large enough.      *)
(***************************************************************************)
THEOREM ScanCorrect == Spec => []ScanMissesNothing
<1>1. Init => ScanMissesNothing
  BY DEF Init, ScanMissesNothing
<1> QED BY <1>1, HeapInvariant, ScanStep, PTL DEF Spec

-----------------------------------------------------------------------------
(***************************************************************************)
(* Two free neighbours, and a heap that is one free block: neither is      *)
(* there between two calls.                                                *)
(***************************************************************************)
FreePair(hd, b, c) ==
  /\ b \in DOMAIN hd /\ c \in DOMAIN hd
  /\ hd[b].free /\ hd[c].free /\ hd[b].heap = hd[c].heap /\ EndOf(hd, b) = c

NoPairs(hd) == \A b, c \in DOMAIN hd : ~FreePair(hd, b, c)

NoneEmpty(E, hd) ==
  \A h \in DOMAIN E : hd[heap_start(h)].free => EndOf(hd, heap_start(h)) # E[h]

(* Dividing a free block, or the last of its heap, makes no pair. *)
LEMMA DividedPairs ==
  ASSUME NEW E, LimitsOK(E), NEW hd, HeadRow(E, hd), NEW p \in DOMAIN hd, NEW n \in Nat \ {0},
         n < hd[p].size, NEW hd2, Divided(hd, hd2, p, n), NoPairs(hd), NoneEmpty(E, hd),
         hd[p].free \/ EndOf(hd, p) = E[hd[p].heap]
  PROVE  NoPairs(hd2) /\ NoneEmpty(E, hd2)
<1> DEFINE q == p + n
<1>1. /\ p \in Nat /\ p < q /\ q < EndOf(hd, p) /\ q \notin DOMAIN hd
      /\ hd2[q].heap = hd[p].heap /\ EndOf(hd2, q) = EndOf(hd, p)
      /\ ~hd2[p].free
      /\ \A b \in DOMAIN hd : b # p => EndOf(hd2, b) = EndOf(hd, b) /\ hd2[b] = hd[b]
      /\ \A b \in DOMAIN hd2 : b = q \/ b \in DOMAIN hd
  <2>1. ~hd2[p].free /\ q \notin DOMAIN hd
    BY DEF Divided
  <2> QED BY <2>1, DividedEnds
<1> HIDE DEF q
<1>2. Heads(E, hd) /\ Started(E, hd) /\ EndOf(hd, p) \in Nat /\ q \in Nat
  BY HeadsNat DEF HeadRow, q
<1>3. ASSUME NEW b \in DOMAIN hd2, NEW c \in DOMAIN hd2, FreePair(hd2, b, c)
      PROVE  FALSE
  <2>1. b # p /\ c # p
    BY <1>1, <1>3 DEF FreePair
  <2>2. CASE b = q
    <3>1. c \in DOMAIN hd /\ EndOf(hd, p) = c /\ hd[c].free /\ hd[c].heap = hd[p].heap
      BY <1>1, <1>2, <1>3, <2>1, <2>2 DEF FreePair
    <3>2. EndOf(hd, c) > c /\ EndOf(hd, c) \in Nat /\ c \in Nat
      BY <1>2, <3>1, HeadsNat
    <3>3. EndOf(hd, c) <= E[hd[c].heap]
      BY <3>1 DEF HeadRow, Inside
    <3>4. hd[p].heap \in DOMAIN E
      BY <1>2, HeadsNat
    <3>5. E[hd[p].heap] \in Nat
      BY <3>4, LimitsNat
    <3>6. EndOf(hd, p) # E[hd[p].heap]
      BY <3>1, <3>2, <3>3, <3>5
    <3>7. FreePair(hd, p, c)
      BY <3>1, <3>6 DEF FreePair
    <3> QED BY <3>1, <3>7 DEF NoPairs
  <2>3. CASE b # q /\ c = q
    <3>1. b \in DOMAIN hd /\ EndOf(hd, b) = q
      BY <1>1, <1>3, <2>1, <2>3 DEF FreePair
    <3>2. (EndOf(hd, p) <= b /\ p < b) \/ (EndOf(hd, b) <= p /\ b < p)
      BY <3>1, <2>1, Order
    <3>3. b \in Nat /\ b < EndOf(hd, b)
      BY <1>2, <3>1, HeadsNat
    <3> QED BY <1>1, <1>2, <3>1, <3>2, <3>3
  <2>4. CASE b # q /\ c # q
    <3>1. b \in DOMAIN hd /\ c \in DOMAIN hd /\ FreePair(hd, b, c)
      BY <1>1, <1>3, <2>1, <2>4 DEF FreePair
    <3> QED BY <3>1 DEF NoPairs
  <2> QED BY <2>2, <2>3, <2>4
<1>4. ASSUME NEW h \in DOMAIN E, hd2[heap_start(h)].free
      PROVE  EndOf(hd2, heap_start(h)) # E[h]
  <2>1. heap_start(h) \in DOMAIN hd
    BY <1>2 DEF Started
  <2>2. heap_start(h) # p
    BY <1>1, <1>4
  <2> QED BY <1>1, <1>4, <2>1, <2>2 DEF NoneEmpty
<1> QED BY <1>3, <1>4 DEF NoPairs, NoneEmpty

(* Neither does an allocated block, new or not, with the others unchanged. *)
LEMMA TakenPairs ==
  ASSUME NEW E, NEW E2, NEW hd, NEW hd2, NEW p, Heads(E, hd), Started(E, hd), Started(E2, hd2),
         NoPairs(hd), NoneEmpty(E, hd),
         DOMAIN hd2 = DOMAIN hd \cup {p}, ~hd2[p].free,
         \A b \in DOMAIN hd : b # p => hd2[b] = hd[b],
         \A h \in DOMAIN E2 : heap_start(h) # p => h \in DOMAIN E /\ E2[h] = E[h]
  PROVE  NoPairs(hd2) /\ NoneEmpty(E2, hd2)
<1>1. ASSUME NEW b \in DOMAIN hd2, NEW c \in DOMAIN hd2, FreePair(hd2, b, c)
      PROVE  FALSE
  <2>1. b # p /\ c # p
    BY <1>1 DEF FreePair
  <2>2. b \in DOMAIN hd /\ c \in DOMAIN hd /\ FreePair(hd, b, c)
    BY <1>1, <2>1 DEF FreePair, EndOf
  <2> QED BY <2>2 DEF NoPairs
<1>2. ASSUME NEW h \in DOMAIN E2, hd2[heap_start(h)].free
      PROVE  EndOf(hd2, heap_start(h)) # E2[h]
  <2>1. heap_start(h) # p
    BY <1>2
  <2>2. h \in DOMAIN E /\ E2[h] = E[h]
    BY <2>1
  <2>3. hd2[heap_start(h)] = hd[heap_start(h)]
    BY <2>1, <2>2 DEF Started
  <2> QED BY <1>2, <2>2, <2>3 DEF NoneEmpty, EndOf
<1> QED BY <1>1, <1>2 DEF NoPairs, NoneEmpty

(* A free pair after a merge was one before, with n in the place of a. *)
LEMMA MergedPairs ==
  ASSUME NEW E, LimitsOK(E), NEW hd, HeadRow(E, hd), NEW hd2, NEW a, NEW n, Merged(hd, hd2, a, n),
         NEW b, NEW c, FreePair(hd2, b, c)
  PROVE  c # n /\ \/ b = a /\ FreePair(hd, n, c)
                  \/ b # a /\ FreePair(hd, b, c)
<1>1. /\ a \in DOMAIN hd /\ n \in DOMAIN hd /\ a # n
      /\ DOMAIN hd2 = DOMAIN hd \ {n} /\ a \in DOMAIN hd2
      /\ hd2[a].free /\ hd2[a].heap = hd[a].heap /\ hd[n].heap = hd[a].heap
      /\ EndOf(hd, a) = n /\ EndOf(hd2, a) = EndOf(hd, n)
      /\ \A x \in DOMAIN hd2 : x # a => hd2[x] = hd[x] /\ EndOf(hd2, x) = EndOf(hd, x)
  <2>1. AfterMerge(hd, hd2, a, n)
    BY MergedFacts
  <2> QED BY <2>1 DEF AfterMerge
<1>2. hd[a].free /\ hd[n].free
  BY DEF Merged
<1>3. c \in DOMAIN hd /\ c # n /\ b \in DOMAIN hd /\ hd[c].free /\ hd[c].heap = hd2[c].heap
  BY <1>1, <1>2 DEF FreePair
<1>4. CASE b = a
  BY <1>1, <1>2, <1>3, <1>4 DEF FreePair
<1>5. CASE b # a
  BY <1>1, <1>3, <1>5 DEF FreePair
<1> QED BY <1>3, <1>4, <1>5

(* free leaves no pair: the look at the next block leaves only pairs that  *)
(* end in x, the look at the previous one leaves none.                     *)
LEMMA FreedPairs ==
  ASSUME HeapsInv, Heads(Limits(frames), head), NEW x \in DOMAIN head, NoPairs(head),
         NEW hd0, NEW hd1, NEW hd2, FreePath(x, hd0, hd1, hd2)
  PROVE  NoPairs(hd2)
<1> DEFINE E == Limits(frames)
<1>1. LimitsOK(E) /\ HeadRow(E, hd0) /\ HeadRow(E, hd1)
  BY HeapsFacts DEF FreePath
<1> HIDE DEF E
<1>2. ASSUME NEW b, NEW c, FreePair(hd0, b, c) PROVE b = x \/ c = x
  <2>1. SUFFICES ASSUME b # x, c # x PROVE FALSE
    OBVIOUS
  <2>2. b \in DOMAIN head /\ c \in DOMAIN head /\ hd0[b] = head[b] /\ hd0[c] = head[c]
    BY <1>2, <2>1 DEF FreePath, FreePair
  <2>3. FreePair(head, b, c)
    BY <1>2, <2>2 DEF FreePair, EndOf
  <2> QED BY <2>2, <2>3 DEF NoPairs
<1>3. ASSUME NEW b, NEW c, FreePair(hd1, b, c) PROVE c = x
  <2>1. CASE hd1 = hd0 /\ (EndOf(hd0, x) < heap_end(hd0[x].heap) => ~hd0[EndOf(hd0, x)].free)
    <3>1. SUFFICES ASSUME b = x PROVE FALSE
      BY <1>2, <1>3, <2>1
    <3>2. /\ c \in DOMAIN hd0 /\ hd0[c].free /\ EndOf(hd0, x) = c
          /\ hd0[c].heap = hd0[x].heap
      BY <1>3, <2>1, <3>1 DEF FreePair
    <3>3. c \in Nat /\ EndOf(hd0, c) \in Nat /\ c < EndOf(hd0, c) /\ hd0[c].heap \in DOMAIN E
      BY <1>1, <3>2, HeadsNat DEF HeadRow
    <3>4. EndOf(hd0, c) <= E[hd0[c].heap]
      BY <1>1, <3>2 DEF HeadRow, Inside
    <3>5. E[hd0[c].heap] \in Nat /\ E[hd0[c].heap] = heap_end(hd0[c].heap)
      BY <1>1, <3>3, LimitsNat, HeapsFacts DEF E
    <3> QED BY <2>1, <3>2, <3>3, <3>4, <3>5
  <2>2. CASE Merged(hd0, hd1, x, EndOf(hd0, x))
    <3> DEFINE n == EndOf(hd0, x)
    <3>1. n # x
      <4>1. AfterMerge(hd0, hd1, x, n)
        BY <1>1, <2>2, MergedFacts
      <4> QED BY <4>1 DEF AfterMerge
    <3>2. (b = x /\ FreePair(hd0, n, c)) \/ (b # x /\ FreePair(hd0, b, c))
      BY <1>1, <1>3, <2>2, MergedPairs
    <3> HIDE DEF n
    <3> QED BY <1>2, <3>1, <3>2
  <2> QED BY <2>1, <2>2 DEF FreePath
<1>4. ASSUME NEW b, NEW c, FreePair(hd2, b, c) PROVE FALSE
  <2>1. CASE /\ hd2 = hd1
             /\ \A d \in DOMAIN hd1 : EndOf(hd1, d) = x /\ hd1[d].heap = hd1[x].heap => ~hd1[d].free
    <3>1. c = x
      BY <1>3, <1>4, <2>1
    <3> QED BY <1>4, <2>1, <3>1 DEF FreePair
  <2>2. CASE \E d \in DOMAIN hd1 : Merged(hd1, hd2, d, x)
    <3>1. PICK d \in DOMAIN hd1 : Merged(hd1, hd2, d, x)
      BY <2>2
    <3>2. c # x /\ (FreePair(hd1, x, c) \/ FreePair(hd1, b, c))
      BY <1>1, <1>4, <3>1, MergedPairs
    <3> QED BY <1>3, <3>2
  <2> QED BY <2>1, <2>2 DEF FreePath
<1> QED BY <1>4 DEF NoPairs

(* free leaves the blocks of other heaps alone. *)
LEMMA FreedOthers ==
  ASSUME HeapsInv, NEW x \in DOMAIN head, NEW hd0, NEW hd1, NEW hd2, FreePath(x, hd0, hd1, hd2),
         NEW b \in DOMAIN head, head[b].heap # head[x].heap
  PROVE  b \in DOMAIN hd2 /\ hd2[b] = head[b]
<1> DEFINE E == Limits(frames)
<1>1. LimitsOK(E) /\ HeadRow(E, hd0) /\ HeadRow(E, hd1)
  BY HeapsFacts DEF FreePath
<1> HIDE DEF E
<1>2. ASSUME NEW hd, NEW h2, NEW a, NEW n, HeadRow(E, hd), Merged(hd, h2, a, n),
             b \in DOMAIN hd, hd[b] = head[b], hd[a].heap = head[x].heap \/ hd[n].heap = head[x].heap
      PROVE  b \in DOMAIN h2 /\ h2[b] = head[b]
  <2>1. AfterMerge(hd, h2, a, n)
    BY <1>1, <1>2, MergedFacts
  <2>2. b # a /\ b # n
    BY <1>2, <2>1 DEF AfterMerge
  <2> QED BY <1>2, <2>1, <2>2 DEF AfterMerge
<1>3. b # x /\ b \in DOMAIN hd0 /\ hd0[b] = head[b] /\ hd0[x].heap = head[x].heap
  BY DEF FreePath
<1>4. b \in DOMAIN hd1 /\ hd1[b] = head[b] /\ hd1[x].heap = head[x].heap
  <2>1. hd1 = hd0 \/ Merged(hd0, hd1, x, EndOf(hd0, x))
    BY DEF FreePath
  <2>2. hd1[x].heap = head[x].heap
    BY DEF FreePath
  <2> QED BY <1>1, <1>2, <1>3, <2>1, <2>2
<1>5. hd2 = hd1 \/ \E c \in DOMAIN hd1 : Merged(hd1, hd2, c, x)
  BY DEF FreePath
<1> QED BY <1>1, <1>2, <1>4, <1>5

(* The heaps are coalesced, in the terms of a row of blocks. *)
CoalInv == NoPairs(head) /\ NoneEmpty(Limits(frames), head)

(* The rest of a split is followed by no free block. *)
LEMMA CoalSplit ==
  ASSUME HInv, CoalInv, malloc_split
  PROVE  CoalInv'
<1>1. /\ pos \in DOMAIN head /\ head[pos].free
      /\ RealSize(req) \in Nat \ {0} /\ RealSize(req) < head[pos].size
      /\ Divided(head, head', pos, RealSize(req)) /\ frames' = frames
  BY SplitFacts
<1>2. LimitsOK(Limits(frames)) /\ HeadRow(Limits(frames), head)
  BY HInvRow, HeapsFacts
<1>3. NoPairs(head') /\ NoneEmpty(Limits(frames), head')
  BY <1>1, <1>2, DividedPairs DEF CoalInv
<1> QED BY <1>1, <1>3 DEF CoalInv

(* A taken block is in no pair. *)
LEMMA CoalWhole ==
  ASSUME HInv, CoalInv, malloc_whole
  PROVE  CoalInv'
<1> DEFINE E == Limits(frames)
<1>1. /\ pos \in DOMAIN head /\ DOMAIN head' = DOMAIN head
      /\ head'[pos] = [size |-> head[pos].size, free |-> FALSE, heap |-> head[pos].heap]
      /\ \A b \in DOMAIN head : b # pos => head'[b] = head[b]
      /\ Marked(head, head') /\ frames' = frames
  BY WholeFacts
<1>2. Heads(E, head) /\ Started(E, head) /\ HeadRow(E, head) /\ FootRow(head, foot)
  BY HInvRow DEF HeadRow
<1>3. Started(E, head')
  <2>1. HeadRow(E, head')
    BY <1>1, <1>2, MarkedRow
  <2> QED BY <2>1 DEF HeadRow
<1>4. ~head'[pos].free /\ DOMAIN head' = DOMAIN head \cup {pos}
  BY <1>1
<1>5. NoPairs(head) /\ NoneEmpty(E, head)
  BY DEF CoalInv
<1> HIDE DEF E
<1>6. NoPairs(head') /\ NoneEmpty(E, head')
  BY <1>1, <1>2, <1>3, <1>4, <1>5, TakenPairs
<1> QED BY <1>1, <1>6 DEF CoalInv, E

(* The rest of a new heap ends with the heap. *)
LEMMA CoalNewHeap ==
  ASSUME HInv, CoalInv, malloc_heap
  PROVE  CoalInv'
<1> DEFINE E == Limits(frames)
           E2 == Limits(frames')
<1>1. PICK h, s, hd1 : NewHeap(h, s, hd1)
  BY NewHeapFacts
<1> DEFINE c == heap_start(h)
<1>2. /\ Grown(E, E2, h, c + s) /\ LimitsOK(E2) /\ s \in Nat
      /\ Placed(head, hd1, c, s, h) /\ HeadRow(E2, hd1)
      /\ c \notin DOMAIN head /\ DOMAIN hd1 = DOMAIN head \cup {c}
      /\ \A b \in DOMAIN head : hd1[b] = head[b]
  BY <1>1 DEF NewHeap
<1>3. Heads(E, head) /\ Started(E, head)
  BY HInvRow DEF HeadRow
<1>4. NoPairs(head) /\ NoneEmpty(E, head)
  BY DEF CoalInv
<1>5. \A g \in DOMAIN E2 : heap_start(g) # c => g \in DOMAIN E /\ E2[g] = E[g]
  BY <1>2 DEF Grown
<1>6. /\ ~hd1[c].free /\ hd1[c].heap = h /\ hd1[c].size = s
      /\ EndOf(hd1, c) = c + s /\ E2[h] = c + s /\ Started(E2, hd1)
  BY <1>2 DEF Placed, EndOf, Grown, HeadRow
<1>7. head' = hd1 \/ /\ RealSize(req) \in Nat \ {0} /\ RealSize(req) < s
                     /\ Divided(hd1, head', c, RealSize(req))
  BY <1>1 DEF NewHeap
<1> HIDE DEF E, E2, c
<1>8. NoPairs(hd1) /\ NoneEmpty(E2, hd1)
  BY <1>2, <1>3, <1>4, <1>5, <1>6, TakenPairs
<1>9. NoPairs(head') /\ NoneEmpty(E2, head')
  <2>1. CASE head' = hd1
    BY <1>8, <2>1
  <2>2. CASE /\ RealSize(req) \in Nat \ {0} /\ RealSize(req) < s
             /\ Divided(hd1, head', c, RealSize(req))
    <3>1. c \in DOMAIN hd1 /\ RealSize(req) < hd1[c].size /\ EndOf(hd1, c) = E2[hd1[c].heap]
      BY <1>2, <1>6, <2>2
    <3> QED BY <1>2, <1>8, <2>2, <3>1, DividedPairs
  <2> QED BY <1>7, <2>1, <2>2
<1> QED BY <1>9 DEF CoalInv, E2

(* free leaves no pair and releases an empty heap. *)
LEMMA CoalFree ==
  ASSUME HInv, CoalInv, NEW x \in DOMAIN head, free(x)
  PROVE  CoalInv'
<1> DEFINE E == Limits(frames)
           h == head[x].heap
<1>1. /\ HeapsInv /\ Heads(E, head) /\ Started(E, head) /\ h \in Items(heaps)
      /\ \A g \in Items(heaps) : E[g] = heap_end(g)
      /\ DOMAIN E = Items(heaps)
  BY HInvRow, HeapsFacts DEF HeadRow
<1>2. NoPairs(head) /\ NoneEmpty(E, head)
  BY DEF CoalInv
<1>3. PICK hd0, hd1, hd2, ft2 :
           /\ FreePath(x, hd0, hd1, hd2)
           /\ \/ OneFree(hd2, h) /\ Releases(h)
              \/ ~OneFree(hd2, h) /\ head' = hd2 /\ UNCHANGED <<heaps, frames, used>>
  BY FreeFacts
<1> HIDE DEF E, h
<1>4. CASE OneFree(hd2, h) /\ Releases(h)
  <2>1. /\ DOMAIN Limits(frames') = DOMAIN E \ {h}
        /\ \A g \in DOMAIN Limits(frames') : Limits(frames')[g] = E[g]
    BY <1>1, <1>4, FewerFrames DEF E
  <2>2. /\ DOMAIN head' = DOMAIN head \ {b \in DOMAIN head : head[b].heap = h}
        /\ \A b \in DOMAIN head' : head'[b] = head[b]
    BY <1>4 DEF Releases
  <2>3. NoPairs(head')
    BY <1>2, <2>2 DEF NoPairs, FreePair, EndOf
  <2>4. ASSUME NEW g \in DOMAIN Limits(frames'), head'[heap_start(g)].free
        PROVE  EndOf(head', heap_start(g)) # Limits(frames')[g]
    <3>1. g \in DOMAIN E /\ g # h
      BY <2>1
    <3>2. heap_start(g) \in DOMAIN head'
      BY <1>1, <2>2, <3>1 DEF Started
    <3> QED BY <1>2, <2>1, <2>2, <2>4, <3>1, <3>2 DEF NoneEmpty, EndOf
  <2> QED BY <2>3, <2>4 DEF CoalInv, NoneEmpty
<1>5. CASE ~OneFree(hd2, h) /\ head' = hd2 /\ UNCHANGED <<heaps, frames, used>>
  <2>1. NoPairs(hd2)
    BY <1>1, <1>2, <1>3, FreedPairs DEF E
  <2>2. ASSUME NEW g \in DOMAIN E, hd2[heap_start(g)].free
        PROVE  EndOf(hd2, heap_start(g)) # E[g]
    <3>1. CASE g = h
      BY <1>1, <1>5, <2>2, <3>1 DEF OneFree
    <3>2. CASE g # h
      <4>1. heap_start(g) \in DOMAIN head /\ head[heap_start(g)].heap # h
        BY <1>1, <3>2 DEF Started
      <4>2. hd2[heap_start(g)] = head[heap_start(g)]
        BY <1>1, <1>3, <4>1, FreedOthers DEF h
      <4> QED BY <1>2, <2>2, <4>2 DEF NoneEmpty, EndOf
    <3> QED BY <3>1, <3>2
  <2> QED BY <1>5, <2>1, <2>2 DEF CoalInv, NoneEmpty, E
<1> QED BY <1>3, <1>4, <1>5

(* Every step leaves the heaps coalesced. *)
LEMMA CoalStep == HInv /\ CoalInv /\ [Next]_vars => CoalInv'
<1> SUFFICES ASSUME HInv, CoalInv, [Next]_vars
             PROVE  CoalInv'
  OBVIOUS
<1>1. CASE \E addr \in DOMAIN head : free(addr)
  BY <1>1, CoalFree
<1>2. CASE malloc_split
  BY <1>2, CoalSplit
<1>3. CASE malloc_whole
  BY <1>3, CoalWhole
<1>4. CASE malloc_heap
  BY <1>4, CoalNewHeap
<1>5. CASE \/ \E size \in Sizes : malloc(size)
           \/ malloc_skip \/ malloc_next_heap \/ malloc_fails \/ UNCHANGED vars
  <2>1. head' = head /\ frames' = frames
    BY <1>5 DEF malloc, malloc_skip, malloc_next_heap, malloc_fails, vars
  <2> QED BY <2>1 DEF CoalInv
<1> QED BY <1>1, <1>2, <1>3, <1>4, <1>5 DEF Next, Scan

(* CoalInv is Coalesced. *)
LEMMA CoalescedFollows == HInv /\ CoalInv => Coalesced
<1> SUFFICES ASSUME HInv, CoalInv PROVE Coalesced
  OBVIOUS
<1>1. ASSUME NEW b \in Block, NEW c \in Block,
             head[b].free /\ head[c].free /\ head[b].heap = head[c].heap
      PROVE  End(b) # c
  BY <1>1 DEF CoalInv, NoPairs, FreePair, Block, End, EndOf
<1>2. ASSUME NEW h \in Items(heaps) PROVE ~Empty(Mem, h)
  <2>1. h \in DOMAIN Limits(frames) /\ Limits(frames)[h] = heap_end(h)
    BY HInvRow, HeapsFacts
  <2> QED BY <2>1, MemFields DEF CoalInv, NoneEmpty, Empty, EndOf
<1> QED BY <1>1, <1>2 DEF Coalesced

(***************************************************************************)
(* free leaves no fragments: no two free blocks are neighbours, and no     *)
(* heap is a single free block, however splits and merges are interleaved. *)
(***************************************************************************)
THEOREM CoalescedCorrect == Spec => []Coalesced
<1>1. Init => CoalInv
  BY DEF Init, CoalInv, NoPairs, NoneEmpty, Limits
<1> QED BY <1>1, HeapInvariant, CoalStep, CoalescedFollows, PTL DEF Spec

-----------------------------------------------------------------------------
(* The allocated blocks, and the space that their callers hold. *)
Kept(hd) == {b \in DOMAIN hd : ~hd[b].free}

Space(hd, b) == [addr |-> b + HEAD, size |-> hd[b].size - HEAD - FOOT]

(* The live allocations are the spaces of the allocated blocks. *)
LEMMA LiveKept == Live = {Space(head, b) : b \in Kept(head)}
BY DEF Live, Kept, Space, Block

RowNow == LimitsOK(Limits(frames)) /\ HeadRow(Limits(frames), head) /\ Aligned(head)

(* The row of blocks of the present state. *)
LEMMA RowOf == HInv => RowNow
BY HInvRow, HeapsFacts DEF RowNow

(* The same after a step. *)
LEMMA RowNext == HInv' => RowNow'
BY RowOf, PTL

(* The space of a block is inside the block, which is in memory. *)
LEMMA SpaceFacts ==
  ASSUME NEW E, LimitsOK(E), NEW hd, HeadRow(E, hd), Aligned(hd), NEW b \in DOMAIN hd
  PROVE  /\ Space(hd, b).addr = b + HEAD /\ Space(hd, b).size = hd[b].size - HEAD - FOOT
         /\ b \in Nat /\ hd[b].size \in Nat /\ hd[b].size >= HEAD + FOOT
         /\ EndOf(hd, b) = b + hd[b].size /\ EndOf(hd, b) <= MEMORY
         /\ Space(hd, b) \in [addr : 0 .. MEMORY, size : 0 .. MEMORY]
         /\ Space(hd, b).addr % ALIGNMENT = 0
         /\ Space(hd, b).addr + Space(hd, b).size <= EndOf(hd, b)
<1> DEFINE s == hd[b].size
<1>1. Heads(E, hd) /\ Inside(E, hd, b)
  BY DEF HeadRow
<1>2. b \in Nat /\ s \in Nat /\ EndOf(hd, b) = b + s /\ hd[b].heap \in DOMAIN E
  BY <1>1, HeadsNat
<1>3. E[hd[b].heap] \in Nat /\ E[hd[b].heap] <= MEMORY
  BY <1>2, LimitsNat
<1>4. EndOf(hd, b) <= E[hd[b].heap] /\ s >= HEAD + FOOT
  BY <1>1 DEF Inside
<1>5. HEAD \in Nat /\ FOOT \in Nat /\ ALIGNMENT \in Nat \ {0} /\ HEAD % ALIGNMENT = 0 /\ MEMORY \in Nat
  BY Units, MemoryNat
<1>6. b % ALIGNMENT = 0
  BY DEF Aligned
<1>7. (b + HEAD) % ALIGNMENT = 0
  BY <1>2, <1>5, <1>6, AddAligned
<1>8. Space(hd, b) = [addr |-> b + HEAD, size |-> s - HEAD - FOOT]
  BY DEF Space
<1> HIDE DEF s
<1>9. b + s <= MEMORY
  BY <1>2, <1>3, <1>4, <1>5
<1>10. /\ b + HEAD \in 0 .. MEMORY /\ s - HEAD - FOOT \in 0 .. MEMORY
       /\ (b + HEAD) + (s - HEAD - FOOT) <= b + s
  BY <1>2, <1>4, <1>5, <1>9
<1> QED BY <1>2, <1>4, <1>7, <1>8, <1>9, <1>10 DEF s

(* The spaces of two blocks are apart. *)
LEMMA SpacesApart ==
  ASSUME NEW E, LimitsOK(E), NEW hd, HeadRow(E, hd), Aligned(hd),
         NEW b \in DOMAIN hd, NEW c \in DOMAIN hd, b # c
  PROVE  Promise!Disjoint(Space(hd, b), Space(hd, c)) /\ Space(hd, b) # Space(hd, c)
<1> DEFINE x == Space(hd, b)
           y == Space(hd, c)
<1>1. /\ b \in Nat /\ x.addr = b + HEAD /\ x.addr + x.size <= EndOf(hd, b)
      /\ x.addr \in Nat /\ x.size \in Nat
      /\ EndOf(hd, b) \in Nat
  BY SpaceFacts, MemoryNat
<1>2. /\ c \in Nat /\ y.addr = c + HEAD /\ y.addr + y.size <= EndOf(hd, c)
      /\ y.addr \in Nat /\ y.size \in Nat
      /\ EndOf(hd, c) \in Nat
  BY SpaceFacts, MemoryNat
<1>3. EndOf(hd, b) <= c \/ EndOf(hd, c) <= b
  BY Order
<1>4. HEAD \in Nat
  BY Units
<1> HIDE DEF x, y
<1>5. x.addr + x.size <= y.addr \/ y.addr + y.size <= x.addr
  BY <1>1, <1>2, <1>3, <1>4
<1>6. x # y
  BY <1>1, <1>2, <1>4
<1> QED BY <1>5, <1>6 DEF Promise!Disjoint, x, y

(***************************************************************************)
(* A call of malloc that returns: one more block is allocated, it is large *)
(* enough, and the others keep their place and size.                       *)
(***************************************************************************)
Takes(p) ==
  /\ p \in DOMAIN head' /\ ~head'[p].free /\ p \notin Kept(head)
  /\ Kept(head') = Kept(head) \cup {p}
  /\ \A b \in Kept(head) : head'[b].size = head[b].size
  /\ head'[p].size >= RealSize(req)

(* Such a step is a Malloc of the promise. *)
LEMMA TakesImplements ==
  ASSUME HInv, HInv', NEW p, Takes(p), pc = "scan", req \in Nat, Return
  PROVE  Promise!Next
<1> DEFINE E2 == Limits(frames')
           x == Space(head', p)
<1>1. LimitsOK(E2) /\ HeadRow(E2, head') /\ Aligned(head')
  BY RowNext DEF RowNow
<1>2. p \in DOMAIN head' /\ \A b \in Kept(head) : b \in DOMAIN head' /\ b # p
  BY DEF Takes, Kept
<1>3. \A b \in Kept(head) : Space(head', b) = Space(head, b)
  BY DEF Takes, Space
<1>4. Live' = {Space(head', b) : b \in Kept(head')}
  BY DEF Live, Kept, Space, Block
<1>5. Live' = Live \cup {x}
  BY <1>3, <1>4, LiveKept DEF Takes
<1> HIDE DEF E2
<1>6. /\ x \in [addr : 0 .. MEMORY, size : 0 .. MEMORY] /\ x.addr % ALIGNMENT = 0
      /\ x.addr + x.size <= EndOf(head', p) /\ EndOf(head', p) <= MEMORY
      /\ x.size = head'[p].size - HEAD - FOOT /\ EndOf(head', p) \in Nat /\ head'[p].size \in Nat
  BY <1>1, <1>2, SpaceFacts
<1>7. \A y \in Live : Promise!Disjoint(x, y) /\ x # y
  BY <1>1, <1>2, <1>3, SpacesApart, LiveKept
<1> HIDE DEF x
<1>8. x.size >= req
  <2>1. /\ RealSize(req) \in Nat /\ RealSize(req) >= req + HEAD + FOOT
        /\ HEAD \in Nat /\ FOOT \in Nat
    BY RealFacts, Units
  <2>2. head'[p].size >= RealSize(req)
    BY DEF Takes
  <2> QED BY <1>6, <2>1, <2>2
<1>9. x.addr + x.size <= MEMORY
  <2>1. x.addr \in Nat /\ x.size \in Nat /\ MEMORY \in Nat
    BY <1>6, MemoryNat
  <2> QED BY <1>6, <2>1
<1>10. x \in Promise!Extent
  BY <1>6 DEF Promise!Extent
<1>11. pc' = "idle"
  BY DEF Return
<1>12. Promise!Malloc(x)
  BY <1>5, <1>6, <1>7, <1>8, <1>9, <1>10, <1>11 DEF Promise!Malloc
<1>13. x \in Live'
  BY <1>5
<1> QED BY <1>12, <1>13 DEF Promise!Next

(* The three ways to serve a request: a part of a free block, *)
LEMMA SplitTakes ==
  ASSUME HInv, malloc_split
  PROVE  Takes(pos)
<1> DEFINE n == RealSize(req)
<1>1. /\ pos \in DOMAIN head /\ head[pos].free /\ n \in Nat \ {0} /\ n < head[pos].size
      /\ Divided(head, head', pos, n)
  BY SplitFacts
<1> HIDE DEF n
<1>2. /\ DOMAIN head' = DOMAIN head \cup {pos + n}
      /\ ~head'[pos].free /\ head'[pos].size = n /\ head'[pos + n].free
      /\ \A b \in DOMAIN head : b # pos => head'[b] = head[b]
      /\ pos + n \notin DOMAIN head
  BY <1>1 DEF Divided
<1>3. Kept(head') = Kept(head) \cup {pos} /\ pos \notin Kept(head)
  BY <1>1, <1>2 DEF Kept
<1>4. \A b \in Kept(head) : head'[b].size = head[b].size
  BY <1>2, <1>3 DEF Kept
<1> QED BY <1>1, <1>2, <1>3, <1>4 DEF Takes, n

(* a whole free block, *)
LEMMA WholeTakes ==
  ASSUME HInv, malloc_whole
  PROVE  Takes(pos)
<1>1. /\ pos \in DOMAIN head /\ head[pos].free /\ head[pos].size >= RealSize(req)
      /\ DOMAIN head' = DOMAIN head
      /\ head'[pos] = [size |-> head[pos].size, free |-> FALSE, heap |-> head[pos].heap]
      /\ \A b \in DOMAIN head : b # pos => head'[b] = head[b]
  BY WholeFacts
<1>2. ~head'[pos].free /\ head'[pos].size = head[pos].size
  BY <1>1
<1>3. Kept(head') = Kept(head) \cup {pos} /\ pos \notin Kept(head)
  BY <1>1, <1>2 DEF Kept
<1>4. \A b \in Kept(head) : head'[b].size = head[b].size
  BY <1>1, <1>3 DEF Kept
<1> QED BY <1>1, <1>2, <1>3, <1>4 DEF Takes

(* and the first block of a new heap. *)
LEMMA NewHeapTakes ==
  ASSUME HInv, malloc_heap
  PROVE  \E p : Takes(p)
<1>1. PICK h, s, hd1 : NewHeap(h, s, hd1)
  BY NewHeapFacts
<1> DEFINE c == heap_start(h)
           n == RealSize(req)
<1>2. /\ s \in Nat /\ s >= n /\ Placed(head, hd1, c, s, h)
      /\ c \notin DOMAIN head /\ DOMAIN hd1 = DOMAIN head \cup {c}
      /\ \A b \in DOMAIN head : hd1[b] = head[b]
      /\ head' = hd1 \/ (n \in Nat \ {0} /\ n < s /\ Divided(hd1, head', c, n))
  BY <1>1 DEF NewHeap
<1>0. req \in Nat
  BY NewHeapFacts
<1>9. n \in Nat
  BY <1>0, RealFacts
<1> HIDE DEF c, n
<1>3. ~hd1[c].free /\ hd1[c].size = s
  BY <1>2 DEF Placed
<1>4. CASE head' = hd1
  <2>1. Kept(head') = Kept(head) \cup {c} /\ c \notin Kept(head)
    BY <1>2, <1>3, <1>4 DEF Kept
  <2>2. \A b \in Kept(head) : head'[b].size = head[b].size
    BY <1>2, <1>4 DEF Kept
  <2>3. Takes(c)
    BY <1>2, <1>3, <1>4, <2>1, <2>2 DEF Takes, n
  <2> QED BY <2>3
<1>5. CASE Divided(hd1, head', c, n)
  <2>1. /\ DOMAIN head' = DOMAIN hd1 \cup {c + n} /\ c + n \notin DOMAIN hd1
        /\ ~head'[c].free /\ head'[c].size = n /\ head'[c + n].free
        /\ \A b \in DOMAIN hd1 : b # c => head'[b] = hd1[b]
    BY <1>5 DEF Divided
  <2>2. \A b \in DOMAIN head : b # c /\ head'[b] = head[b]
    BY <1>2, <2>1
  <2>3. Kept(head') = Kept(head) \cup {c} /\ c \notin Kept(head)
    BY <1>2, <2>1, <2>2 DEF Kept
  <2>4. \A b \in Kept(head) : head'[b].size = head[b].size
    BY <2>2 DEF Kept
  <2>5. n >= n
    BY <1>9
  <2>6. Takes(c)
    BY <1>2, <2>1, <2>3, <2>4, <2>5 DEF Takes, n
  <2> QED BY <2>6
<1> QED BY <1>2, <1>4, <1>5

-----------------------------------------------------------------------------
(* A merge keeps the allocated blocks. *)
LEMMA MergedKept ==
  ASSUME NEW E, LimitsOK(E), NEW hd, HeadRow(E, hd), NEW hd2, NEW a, NEW n, Merged(hd, hd2, a, n)
  PROVE  Kept(hd2) = Kept(hd) /\ \A b \in Kept(hd) : hd2[b] = hd[b]
<1>1. AfterMerge(hd, hd2, a, n) /\ hd[a].free /\ hd[n].free
  BY MergedFacts DEF Merged
<1> QED BY <1>1 DEF AfterMerge, Kept

(* On the way through free only x changes from allocated to free. *)
LEMMA FreedKept ==
  ASSUME HeapsInv, NEW x \in DOMAIN head, ~head[x].free,
         NEW hd0, NEW hd1, NEW hd2, FreePath(x, hd0, hd1, hd2)
  PROVE  Kept(hd2) = Kept(head) \ {x} /\ \A b \in Kept(hd2) : hd2[b] = head[b]
<1> DEFINE E == Limits(frames)
<1>1. LimitsOK(E) /\ HeadRow(E, hd0) /\ HeadRow(E, hd1)
  BY HeapsFacts DEF FreePath
<1> HIDE DEF E
<1>2. Kept(hd0) = Kept(head) \ {x} /\ \A b \in Kept(hd0) : hd0[b] = head[b]
  <2>1. /\ DOMAIN hd0 = DOMAIN head /\ hd0[x].free
        /\ \A b \in DOMAIN head : b # x => hd0[b] = head[b]
    BY DEF FreePath
  <2> QED BY <2>1 DEF Kept
<1>3. Kept(hd1) = Kept(hd0) /\ \A b \in Kept(hd0) : hd1[b] = hd0[b]
  <2>1. hd1 = hd0 \/ Merged(hd0, hd1, x, EndOf(hd0, x))
    BY DEF FreePath
  <2> QED BY <1>1, <2>1, MergedKept
<1>4. Kept(hd2) = Kept(hd1) /\ \A b \in Kept(hd1) : hd2[b] = hd1[b]
  <2>1. hd2 = hd1 \/ \E c \in DOMAIN hd1 : Merged(hd1, hd2, c, x)
    BY DEF FreePath
  <2> QED BY <1>1, <2>1, MergedKept
<1> QED BY <1>2, <1>3, <1>4

(* A heap that is released held no other allocated block. *)
LEMMA LastKept ==
  ASSUME HInv, NEW x \in DOMAIN head, ~head[x].free,
         NEW hd0, NEW hd1, NEW hd2, FreePath(x, hd0, hd1, hd2), OneFree(hd2, head[x].heap),
         NEW b \in Kept(head), head[b].heap = head[x].heap
  PROVE  b = x
<1> DEFINE E == Limits(frames)
           h == head[x].heap
           s == heap_start(h)
<1>1. SUFFICES ASSUME b # x PROVE FALSE
  OBVIOUS
<1>2. HeapsInv /\ LimitsOK(E) /\ HeadRow(E, hd2) /\ h \in Items(heaps) /\ DOMAIN E = Items(heaps) /\ E[h] = heap_end(h)
  BY HInvRow, HeapsFacts DEF FreePath
<1>3. b \in Kept(hd2) /\ hd2[b] = head[b]
  BY <1>1, <1>2, FreedKept
<1>4. b \in DOMAIN hd2 /\ ~hd2[b].free /\ hd2[b].heap = h
  BY <1>3 DEF Kept
<1>5. s \in DOMAIN hd2 /\ hd2[s].free /\ EndOf(hd2, s) = heap_end(h)
  BY <1>2 DEF HeadRow, Started, OneFree
<1> HIDE DEF E, h, s
<1>6. b # s
  BY <1>4, <1>5
<1>7. (EndOf(hd2, s) <= b /\ s < b) \/ (EndOf(hd2, b) <= s /\ b < s)
  BY <1>2, <1>4, <1>5, <1>6, Order
<1>8. heap_start(h) <= b /\ EndOf(hd2, b) <= E[h]
  BY <1>2, <1>4 DEF HeadRow, Inside
<1>9. b \in Nat /\ EndOf(hd2, b) \in Nat /\ b < EndOf(hd2, b) /\ s \in Nat /\ E[h] \in Nat
  BY <1>2, <1>4, <1>5, HeadsNat, LimitsNat DEF HeadRow
<1> QED BY <1>2, <1>5, <1>7, <1>8, <1>9 DEF s

(* free gives back one block, even when it releases a heap. *)
LEMMA FreeKeeps ==
  ASSUME HInv, NEW x \in DOMAIN head, free(x)
  PROVE  /\ x \in Kept(head) /\ pc = "idle" /\ pc' = "idle"
         /\ Kept(head') = Kept(head) \ {x}
         /\ \A b \in Kept(head') : head'[b] = head[b]
<1> DEFINE h == head[x].heap
<1>1. HeapsInv
  BY HInvRow
<1>2. ~head[x].free /\ pc = "idle" /\ pc' = pc
  BY FreeFacts
<1>3. PICK hd0, hd1, hd2, ft2 :
           /\ FreePath(x, hd0, hd1, hd2)
           /\ \/ OneFree(hd2, h) /\ Releases(h)
              \/ ~OneFree(hd2, h) /\ head' = hd2
  BY FreeFacts
<1> HIDE DEF h
<1>4. Kept(hd2) = Kept(head) \ {x} /\ \A b \in Kept(hd2) : hd2[b] = head[b]
  BY <1>1, <1>2, <1>3, FreedKept
<1>5. x \in Kept(head)
  BY <1>2 DEF Kept
<1>6. CASE OneFree(hd2, h) /\ Releases(h)
  <2>1. /\ DOMAIN head' = DOMAIN head \ {b \in DOMAIN head : head[b].heap = h}
        /\ \A b \in DOMAIN head' : head'[b] = head[b]
    BY <1>6 DEF Releases
  <2>2. \A b \in Kept(head) : head[b].heap = h <=> b = x
    BY <1>2, <1>3, <1>6, LastKept DEF h
  <2>3. Kept(head') = Kept(head) \ {x}
    BY <2>1, <2>2, <1>5 DEF Kept
  <2> QED BY <1>2, <1>5, <2>1, <2>3 DEF Kept
<1>7. CASE head' = hd2
  BY <1>2, <1>4, <1>5, <1>7
<1> QED BY <1>3, <1>6, <1>7

(* free is a Free of the promise. *)
LEMMA FreeImplements ==
  ASSUME HInv, NEW x \in DOMAIN head, free(x)
  PROVE  Promise!Next
<1> DEFINE y == Space(head, x)
<1>1. /\ x \in Kept(head) /\ pc = "idle" /\ pc' = "idle"
      /\ Kept(head') = Kept(head) \ {x}
      /\ \A b \in Kept(head') : head'[b] = head[b]
  BY FreeKeeps
<1>2. RowNow
  BY RowOf
<1>3. \A b \in Kept(head) : b # x => Space(head, b) # y
  BY <1>1, <1>2, SpacesApart DEF RowNow, Kept
<1>4. Live' = {Space(head', b) : b \in Kept(head')}
  BY DEF Live, Kept, Space, Block
<1>5. \A b \in Kept(head') : Space(head', b) = Space(head, b)
  BY <1>1 DEF Space
<1>6. y \in Live
  BY <1>1, LiveKept
<1> HIDE DEF y
<1>7. Live' = {Space(head, b) : b \in Kept(head) \ {x}}
  BY <1>1, <1>4, <1>5
<1>8. Live' = Live \ {y}
  BY <1>1, <1>3, <1>7, LiveKept DEF y
<1>9. Promise!Free(y)
  BY <1>1, <1>6, <1>8 DEF Promise!Free
<1> QED BY <1>6, <1>9 DEF Promise!Next

(* Every step of malloc or free is a step of the promise, or shows nothing. *)
LEMMA AllocatorStep ==
  ASSUME HInv, HInv', [Next]_vars
  PROVE  Promise!Next \/ UNCHANGED <<Live, IF pc = "scan" THEN {req} ELSE {}>>
<1>1. ASSUME NEW size \in Sizes, malloc(size) PROVE Promise!Next
  <2>1. pc = "idle" /\ pc' = "scan" /\ req' = size /\ head' = head
    BY <1>1 DEF malloc
  <2>2. Promise!Ask(size)
    BY <2>1 DEF Promise!Ask, Live, Block
  <2> QED BY <2>2 DEF Promise!Next
<1>2. ASSUME NEW x \in DOMAIN head, free(x) PROVE Promise!Next
  BY <1>2, FreeImplements
<1>3. CASE malloc_skip \/ malloc_next_heap \/ UNCHANGED vars
  <2>1. head' = head /\ pc' = pc /\ req' = req
    BY <1>3 DEF malloc_skip, malloc_next_heap, vars
  <2> QED BY <2>1 DEF Live, Block
<1>4. ASSUME pc = "scan" PROVE req \in Nat
  BY <1>4, Units DEF HInv, ScanInv
<1>5. CASE malloc_split
  <2>1. Takes(pos) /\ pc = "scan" /\ Return
    BY <1>5, SplitTakes DEF malloc_split, Visiting
  <2> QED BY <1>4, <2>1, TakesImplements
<1>6. CASE malloc_whole
  <2>1. Takes(pos) /\ pc = "scan" /\ Return
    BY <1>6, WholeTakes DEF malloc_whole, Visiting
  <2> QED BY <1>4, <2>1, TakesImplements
<1>7. CASE malloc_heap
  <2>1. pc = "scan" /\ Return
    BY <1>7 DEF malloc_heap
  <2>2. PICK p : Takes(p)
    BY <1>7, NewHeapTakes
  <2> QED BY <1>4, <2>1, <2>2, TakesImplements
<1>8. CASE malloc_fails
  <2>1. pc = "scan" /\ pc' = "idle" /\ head' = head
    BY <1>8 DEF malloc_fails, Return
  <2>2. Promise!Fail
    BY <2>1 DEF Promise!Fail, Live, Block
  <2> QED BY <2>2 DEF Promise!Next
<1> QED BY <1>1, <1>2, <1>3, <1>5, <1>6, <1>7, <1>8 DEF Next, Scan

(***************************************************************************)
(* Heap implements Allocator: what malloc returns is aligned, in memory,   *)
(* as large as requested and apart from every live allocation, which stays *)
(* where it is until it is freed.                                          *)
(***************************************************************************)
THEOREM AllocatorCorrect == Spec => AllocatorSpec
<1>1. Init => Promise!Init
  BY DEF Init, Promise!Init, Live, Block
<1>2. HInv /\ HInv' /\ [Next]_vars
        => [Promise!Next]_<<Live, IF pc = "scan" THEN {req} ELSE {}>>
  BY AllocatorStep
<1> QED BY <1>1, <1>2, HeapInvariant, PTL DEF Spec, AllocatorSpec, Promise!Spec
=============================================================================
