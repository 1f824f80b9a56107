-------------------------- MODULE GuestHeapProofs --------------------------
(***************************************************************************)
(* Proofs about GuestHeap, for every arena, alignment, split threshold and *)
(* set of requests.  The invariants of GuestHeap are restated over the     *)
(* heap record and with inequalities, which is what the provers handle;    *)
(* HeapInv is the inductive invariant.                                     *)
(***************************************************************************)
EXTENDS GuestHeap, WellFoundedInduction, TLAPS

IsMap(f) ==
  /\ f = [x \in DOMAIN f |-> f[x]]
  /\ \A x \in DOMAIN f : x \in Nat /\ f[x] \in Nat /\ f[x] > 0

IsRecord(h) ==
  /\ DOMAIN h = {"next", "alloc", "free", "bySize", "live"}
  /\ h = [f \in DOMAIN h |-> h[f]]

(* A heap record whose two maps are maps.                                  *)
Shape(h) ==
  /\ IsRecord(h)
  /\ h.next \in Int
  /\ h.live \in Int
  /\ IsMap(h.alloc)
  /\ IsMap(h.free)

(* n bytes at p and m bytes at q do not overlap.                           *)
Apart(p, n, q, m) == p + n <= q \/ q + m <= p

Disjoint(h) ==
  /\ \A p, q \in DOMAIN h.alloc : p # q => Apart(p, h.alloc[p], q, h.alloc[q])
  /\ \A p \in DOMAIN h.alloc, q \in DOMAIN h.free :
        Apart(p, h.alloc[p], q, h.free[q])
  /\ \A p, q \in DOMAIN h.free : p # q => Apart(p, h.free[p], q, h.free[q])

Inside(h) ==
  /\ h.next <= HeapEnd
  /\ h.next >= HEAP_BASE
  /\ \A p \in DOMAIN h.alloc : HEAP_BASE <= p /\ p + h.alloc[p] <= h.next
  /\ \A p \in DOMAIN h.free  : HEAP_BASE <= p /\ p + h.free[p] <= h.next

Covers(f, x) == \E p \in DOMAIN f : p <= x /\ x < p + f[p]

Covered(h) ==
  \A x \in Int : HEAP_BASE <= x /\ x < h.next
                 => Covers(h.alloc, x) \/ Covers(h.free, x)

Merged(h) == \A p, q \in DOMAIN h.free : p + h.free[p] # q

Indexed(h) == h.bySize = {<<h.free[p], p>> : p \in DOMAIN h.free}

Multiple(n) == n % Align = 0

Rounded(h) ==
  /\ Multiple(h.next)
  /\ \A p \in DOMAIN h.alloc : Multiple(p) /\ Multiple(h.alloc[p])
  /\ \A p \in DOMAIN h.free  : Multiple(p) /\ Multiple(h.free[p])

(* The parts that do not mention merging hold between the steps of         *)
(* guest_free too.                                                         *)
HeapInv(h) ==
  /\ Shape(h)
  /\ Disjoint(h)
  /\ Inside(h)
  /\ Covered(h)
  /\ Merged(h)
  /\ Indexed(h)
  /\ Rounded(h)

-----------------------------------------------------------------------------
(* Arithmetic of the alignment.                                            *)

LEMMA Quotient ==
  ASSUME NEW n \in Int, NEW d \in Nat, d > 0
  PROVE  /\ n = (n \div d) * d + (n % d)
         /\ n \div d \in Int
         /\ n % d \in 0 .. d - 1
  BY Z3

LEMMA ProductMod ==
  ASSUME NEW k \in Int, NEW d \in Nat, d > 0
  PROVE  (k * d) % d = 0
  BY Z3

LEMMA MultipleSum ==
  ASSUME NEW a \in Int, NEW b \in Int, Multiple(a), Multiple(b)
  PROVE  Multiple(a + b) /\ Multiple(a - b)
<1> DEFINE j == a \div Align
           k == b \div Align
<1>1. j \in Int /\ k \in Int /\ a = j * Align /\ b = k * Align
  BY Quotient, HeapConstants DEF Multiple
<1>2. a + b = (j + k) * Align /\ a - b = (j - k) * Align
  BY <1>1, HeapConstants
<1>3. j + k \in Int /\ j - k \in Int
  BY <1>1
<1> HIDE DEF j, k
<1> QED
  BY <1>2, <1>3, ProductMod, HeapConstants DEF Multiple

LEMMA SumMultiple ==
  \A a, b \in Int : Multiple(a) /\ Multiple(b) =>
                       Multiple(a + b) /\ Multiple(a - b)
  BY MultipleSum

(* A word plus the rounding slack keeps its value when it does not wrap.   *)
LEMMA SmallMod ==
  ASSUME NEW x \in Nat, NEW w \in Nat, x < w
  PROVE  x % w = x
  OBVIOUS

LEMMA RoundDown ==
  ASSUME NEW s \in Nat
  PROVE  /\ s - (s % Align) \in Nat
         /\ Multiple(s - (s % Align))
         /\ s - (s % Align) <= s
         /\ s - (s % Align) > s - Align
<1> DEFINE j == s \div Align
<1>1. j \in Int /\ s = j * Align + (s % Align) /\ s % Align \in 0 .. Align - 1
  BY Quotient, HeapConstants
<1>2. s - (s % Align) = j * Align
  BY <1>1, HeapConstants
<1>3. s % Align <= s
  BY HeapConstants, Z3
<1> HIDE DEF j
<1> QED
  BY <1>1, <1>2, <1>3, ProductMod, HeapConstants DEF Multiple

(* The size bump_alloc works with: a positive multiple of Align that is at *)
(* least the request and less than Align above it.                         *)
LEMMA AlignedSize ==
  ASSUME NEW size \in Nat, size + Align < W
  PROVE  /\ Aligned(size) \in Nat
         /\ Aligned(size) > 0
         /\ Multiple(Aligned(size))
         /\ Aligned(size) >= size
         /\ Aligned(size) <= size + Align
<1> DEFINE s == size + Align - 1
<1>1. s \in Nat /\ s < W
  BY HeapConstants
<1>2. s % W = s
  BY <1>1, SmallMod, HeapConstants
<1>3. RoundUp(size) = s - (s % Align)
  BY <1>2 DEF RoundUp
<1>4. Multiple(Align)
  BY HeapConstants, Z3 DEF Multiple
<1>5. /\ RoundUp(size) \in Nat
      /\ Multiple(RoundUp(size))
      /\ RoundUp(size) <= s
      /\ RoundUp(size) > s - Align
  BY <1>1, <1>3, RoundDown
<1> QED
  BY <1>4, <1>5, HeapConstants DEF Aligned

-----------------------------------------------------------------------------
(* What the record helpers return, field by field.                         *)

LEMMA InsertFields ==
  ASSUME NEW h, IsRecord(h), NEW a, NEW s
  PROVE  /\ IsRecord(FlInsert(h, a, s))
         /\ FlInsert(h, a, s).next = h.next
         /\ FlInsert(h, a, s).alloc = h.alloc
         /\ FlInsert(h, a, s).free = Put(h.free, a, s)
         /\ FlInsert(h, a, s).bySize = h.bySize \cup {<<s, a>>}
         /\ FlInsert(h, a, s).live = h.live
  BY DEF IsRecord, FlInsert

LEMMA EraseFields ==
  ASSUME NEW h, IsRecord(h), NEW a, NEW s
  PROVE  /\ IsRecord(FlErase(h, a, s))
         /\ FlErase(h, a, s).next = h.next
         /\ FlErase(h, a, s).alloc = h.alloc
         /\ FlErase(h, a, s).free = Drop(h.free, a)
         /\ FlErase(h, a, s).bySize = h.bySize \ {<<s, a>>}
         /\ FlErase(h, a, s).live = h.live
  BY DEF IsRecord, FlErase

LEMMA RecordFields ==
  ASSUME NEW h, IsRecord(h), NEW p, NEW n
  PROVE  /\ IsRecord(Record(h, p, n))
         /\ Record(h, p, n).next = h.next
         /\ Record(h, p, n).alloc = Put(h.alloc, p, n)
         /\ Record(h, p, n).free = h.free
         /\ Record(h, p, n).bySize = h.bySize
         /\ Record(h, p, n).live = h.live + n
  BY DEF IsRecord, Record

LEMMA PutMap ==
  ASSUME NEW f, IsMap(f), NEW a \in Nat, NEW s \in Nat, s > 0
  PROVE  /\ IsMap(Put(f, a, s))
         /\ DOMAIN Put(f, a, s) = DOMAIN f \cup {a}
         /\ Put(f, a, s)[a] = s
         /\ \A x \in DOMAIN f : x # a => Put(f, a, s)[x] = f[x]
  BY DEF IsMap, Put

LEMMA DropMap ==
  ASSUME NEW f, IsMap(f), NEW a
  PROVE  /\ IsMap(Drop(f, a))
         /\ DOMAIN Drop(f, a) = DOMAIN f \ {a}
         /\ \A x \in DOMAIN f : x # a => Drop(f, a)[x] = f[x]
  BY DEF IsMap, Drop

(* Inserting in, and erasing from, both indexes keeps them in agreement.   *)
LEMMA InsertIndexed ==
  ASSUME NEW h, Shape(h), Indexed(h), NEW a \in Nat, NEW s \in Nat, s > 0,
         a \notin DOMAIN h.free
  PROVE  Indexed(FlInsert(h, a, s))
<1> DEFINE F == Put(h.free, a, s)
<1>1. DOMAIN F = DOMAIN h.free \cup {a}
  BY DEF Put
<1>2. F[a] = s /\ \A x \in DOMAIN h.free : F[x] = h.free[x]
  BY DEF Put
<1>3. /\ FlInsert(h, a, s).free = F
      /\ FlInsert(h, a, s).bySize = h.bySize \cup {<<s, a>>}
  BY InsertFields DEF Shape
<1> HIDE DEF F
<1>4. {<<F[p], p>> : p \in DOMAIN F} = h.bySize \cup {<<s, a>>}
  BY <1>1, <1>2 DEF Indexed
<1> QED
  BY <1>3, <1>4 DEF Indexed

LEMMA EraseIndexed ==
  ASSUME NEW h, Shape(h), Indexed(h), NEW a \in DOMAIN h.free
  PROVE  Indexed(FlErase(h, a, h.free[a]))
<1> DEFINE F == Drop(h.free, a)
           s == h.free[a]
<1>1. DOMAIN F = DOMAIN h.free \ {a}
  BY DropMap DEF Shape
<1>2. \A x \in DOMAIN h.free : x # a => F[x] = h.free[x]
  BY DropMap DEF Shape
<1>3. /\ FlErase(h, a, s).free = F
      /\ FlErase(h, a, s).bySize = h.bySize \ {<<s, a>>}
  BY EraseFields DEF Shape
<1> HIDE DEF F
<1>4. {<<F[p], p>> : p \in DOMAIN F} = h.bySize \ {<<s, a>>}
  BY <1>1, <1>2 DEF Indexed
<1> QED
  BY <1>3, <1>4 DEF Indexed

LEMMA EraseShape ==
  ASSUME NEW h, Shape(h), NEW a, NEW s
  PROVE  Shape(FlErase(h, a, s))
<1>1. IsMap(Drop(h.free, a))
  BY DropMap DEF Shape
<1>2. /\ IsRecord(FlErase(h, a, s))
      /\ FlErase(h, a, s).next = h.next
      /\ FlErase(h, a, s).alloc = h.alloc
      /\ FlErase(h, a, s).free = Drop(h.free, a)
      /\ FlErase(h, a, s).live = h.live
  BY EraseFields DEF Shape
<1> QED
  BY <1>1, <1>2, Zenon DEF Shape

LEMMA InsertShape ==
  ASSUME NEW h, Shape(h), NEW a \in Nat, NEW s \in Nat, s > 0
  PROVE  Shape(FlInsert(h, a, s))
<1>1. IsMap(Put(h.free, a, s))
  BY PutMap DEF Shape
<1>2. /\ IsRecord(FlInsert(h, a, s))
      /\ FlInsert(h, a, s).next = h.next
      /\ FlInsert(h, a, s).alloc = h.alloc
      /\ FlInsert(h, a, s).free = Put(h.free, a, s)
      /\ FlInsert(h, a, s).live = h.live
  BY InsertFields DEF Shape
<1> QED
  BY <1>1, <1>2, Zenon DEF Shape

-----------------------------------------------------------------------------
(* The live block p and the free blocks D together are exactly the n bytes *)
(* at lo, and no other free block touches those bytes.                     *)
Tiles(h, p, D, lo, n) ==
  /\ D \subseteq DOMAIN h.free
  /\ lo \in Nat /\ n \in Nat /\ n > 0
  /\ Multiple(lo) /\ Multiple(n)
  /\ lo = p \/ lo \in D
  /\ lo <= p
  /\ p + h.alloc[p] <= lo + n
  /\ \A a \in D : lo <= a /\ a + h.free[a] <= lo + n
  /\ \A x \in Int : lo <= x /\ x < lo + n =>
       \/ p <= x /\ x < p + h.alloc[p]
       \/ \E a \in D : a <= x /\ x < a + h.free[a]
  /\ \A b \in DOMAIN h.free \ D : b + h.free[b] # lo /\ b # lo + n

(* g is h with p and D replaced by one free block of n bytes at lo.        *)
Replaced(h, p, D, lo, n, g) ==
  /\ Shape(g)
  /\ Indexed(g)
  /\ g.next = h.next
  /\ g.alloc = Drop(h.alloc, p)
  /\ DOMAIN g.free = (DOMAIN h.free \ D) \cup {lo}
  /\ g.free[lo] = n
  /\ \A x \in DOMAIN h.free \ D : x # lo => g.free[x] = h.free[x]

(* guest_free: the merged block keeps the invariant.                       *)
LEMMA MergeBlocks ==
  ASSUME NEW h, HeapInv(h), NEW p \in DOMAIN h.alloc, NEW D, NEW lo, NEW n,
         Tiles(h, p, D, lo, n), NEW g, Replaced(h, p, D, lo, n, g)
  PROVE  HeapInv(g)
<1> USE DEF Tiles, Replaced
<1>0. /\ DOMAIN g.alloc = DOMAIN h.alloc \ {p}
      /\ \A x \in DOMAIN g.alloc : g.alloc[x] = h.alloc[x]
  BY DEF Drop
<1>n. /\ \A x \in DOMAIN h.alloc : x \in Nat /\ h.alloc[x] \in Nat /\ h.alloc[x] > 0
      /\ \A x \in DOMAIN h.free : x \in Nat /\ h.free[x] \in Nat /\ h.free[x] > 0
      /\ h.next \in Int
  BY DEF HeapInv, Shape, IsMap
<1>d. \A x \in DOMAIN h.free \ D : x # lo
  BY <1>n DEF HeapInv, Disjoint, Apart
<1>e. \A x \in DOMAIN h.free \ D : g.free[x] = h.free[x]
  BY <1>d
<1>1. \A q \in DOMAIN h.alloc \ {p} : Apart(q, h.alloc[q], lo, n)
  <2> SUFFICES ASSUME NEW q \in DOMAIN h.alloc \ {p},
                      ~Apart(q, h.alloc[q], lo, n)
               PROVE  FALSE
    OBVIOUS
  <2>1. PICK x \in Int : q <= x /\ x < q + h.alloc[q] /\ lo <= x /\ x < lo + n
    <3>1. CASE q <= lo
      BY <3>1, <1>n DEF Apart
    <3>2. CASE q > lo
      BY <3>2, <1>n DEF Apart
    <3> QED
      BY <3>1, <3>2, <1>n
  <2>2. CASE p <= x /\ x < p + h.alloc[p]
    BY <2>1, <2>2, <1>n DEF HeapInv, Disjoint, Apart
  <2>3. CASE \E a \in D : a <= x /\ x < a + h.free[a]
    BY <2>1, <2>3, <1>n DEF HeapInv, Disjoint, Apart
  <2> QED
    BY <2>1, <2>2, <2>3
<1>2. \A q \in DOMAIN h.free \ D : Apart(q, h.free[q], lo, n)
  <2> SUFFICES ASSUME NEW q \in DOMAIN h.free \ D,
                      ~Apart(q, h.free[q], lo, n)
               PROVE  FALSE
    OBVIOUS
  <2>1. PICK x \in Int : q <= x /\ x < q + h.free[q] /\ lo <= x /\ x < lo + n
    <3>1. CASE q <= lo
      BY <3>1, <1>n DEF Apart
    <3>2. CASE q > lo
      BY <3>2, <1>n DEF Apart
    <3> QED
      BY <3>1, <3>2, <1>n
  <2>2. CASE p <= x /\ x < p + h.alloc[p]
    BY <2>1, <2>2, <1>n DEF HeapInv, Disjoint, Apart
  <2>3. CASE \E a \in D : a <= x /\ x < a + h.free[a]
    BY <2>1, <2>3, <1>n DEF HeapInv, Disjoint, Apart
  <2> QED
    BY <2>1, <2>2, <2>3
<1>3. Disjoint(g)
  <2>1. \A q, r \in DOMAIN g.alloc : q # r => Apart(q, g.alloc[q], r, g.alloc[r])
    BY <1>0 DEF HeapInv, Disjoint
  <2>2. \A q \in DOMAIN g.alloc, r \in DOMAIN g.free : Apart(q, g.alloc[q], r, g.free[r])
    BY <1>0, <1>1, <1>e DEF HeapInv, Disjoint
  <2>3. \A q, r \in DOMAIN g.free : q # r => Apart(q, g.free[q], r, g.free[r])
    <3>1. \A q, r \in DOMAIN h.free \ D : q # r => Apart(q, g.free[q], r, g.free[r])
      BY <1>e DEF HeapInv, Disjoint
    <3>2. \A q \in DOMAIN h.free \ D : Apart(q, g.free[q], lo, n) /\ Apart(lo, n, q, g.free[q])
      BY <1>2, <1>e DEF Apart
    <3> QED
      BY <3>1, <3>2
  <2> QED
    BY <2>1, <2>2, <2>3 DEF Disjoint
<1>4. Inside(g)
  <2>1. HEAP_BASE <= lo
    BY <1>n DEF HeapInv, Inside
  <2>2. lo + n <= h.next
    <3>1. lo + n - 1 \in Int /\ lo <= lo + n - 1 /\ lo + n - 1 < lo + n
      OBVIOUS
    <3>2. PICK y \in Int : y = lo + n - 1
      BY <3>1
    <3>3. CASE p <= y /\ y < p + h.alloc[p]
      BY <3>2, <3>3, <1>n DEF HeapInv, Inside
    <3>4. CASE \E a \in D : a <= y /\ y < a + h.free[a]
      BY <3>2, <3>4, <1>n DEF HeapInv, Inside
    <3> QED
      BY <3>1, <3>2, <3>3, <3>4
  <2> QED
    BY <2>1, <2>2, <1>0, <1>e DEF HeapInv, Inside
<1>5. Covered(g)
  <2> SUFFICES ASSUME NEW x \in Int, HEAP_BASE <= x, x < h.next
               PROVE  Covers(g.alloc, x) \/ Covers(g.free, x)
    BY DEF Covered
  <2>1. CASE lo <= x /\ x < lo + n
    BY <2>1 DEF Covers
  <2>2. CASE ~(lo <= x /\ x < lo + n)
    <3>1. Covers(h.alloc, x) \/ Covers(h.free, x)
      BY DEF HeapInv, Covered
    <3>2. CASE Covers(h.alloc, x)
      BY <2>2, <3>2, <1>0, <1>n DEF Covers
    <3>3. CASE Covers(h.free, x)
      BY <2>2, <3>3, <1>e, <1>n DEF Covers
    <3> QED
      BY <3>1, <3>2, <3>3
  <2> QED
    BY <2>1, <2>2
<1>6. Merged(g)
  BY <1>n, <1>e DEF HeapInv, Merged
<1>7. Rounded(g)
  BY <1>0, <1>e DEF HeapInv, Rounded
<1> QED
  BY <1>3, <1>4, <1>5, <1>6, <1>7, Zenon DEF HeapInv

(* The heap between the erase from heap_alloc_ and the merging.            *)
Released(h, p) ==
  [h EXCEPT !.alloc = Drop(h.alloc, p), !.live = h.live - h.alloc[p]]

LEMMA ReleasedFields ==
  ASSUME NEW h, Shape(h), NEW p \in DOMAIN h.alloc
  PROVE  /\ Shape(Released(h, p))
         /\ Released(h, p).next = h.next
         /\ Released(h, p).alloc = Drop(h.alloc, p)
         /\ Released(h, p).free = h.free
         /\ Released(h, p).bySize = h.bySize
<1>1. /\ IsRecord(Released(h, p))
      /\ Released(h, p).next = h.next
      /\ Released(h, p).alloc = Drop(h.alloc, p)
      /\ Released(h, p).free = h.free
      /\ Released(h, p).bySize = h.bySize
      /\ Released(h, p).live = h.live - h.alloc[p]
  BY DEF Shape, IsRecord, Released
<1>2. IsMap(Drop(h.alloc, p))
  BY DropMap DEF Shape
<1>3. h.live - h.alloc[p] \in Int
  BY DEF Shape, IsMap
<1> QED
  BY <1>1, <1>2, <1>3, Zenon DEF Shape

(* What the lookups of guest_free find: the free block that starts where   *)
(* the freed one ends, and the one that ends where it starts.              *)
LEMMA Neighbours ==
  ASSUME NEW free, IsMap(free), NEW p \in Nat, NEW sz \in Nat, sz > 0,
         \A a \in DOMAIN free : Apart(p, sz, a, free[a]),
         \A a, b \in DOMAIN free : a # b => Apart(a, free[a], b, free[b])
  PROVE  /\ {a \in NextFree(free, p) : a = p + sz}
              = {a \in DOMAIN free : a = p + sz}
         /\ {a \in PrevFree(free, p) : a + free[a] = p}
              = {a \in DOMAIN free : a + free[a] = p}
         /\ \A a, b \in DOMAIN free :
              a + free[a] = p /\ b + free[b] = p => a = b
<1>1. \A a \in DOMAIN free : a \in Nat /\ free[a] \in Nat /\ free[a] > 0
  BY DEF IsMap
<1>2. \A b \in DOMAIN free : b >= p => p + sz <= b
  BY <1>1 DEF Apart
<1>3. \A a, b \in DOMAIN free : a + free[a] = p /\ b < p => b <= a
  BY <1>1 DEF Apart
<1>4. {a \in NextFree(free, p) : a = p + sz} = {a \in DOMAIN free : a = p + sz}
  BY <1>1, <1>2 DEF NextFree
<1>5. {a \in PrevFree(free, p) : a + free[a] = p}
        = {a \in DOMAIN free : a + free[a] = p}
  BY <1>1, <1>3 DEF PrevFree
<1>6. \A a, b \in DOMAIN free : a + free[a] = p /\ b + free[b] = p => a = b
  BY <1>1 DEF Apart
<1> QED
  BY <1>4, <1>5, <1>6

(* The four ways guest_free merges.                                        *)
LEMMA CoalesceCases ==
  ASSUME NEW h, NEW p, NEW sz, IsMap(h.free),
         {a \in NextFree(h.free, p) : a = p + sz}
              = {a \in DOMAIN h.free : a = p + sz},
         {a \in PrevFree(h.free, p) : a + h.free[a] = p}
              = {a \in DOMAIN h.free : a + h.free[a] = p},
         \A a, b \in DOMAIN h.free :
              a + h.free[a] = p /\ b + h.free[b] = p => a = b
  PROVE  /\ \A pv \in DOMAIN h.free : pv + h.free[pv] = p =>
              /\ p + sz \in DOMAIN h.free =>
                   Coalesce(h, p, sz)
                   = FlInsert(FlErase(FlErase(h, p + sz, h.free[p + sz]),
                                      pv, h.free[pv]),
                              pv, h.free[pv] + (sz + h.free[p + sz]))
              /\ p + sz \notin DOMAIN h.free =>
                   Coalesce(h, p, sz)
                   = FlInsert(FlErase(h, pv, h.free[pv]), pv, h.free[pv] + sz)
         /\ (\A pv \in DOMAIN h.free : pv + h.free[pv] # p) =>
              /\ p + sz \in DOMAIN h.free =>
                   Coalesce(h, p, sz)
                   = FlInsert(FlErase(h, p + sz, h.free[p + sz]),
                              p, sz + h.free[p + sz])
              /\ p + sz \notin DOMAIN h.free =>
                   Coalesce(h, p, sz) = FlInsert(h, p, sz)
<1> DEFINE fwd == {a \in DOMAIN h.free : a = p + sz}
           bwd == {a \in DOMAIN h.free : a + h.free[a] = p}
           h1 == IF fwd = {} THEN h ELSE FlErase(h, p + sz, h.free[p + sz])
           sz1 == IF fwd = {} THEN sz ELSE sz + h.free[p + sz]
           pv0 == CHOOSE a \in bwd : TRUE
<1>1. Coalesce(h, p, sz)
      = IF bwd = {} THEN FlInsert(h1, p, sz1)
        ELSE FlInsert(FlErase(h1, pv0, h.free[pv0]), pv0, h.free[pv0] + sz1)
  BY DEF Coalesce
<1>2. \A pv \in DOMAIN h.free : pv + h.free[pv] = p => bwd # {} /\ pv0 = pv
  OBVIOUS
<1>3. (\A pv \in DOMAIN h.free : pv + h.free[pv] # p) => bwd = {}
  OBVIOUS
<1>4. p + sz \in DOMAIN h.free =>
        h1 = FlErase(h, p + sz, h.free[p + sz]) /\ sz1 = sz + h.free[p + sz]
  OBVIOUS
<1>5. p + sz \notin DOMAIN h.free => h1 = h /\ sz1 = sz
  OBVIOUS
<1> HIDE DEF bwd, h1, sz1, pv0
<1> QED
  BY <1>1, <1>2, <1>3, <1>4, <1>5


(* Everything later proofs need of one erase and of one insert.            *)
LEMMA EraseStep ==
  ASSUME NEW h, Shape(h), Indexed(h), NEW a \in DOMAIN h.free
  PROVE  LET g == FlErase(h, a, h.free[a])
         IN  /\ Shape(g)
             /\ Indexed(g)
             /\ g.next = h.next
             /\ g.alloc = h.alloc
             /\ DOMAIN g.free = DOMAIN h.free \ {a}
             /\ \A x \in DOMAIN h.free : x # a => g.free[x] = h.free[x]
<1> DEFINE g == FlErase(h, a, h.free[a])
<1>1. Shape(g) /\ Indexed(g)
  BY EraseShape, EraseIndexed
<1>2. g.next = h.next /\ g.alloc = h.alloc /\ g.free = Drop(h.free, a)
  BY EraseFields DEF Shape
<1>3. /\ DOMAIN Drop(h.free, a) = DOMAIN h.free \ {a}
      /\ \A x \in DOMAIN h.free : x # a => Drop(h.free, a)[x] = h.free[x]
  BY DEF Drop
<1> HIDE DEF g
<1> QED
  BY <1>1, <1>2, <1>3 DEF g

LEMMA InsertStep ==
  ASSUME NEW h, Shape(h), Indexed(h), NEW a \in Nat, NEW s \in Nat, s > 0,
         a \notin DOMAIN h.free
  PROVE  LET g == FlInsert(h, a, s)
         IN  /\ Shape(g)
             /\ Indexed(g)
             /\ g.next = h.next
             /\ g.alloc = h.alloc
             /\ DOMAIN g.free = DOMAIN h.free \cup {a}
             /\ g.free[a] = s
             /\ \A x \in DOMAIN h.free : g.free[x] = h.free[x]
<1> DEFINE g == FlInsert(h, a, s)
<1>1. Shape(g) /\ Indexed(g)
  BY InsertShape, InsertIndexed
<1>2. g.next = h.next /\ g.alloc = h.alloc /\ g.free = Put(h.free, a, s)
  BY InsertFields DEF Shape
<1>3. /\ DOMAIN Put(h.free, a, s) = DOMAIN h.free \cup {a}
      /\ Put(h.free, a, s)[a] = s
      /\ \A x \in DOMAIN h.free : Put(h.free, a, s)[x] = h.free[x]
  BY DEF Put
<1> HIDE DEF g
<1> QED
  BY <1>1, <1>2, <1>3 DEF g

(* Giving a held block back keeps the invariant, whichever neighbours it   *)
(* is merged with.                                                         *)
LEMMA FreeHeld ==
  ASSUME NEW h, HeapInv(h), NEW p \in DOMAIN h.alloc
  PROVE  /\ HeapInv(Coalesce(Released(h, p), p, h.alloc[p]))
         /\ Coalesce(Released(h, p), p, h.alloc[p]).alloc = Drop(h.alloc, p)
<1> DEFINE r  == Released(h, p)
           sz == h.alloc[p]
           na == p + sz
           g  == Coalesce(r, p, sz)
<1>1. /\ Shape(r) /\ r.next = h.next /\ r.alloc = Drop(h.alloc, p)
      /\ r.free = h.free /\ r.bySize = h.bySize
  BY ReleasedFields DEF HeapInv
<1>2. /\ p \in Nat /\ sz \in Nat /\ sz > 0 /\ na \in Nat
      /\ \A x \in DOMAIN h.free : x \in Nat /\ h.free[x] \in Nat /\ h.free[x] > 0
      /\ IsMap(h.free)
  BY DEF HeapInv, Shape, IsMap
<1>3. Indexed(r)
  BY <1>1 DEF HeapInv, Indexed
<1>4. /\ \A a \in DOMAIN h.free : Apart(p, sz, a, h.free[a])
      /\ \A a, b \in DOMAIN h.free : a # b => Apart(a, h.free[a], b, h.free[b])
      /\ \A a, b \in DOMAIN h.free : a + h.free[a] # b
  BY DEF HeapInv, Disjoint, Merged
<1>5. /\ Multiple(p) /\ Multiple(sz)
      /\ \A a \in DOMAIN h.free : Multiple(a) /\ Multiple(h.free[a])
  BY DEF HeapInv, Rounded
<1>6. /\ {a \in NextFree(h.free, p) : a = na} = {a \in DOMAIN h.free : a = na}
      /\ {a \in PrevFree(h.free, p) : a + h.free[a] = p}
           = {a \in DOMAIN h.free : a + h.free[a] = p}
      /\ \A a, b \in DOMAIN h.free :
           a + h.free[a] = p /\ b + h.free[b] = p => a = b
  BY <1>2, <1>4, Neighbours
<1> HIDE DEF r, sz
<1>7. /\ \A pv \in DOMAIN h.free : pv + h.free[pv] = p =>
           /\ na \in DOMAIN h.free =>
                g = FlInsert(FlErase(FlErase(r, na, h.free[na]), pv, h.free[pv]),
                             pv, h.free[pv] + (sz + h.free[na]))
           /\ na \notin DOMAIN h.free =>
                g = FlInsert(FlErase(r, pv, h.free[pv]), pv, h.free[pv] + sz)
      /\ (\A pv \in DOMAIN h.free : pv + h.free[pv] # p) =>
           /\ na \in DOMAIN h.free =>
                g = FlInsert(FlErase(r, na, h.free[na]), p, sz + h.free[na])
           /\ na \notin DOMAIN h.free => g = FlInsert(r, p, sz)
  BY <1>1, <1>2, <1>6, CoalesceCases
<1> HIDE DEF g
<1>p. p \notin DOMAIN h.free
  BY <1>2, <1>4 DEF Apart
<1>8. ASSUME na \notin DOMAIN h.free,
            \A pv \in DOMAIN h.free : pv + h.free[pv] # p
     PROVE  HeapInv(g)
  <2>1. g = FlInsert(r, p, sz)
    BY <1>7, <1>8
  <2>2. Replaced(h, p, {}, p, sz, g)
    BY <1>1, <1>2, <1>3, <1>p, <2>1, InsertStep DEF Replaced
  <2>3. Tiles(h, p, {}, p, sz)
    BY <1>2, <1>5, <1>8 DEF Tiles, sz
  <2> QED
    BY <2>2, <2>3, MergeBlocks
<1>9. ASSUME na \in DOMAIN h.free,
            \A pv \in DOMAIN h.free : pv + h.free[pv] # p
     PROVE  HeapInv(g)
  <2> DEFINE e == FlErase(r, na, h.free[na])
             n == sz + h.free[na]
  <2>1. g = FlInsert(e, p, n)
    BY <1>7, <1>9
  <2>2. /\ Shape(e) /\ Indexed(e) /\ e.next = h.next /\ e.alloc = Drop(h.alloc, p)
        /\ DOMAIN e.free = DOMAIN h.free \ {na}
        /\ \A x \in DOMAIN h.free \ {na} : e.free[x] = h.free[x]
    BY <1>1, <1>3, <1>9, EraseStep
  <2>3. n \in Nat /\ n > 0 /\ Multiple(n)
    BY <1>2, <1>5, <1>9, MultipleSum
  <2> HIDE DEF e
  <2>4. Replaced(h, p, {na}, p, n, g)
    BY <1>2, <1>p, <2>1, <2>2, <2>3, InsertStep DEF Replaced
  <2>5. Tiles(h, p, {na}, p, n)
    BY <1>2, <1>4, <1>5, <1>9, <2>3 DEF Tiles, sz
  <2> QED
    BY <2>4, <2>5, MergeBlocks
<1>10. ASSUME na \notin DOMAIN h.free,
             \E pv \in DOMAIN h.free : pv + h.free[pv] = p
      PROVE  HeapInv(g)
  <2> PICK pv \in DOMAIN h.free : pv + h.free[pv] = p
    BY <1>10
  <2> DEFINE e == FlErase(r, pv, h.free[pv])
             n == h.free[pv] + sz
  <2>1. g = FlInsert(e, pv, n)
    BY <1>7, <1>10
  <2>2. /\ Shape(e) /\ Indexed(e) /\ e.next = h.next /\ e.alloc = Drop(h.alloc, p)
        /\ DOMAIN e.free = DOMAIN h.free \ {pv}
        /\ \A x \in DOMAIN h.free \ {pv} : e.free[x] = h.free[x]
    BY <1>1, <1>3, EraseStep
  <2>3. n \in Nat /\ n > 0 /\ Multiple(n)
    <3>1. h.free[pv] \in Int /\ sz \in Int
      BY <1>2
    <3>2. Multiple(n)
      BY <3>1, <1>5, SumMultiple, Zenon
    <3> QED
      BY <3>2, <1>2
  <2> HIDE DEF e
  <2>4. Replaced(h, p, {pv}, pv, n, g)
    BY <1>2, <2>1, <2>2, <2>3, InsertStep DEF Replaced
  <2>5. Tiles(h, p, {pv}, pv, n)
    BY <1>2, <1>4, <1>5, <1>10, <2>3 DEF Tiles, sz
  <2> QED
    BY <2>4, <2>5, MergeBlocks
<1>11. ASSUME na \in DOMAIN h.free,
             \E pv \in DOMAIN h.free : pv + h.free[pv] = p
      PROVE  HeapInv(g)
  <2> PICK pv \in DOMAIN h.free : pv + h.free[pv] = p
    BY <1>11
  <2> DEFINE e == FlErase(r, na, h.free[na])
             d == FlErase(e, pv, h.free[pv])
             n == h.free[pv] + (sz + h.free[na])
  <2>0. pv # na /\ pv < p
    BY <1>2
  <2>1. g = FlInsert(d, pv, n)
    BY <1>7, <1>11
  <2>2. /\ Shape(e) /\ Indexed(e) /\ e.next = h.next /\ e.alloc = Drop(h.alloc, p)
        /\ DOMAIN e.free = DOMAIN h.free \ {na}
        /\ \A x \in DOMAIN h.free \ {na} : e.free[x] = h.free[x]
    BY <1>1, <1>3, <1>11, EraseStep
  <2>3. n \in Nat /\ n > 0 /\ Multiple(n)
    <3>1. /\ h.free[pv] \in Nat /\ sz \in Nat /\ h.free[na] \in Nat
          /\ h.free[pv] > 0
      BY <1>2, <1>11
    <3>i. h.free[pv] \in Int /\ sz \in Int /\ h.free[na] \in Int
      BY <3>1
    <3>2. Multiple(sz + h.free[na])
      BY <3>i, <1>5, <1>11, SumMultiple, Zenon
    <3>3. sz + h.free[na] \in Int
      BY <3>i
    <3>4. Multiple(n)
      BY <3>i, <3>2, <3>3, <1>5, SumMultiple, Zenon
    <3> QED
      BY <3>1, <3>4
  <2> HIDE DEF e
  <2>4. /\ Shape(d) /\ Indexed(d) /\ d.next = h.next /\ d.alloc = Drop(h.alloc, p)
        /\ DOMAIN d.free = DOMAIN h.free \ {na, pv}
        /\ \A x \in DOMAIN h.free \ {na, pv} : d.free[x] = h.free[x]
    <3>1. pv \in DOMAIN e.free /\ e.free[pv] = h.free[pv]
      BY <2>0, <2>2
    <3>2. d = FlErase(e, pv, e.free[pv])
      BY <3>1
    <3> HIDE DEF d
    <3> QED
      BY <2>2, <3>1, <3>2, EraseStep
  <2> HIDE DEF d
  <2>5. Replaced(h, p, {na, pv}, pv, n, g)
    BY <1>2, <2>1, <2>3, <2>4, InsertStep DEF Replaced
  <2>6. Tiles(h, p, {na, pv}, pv, n)
    BY <1>2, <1>4, <1>5, <1>11, <2>0, <2>3 DEF Tiles, sz
  <2> QED
    BY <2>5, <2>6, MergeBlocks
<1>12. HeapInv(g)
  BY <1>8, <1>9, <1>10, <1>11
<1>13. g.alloc = Drop(h.alloc, p)
  <2>1. \A x, a, s : IsRecord(x) => /\ IsRecord(FlErase(x, a, s))
                                    /\ FlErase(x, a, s).alloc = x.alloc
                                    /\ FlInsert(x, a, s).alloc = x.alloc
    BY EraseFields, InsertFields
  <2>2. IsRecord(r)
    BY <1>1 DEF Shape
  <2> QED
    BY <1>1, <1>7, <2>1, <2>2
<1> QED
  BY <1>12, <1>13 DEF g, r, sz

LEMMA FreeKeeps ==
  ASSUME NEW h, HeapInv(h), NEW p
  PROVE  /\ HeapInv(GuestFree(h, p))
         /\ GuestFree(h, p).alloc = Drop(h.alloc, p)
<1>1. CASE p \in DOMAIN h.alloc
  <2>1. p # 0
    BY <1>1, HeapConstants DEF HeapInv, Inside
  <2>2. GuestFree(h, p) = Coalesce(Released(h, p), p, h.alloc[p])
    BY <1>1, <2>1 DEF GuestFree, Released
  <2> QED
    BY <1>1, <2>2, FreeHeld
<1>2. CASE p \notin DOMAIN h.alloc
  <2>1. GuestFree(h, p) = h
    BY <1>2 DEF GuestFree
  <2>2. h.alloc = [x \in DOMAIN h.alloc |-> h.alloc[x]]
    BY DEF HeapInv, Shape, IsMap
  <2>3. Drop(h.alloc, p) = h.alloc
    BY <1>2, <2>2 DEF Drop
  <2> QED
    BY <2>1, <2>3
<1> QED
  BY <1>1, <1>2

-----------------------------------------------------------------------------
(* bump_alloc.                                                             *)

LEMMA RecordStep ==
  ASSUME NEW h, Shape(h), NEW p \in Nat, NEW n \in Nat, n > 0
  PROVE  /\ Shape(Record(h, p, n))
         /\ Record(h, p, n).next = h.next
         /\ Record(h, p, n).alloc = Put(h.alloc, p, n)
         /\ Record(h, p, n).free = h.free
         /\ Record(h, p, n).bySize = h.bySize
<1>1. /\ IsRecord(Record(h, p, n))
      /\ Record(h, p, n).next = h.next
      /\ Record(h, p, n).alloc = Put(h.alloc, p, n)
      /\ Record(h, p, n).free = h.free
      /\ Record(h, p, n).bySize = h.bySize
      /\ Record(h, p, n).live = h.live + n
  BY RecordFields DEF Shape
<1>2. IsMap(Put(h.alloc, p, n))
  BY PutMap DEF Shape
<1>3. h.live + n \in Int
  BY DEF Shape
<1> QED
  BY <1>1, <1>2, <1>3, Zenon DEF Shape

(* g is h with the first m bytes of the free block p handed out and what   *)
(* is left of it, if anything, still free.                                 *)
Carved(h, p, m, g) ==
  /\ Shape(g)
  /\ Indexed(g)
  /\ g.next = h.next
  /\ g.alloc = Put(h.alloc, p, m)
  /\ \A x \in DOMAIN h.free \ {p} : g.free[x] = h.free[x]
  /\ \/ /\ m = h.free[p]
        /\ DOMAIN g.free = DOMAIN h.free \ {p}
     \/ /\ m < h.free[p]
        /\ DOMAIN g.free = (DOMAIN h.free \ {p}) \cup {p + m}
        /\ g.free[p + m] = h.free[p] - m

LEMMA CarveBlock ==
  ASSUME NEW h, HeapInv(h), NEW p \in DOMAIN h.free, NEW m \in Nat, m > 0,
         Multiple(m), NEW g, Carved(h, p, m, g)
  PROVE  HeapInv(g) /\ p \notin DOMAIN h.alloc
<1> USE DEF Carved
<1>n. /\ \A x \in DOMAIN h.alloc : x \in Nat /\ h.alloc[x] \in Nat /\ h.alloc[x] > 0
      /\ \A x \in DOMAIN h.free : x \in Nat /\ h.free[x] \in Nat /\ h.free[x] > 0
      /\ h.next \in Int
  BY DEF HeapInv, Shape, IsMap
<1>a. /\ \A q \in DOMAIN h.alloc : Apart(q, h.alloc[q], p, h.free[p])
      /\ \A q \in DOMAIN h.free \ {p} : Apart(q, h.free[q], p, h.free[p])
  BY DEF HeapInv, Disjoint
<1>p. p \notin DOMAIN h.alloc
  BY <1>a, <1>n DEF Apart
<1>0. /\ DOMAIN g.alloc = DOMAIN h.alloc \cup {p}
      /\ g.alloc[p] = m
      /\ \A x \in DOMAIN h.alloc : g.alloc[x] = h.alloc[x]
  BY <1>p DEF Put
<1>f. \A x \in DOMAIN g.free :
        \/ x \in DOMAIN h.free \ {p} /\ g.free[x] = h.free[x]
        \/ x = p + m /\ m < h.free[p] /\ g.free[x] = h.free[p] - m
  OBVIOUS
<1>1. Disjoint(g)
  <2>1. \A q, r \in DOMAIN g.alloc : q # r => Apart(q, g.alloc[q], r, g.alloc[r])
    <3>1. \A q, r \in DOMAIN h.alloc : q # r => Apart(q, g.alloc[q], r, g.alloc[r])
      BY <1>0 DEF HeapInv, Disjoint
    <3>2. \A q \in DOMAIN h.alloc :
            Apart(q, g.alloc[q], p, m) /\ Apart(p, m, q, g.alloc[q])
      BY <1>a, <1>n, <1>0 DEF Apart
    <3> QED
      BY <3>1, <3>2, <1>0
  <2>2. \A q \in DOMAIN g.alloc, r \in DOMAIN g.free : Apart(q, g.alloc[q], r, g.free[r])
    <3>1. \A q \in DOMAIN h.alloc, r \in DOMAIN h.free \ {p} :
            Apart(q, g.alloc[q], r, g.free[r])
      BY <1>0 DEF HeapInv, Disjoint
    <3>2. m < h.free[p] => \A q \in DOMAIN h.alloc :
            Apart(q, g.alloc[q], p + m, h.free[p] - m)
      BY <1>a, <1>n, <1>0 DEF Apart
    <3>3. \A r \in DOMAIN h.free \ {p} : Apart(p, m, r, g.free[r])
      BY <1>a, <1>n DEF Apart
    <3>4. Apart(p, m, p + m, h.free[p] - m)
      BY <1>n DEF Apart
    <3> QED
      BY <3>1, <3>2, <3>3, <3>4, <1>0, <1>f
  <2>3. \A q, r \in DOMAIN g.free : q # r => Apart(q, g.free[q], r, g.free[r])
    <3>1. \A q, r \in DOMAIN h.free \ {p} : q # r => Apart(q, g.free[q], r, g.free[r])
      BY DEF HeapInv, Disjoint
    <3>2. m < h.free[p] => \A q \in DOMAIN h.free \ {p} :
            /\ Apart(q, g.free[q], p + m, h.free[p] - m)
            /\ Apart(p + m, h.free[p] - m, q, g.free[q])
      BY <1>a, <1>n DEF Apart
    <3> QED
      BY <3>1, <3>2, <1>f
  <2> QED
    BY <2>1, <2>2, <2>3 DEF Disjoint
<1>2. Inside(g)
  <2>1. /\ h.next <= HeapEnd /\ h.next >= HEAP_BASE
        /\ \A q \in DOMAIN h.alloc : HEAP_BASE <= q /\ q + h.alloc[q] <= h.next
        /\ \A q \in DOMAIN h.free  : HEAP_BASE <= q /\ q + h.free[q] <= h.next
    BY DEF HeapInv, Inside
  <2>2. HEAP_BASE <= p /\ p + m <= h.next
    BY <2>1, <1>n
  <2>3. m < h.free[p] =>
          HEAP_BASE <= p + m /\ (p + m) + (h.free[p] - m) <= h.next
    BY <2>1, <1>n, HeapConstants
  <2>4. \A q \in DOMAIN g.alloc : HEAP_BASE <= q /\ q + g.alloc[q] <= h.next
    BY <2>1, <2>2, <1>0
  <2>5. \A q \in DOMAIN g.free : HEAP_BASE <= q /\ q + g.free[q] <= h.next
    BY <2>1, <2>3, <1>f
  <2> QED
    BY <2>1, <2>4, <2>5 DEF Inside
<1>3. Covered(g)
  <2> SUFFICES ASSUME NEW x \in Int, HEAP_BASE <= x, x < h.next
               PROVE  Covers(g.alloc, x) \/ Covers(g.free, x)
    BY DEF Covered
  <2>1. Covers(h.alloc, x) \/ Covers(h.free, x)
    BY DEF HeapInv, Covered
  <2>2. CASE Covers(h.alloc, x)
    BY <2>2, <1>0 DEF Covers
  <2>3. CASE p <= x /\ x < p + h.free[p]
    BY <2>3, <1>0, <1>n DEF Covers
  <2>4. CASE \E q \in DOMAIN h.free \ {p} : q <= x /\ x < q + h.free[q]
    BY <2>4, <1>n DEF Covers
  <2> QED
    BY <2>1, <2>2, <2>3, <2>4 DEF Covers
<1>4. Merged(g)
  <2>1. \A q \in DOMAIN h.free \ {p} : q + h.free[q] # p + m
    BY <1>a, <1>n DEF Apart
  <2>2. \A q, r \in DOMAIN h.free : q + h.free[q] # r
    BY DEF HeapInv, Merged
  <2>3. m < h.free[p] => (p + m) + (h.free[p] - m) = p + h.free[p]
    BY <1>n
  <2>4. m < h.free[p] => (p + m) + (h.free[p] - m) # p + m
    BY <1>n
  <2> QED
    BY <2>1, <2>2, <2>3, <2>4, <1>f DEF Merged
<1>5. Rounded(g)
  <2>1. Multiple(p) /\ Multiple(h.free[p])
    BY DEF HeapInv, Rounded
  <2>i. p \in Int /\ m \in Int /\ h.free[p] \in Int
    BY <1>n
  <2>2. Multiple(p + m)
    BY <2>1, <2>i, SumMultiple, Zenon
  <2>3. Multiple(h.free[p] - m)
    BY <2>1, <2>i, SumMultiple, Zenon
  <2> QED
    BY <2>1, <2>2, <2>3, <1>0, <1>f DEF HeapInv, Rounded
<1> QED
  BY <1>1, <1>2, <1>3, <1>4, <1>5, <1>p, Zenon DEF HeapInv

(* Reusing a free block, split or whole.                                   *)
LEMMA ReuseKeeps ==
  ASSUME NEW h, HeapInv(h), NEW p \in DOMAIN h.free, NEW n \in Nat, n > 0,
         Multiple(n), n <= h.free[p]
  PROVE  LET g == Reuse(h, <<h.free[p], p>>, n)
         IN  /\ HeapInv(g)
             /\ \E m \in Nat : m >= n /\ g.alloc = Put(h.alloc, p, m)
             /\ p \notin DOMAIN h.alloc
<1> DEFINE blk == h.free[p]
           h1  == FlErase(h, p, blk)
           h2  == FlInsert(h1, p + n, blk - n)
           g   == Reuse(h, <<blk, p>>, n)
<1>1. /\ p \in Nat /\ blk \in Nat /\ blk > 0 /\ Multiple(blk)
      /\ \A x \in DOMAIN h.free : x \in Nat /\ h.free[x] \in Nat /\ h.free[x] > 0
      /\ Shape(h) /\ Indexed(h)
  BY DEF HeapInv, Shape, IsMap, Rounded
<1>2. /\ Shape(h1) /\ Indexed(h1) /\ h1.next = h.next /\ h1.alloc = h.alloc
      /\ DOMAIN h1.free = DOMAIN h.free \ {p}
      /\ \A x \in DOMAIN h.free : x # p => h1.free[x] = h.free[x]
  BY <1>1, EraseStep
<1>3. g = IF blk - n >= MinSplit THEN Record(h2, p, n) ELSE Record(h1, p, blk)
  BY DEF Reuse
<1>4. ASSUME blk - n >= MinSplit
      PROVE  Carved(h, p, n, g)
  <2>1. blk - n \in Nat /\ blk - n > 0 /\ p + n \in Nat /\ n < blk
    BY <1>1, <1>4, HeapConstants
  <2>2. p + n \notin DOMAIN h1.free
    <3>1. \A q \in DOMAIN h.free \ {p} : Apart(q, h.free[q], p, blk)
      BY DEF HeapInv, Disjoint
    <3> HIDE DEF h1
    <3> QED
      BY <3>1, <2>1, <1>1, <1>2 DEF Apart
  <2> HIDE DEF h1, blk
  <2>3. /\ Shape(h2) /\ Indexed(h2) /\ h2.next = h1.next /\ h2.alloc = h1.alloc
        /\ DOMAIN h2.free = DOMAIN h1.free \cup {p + n}
        /\ h2.free[p + n] = blk - n
        /\ \A x \in DOMAIN h1.free : h2.free[x] = h1.free[x]
    BY <1>2, <2>1, <2>2, InsertStep
  <2>4. g = Record(h2, p, n)
    BY <1>3, <1>4
  <2> HIDE DEF h2, g
  <2>5. /\ Shape(g) /\ g.next = h2.next /\ g.alloc = Put(h2.alloc, p, n)
        /\ g.free = h2.free /\ g.bySize = h2.bySize
    BY <2>3, <2>4, <1>1, RecordStep
  <2>6. Indexed(g)
    BY <2>3, <2>5 DEF Indexed
  <2>7. /\ g.next = h.next
        /\ g.alloc = Put(h.alloc, p, n)
        /\ \A x \in DOMAIN h.free \ {p} : g.free[x] = h.free[x]
        /\ DOMAIN g.free = (DOMAIN h.free \ {p}) \cup {p + n}
        /\ g.free[p + n] = blk - n
    BY <2>3, <2>5, <1>2
  <2> QED
    BY <2>1, <2>5, <2>6, <2>7 DEF Carved, blk
<1>5. ASSUME ~(blk - n >= MinSplit)
      PROVE  Carved(h, p, blk, g)
  <2>1. g = Record(h1, p, blk)
    BY <1>3, <1>5
  <2> HIDE DEF h1, g, blk
  <2>2. /\ Shape(g) /\ g.next = h1.next /\ g.alloc = Put(h1.alloc, p, blk)
        /\ g.free = h1.free /\ g.bySize = h1.bySize
    BY <1>1, <1>2, <2>1, RecordStep
  <2>3. Indexed(g)
    BY <1>2, <2>2 DEF Indexed
  <2> QED
    BY <1>2, <2>2, <2>3 DEF Carved, blk
<1>6. CASE blk - n >= MinSplit
  <2>1. HeapInv(g) /\ p \notin DOMAIN h.alloc
    BY <1>4, <1>6, CarveBlock
  <2>2. g.alloc = Put(h.alloc, p, n)
    BY <1>4, <1>6 DEF Carved
  <2> QED
    BY <2>1, <2>2
<1>7. CASE ~(blk - n >= MinSplit)
  <2>1. HeapInv(g) /\ p \notin DOMAIN h.alloc
    BY <1>1, <1>5, <1>7, CarveBlock
  <2>2. g.alloc = Put(h.alloc, p, blk)
    BY <1>5, <1>7 DEF Carved
  <2> QED
    BY <2>1, <2>2, <1>1
<1> QED
  BY <1>6, <1>7

(* Moving the frontier.                                                    *)
LEMMA ExtendKeeps ==
  ASSUME NEW h, HeapInv(h), NEW n \in Nat, n > 0, Multiple(n),
         h.next + n <= HeapEnd
  PROVE  LET g == Extend(h, n)
         IN  /\ HeapInv(g)
             /\ g.alloc = Put(h.alloc, h.next, n)
             /\ h.next \notin DOMAIN h.alloc
<1> DEFINE p == h.next
           h1 == [h EXCEPT !.next = p + n]
           g  == Extend(h, n)
<1>n. /\ \A x \in DOMAIN h.alloc : x \in Nat /\ h.alloc[x] \in Nat /\ h.alloc[x] > 0
      /\ \A x \in DOMAIN h.free : x \in Nat /\ h.free[x] \in Nat /\ h.free[x] > 0
      /\ p \in Int
      /\ Shape(h) /\ Indexed(h)
  BY DEF HeapInv, Shape, IsMap
<1>i. /\ p <= HeapEnd /\ p >= HEAP_BASE
      /\ \A q \in DOMAIN h.alloc : HEAP_BASE <= q /\ q + h.alloc[q] <= p
      /\ \A q \in DOMAIN h.free  : HEAP_BASE <= q /\ q + h.free[q] <= p
  BY DEF HeapInv, Inside
<1>1. p \in Nat /\ p + n \in Nat /\ p + n < W
  BY <1>n, <1>i, HeapConstants DEF HeapEnd
<1>2. (p + n) % W = p + n
  BY <1>1, SmallMod, HeapConstants
<1>3. g = Record(h1, p, n)
  BY <1>2 DEF Extend
<1>4. /\ IsRecord(h1) /\ h1.next = p + n /\ h1.alloc = h.alloc
      /\ h1.free = h.free /\ h1.bySize = h.bySize /\ h1.live = h.live
  BY <1>n DEF Shape, IsRecord
<1> HIDE DEF h1
<1>5. Shape(h1)
  <2>1. p + n \in Int
    BY <1>1
  <2> QED
    BY <2>1, <1>4, <1>n, Zenon DEF Shape
<1> HIDE DEF g
<1>6. /\ Shape(g) /\ g.next = p + n /\ g.alloc = Put(h.alloc, p, n)
      /\ g.free = h.free /\ g.bySize = h.bySize
  <2> HIDE DEF p
  <2>1. /\ Shape(g) /\ g.next = h1.next /\ g.alloc = Put(h1.alloc, p, n)
        /\ g.free = h1.free /\ g.bySize = h1.bySize
    BY <1>1, <1>3, <1>5, RecordStep
  <2> QED
    BY <2>1, <1>4
<1> HIDE DEF p
<1>p. p \notin DOMAIN h.alloc /\ p \notin DOMAIN h.free
  BY <1>n, <1>i
<1>0. /\ DOMAIN g.alloc = DOMAIN h.alloc \cup {p}
      /\ g.alloc[p] = n
      /\ \A x \in DOMAIN h.alloc : g.alloc[x] = h.alloc[x]
  BY <1>6, <1>p DEF Put
<1>7. Indexed(g) /\ Merged(g)
  BY <1>6 DEF HeapInv, Indexed, Merged
<1>8. Disjoint(g)
  <2>1. \A q, r \in DOMAIN g.alloc : q # r => Apart(q, g.alloc[q], r, g.alloc[r])
    <3>1. \A q, r \in DOMAIN h.alloc : q # r => Apart(q, g.alloc[q], r, g.alloc[r])
      BY <1>0 DEF HeapInv, Disjoint
    <3>2. \A q \in DOMAIN h.alloc :
            Apart(q, g.alloc[q], p, n) /\ Apart(p, n, q, g.alloc[q])
      BY <1>i, <1>n, <1>0 DEF Apart
    <3> QED
      BY <3>1, <3>2, <1>0
  <2>2. \A q \in DOMAIN g.alloc, r \in DOMAIN g.free : Apart(q, g.alloc[q], r, g.free[r])
    <3>1. \A q \in DOMAIN h.alloc, r \in DOMAIN h.free :
            Apart(q, g.alloc[q], r, g.free[r])
      BY <1>0, <1>6 DEF HeapInv, Disjoint
    <3>2. \A r \in DOMAIN h.free : Apart(p, n, r, g.free[r])
      BY <1>i, <1>6, <1>n DEF Apart
    <3> QED
      BY <3>1, <3>2, <1>0, <1>6
  <2>3. \A q, r \in DOMAIN g.free : q # r => Apart(q, g.free[q], r, g.free[r])
    BY <1>6 DEF HeapInv, Disjoint
  <2> QED
    BY <2>1, <2>2, <2>3 DEF Disjoint
<1>9. Inside(g)
  <2>1. \A q \in DOMAIN g.alloc : HEAP_BASE <= q /\ q + g.alloc[q] <= p + n
    BY <1>0, <1>i, <1>n
  <2>2. \A q \in DOMAIN g.free : HEAP_BASE <= q /\ q + g.free[q] <= p + n
    BY <1>6, <1>i, <1>n
  <2>3. p + n <= HeapEnd /\ p + n >= HEAP_BASE
    BY <1>i, <1>n, HeapConstants DEF p
  <2> QED
    BY <1>6, <2>1, <2>2, <2>3 DEF Inside
<1>10. Covered(g)
  <2> SUFFICES ASSUME NEW x \in Int, HEAP_BASE <= x, x < p + n
               PROVE  Covers(g.alloc, x) \/ Covers(g.free, x)
    BY <1>6 DEF Covered
  <2>1. CASE p <= x
    BY <2>1, <1>0 DEF Covers
  <2>2. CASE x < p
    <3>1. Covers(h.alloc, x) \/ Covers(h.free, x)
      BY <2>2 DEF HeapInv, Covered, p
    <3> QED
      BY <3>1, <1>0, <1>6 DEF Covers
  <2> QED
    BY <2>1, <2>2, <1>n
<1>11. Rounded(g)
  <2>1. Multiple(p)
    BY DEF HeapInv, Rounded, p
  <2>2. p \in Int /\ n \in Int
    BY <1>n
  <2>3. Multiple(p + n)
    BY <2>1, <2>2, SumMultiple, Zenon
  <2> QED
    BY <2>1, <2>3, <1>0, <1>6 DEF HeapInv, Rounded
<1>12. HeapInv(g)
  BY <1>6, <1>7, <1>8, <1>9, <1>10, <1>11, Zenon DEF HeapInv
<1> QED
  BY <1>12, <1>6, <1>p DEF g, p

(* What one call of bump_alloc does when the request cannot wrap.          *)
LEMMA BumpAllocKeeps ==
  ASSUME NEW h, HeapInv(h), NEW size \in Nat,
         size + Align + HEAP_BASE + HEAP_SIZE < W,
         NEW r \in BumpAlloc(h, size)
  PROVE  /\ HeapInv(r.heap)
         /\ \/ r.ptr = 0 /\ r.heap = h
            \/ /\ r.ptr # 0
               /\ r.ptr \notin DOMAIN h.alloc
               /\ \E m \in Nat : /\ m >= size /\ m > 0
                                 /\ r.heap.alloc = Put(h.alloc, r.ptr, m)
<1> DEFINE n == Aligned(size)
<1>1. n \in Nat /\ n > 0 /\ Multiple(n) /\ n >= size /\ n <= size + Align
  BY AlignedSize, HeapConstants
<1>2. /\ h.next \in Int /\ h.next <= HeapEnd /\ h.next >= HEAP_BASE
      /\ \A q \in DOMAIN h.free : HEAP_BASE <= q
      /\ Indexed(h)
  BY DEF HeapInv, Shape, Inside
<1> HIDE DEF n
<1>3. CASE BestFit(h, n) # {}
  <2>1. PICK e \in BestFit(h, n) : r = [heap |-> Reuse(h, e, n), ptr |-> e[2]]
    BY <1>3 DEF BumpAlloc, n
  <2>2. PICK p \in DOMAIN h.free : e = <<h.free[p], p>> /\ h.free[p] >= n
    BY <1>2 DEF BestFit, Indexed
  <2>3. r.heap = Reuse(h, <<h.free[p], p>>, n) /\ r.ptr = p
    BY <2>1, <2>2
  <2>4. n <= h.free[p]
    BY <2>2, <1>1 DEF HeapInv, Shape, IsMap
  <2>5. /\ HeapInv(r.heap)
        /\ \E m \in Nat : m >= n /\ r.heap.alloc = Put(h.alloc, p, m)
        /\ p \notin DOMAIN h.alloc
    BY <2>3, <2>4, <1>1, ReuseKeeps
  <2>6. p # 0
    BY <1>2, HeapConstants
  <2> QED
    BY <2>3, <2>5, <2>6, <1>1
<1>4. CASE BestFit(h, n) = {} /\ (h.next + n) % W > HeapEnd
  <2>1. r = [heap |-> h, ptr |-> 0]
    BY <1>4 DEF BumpAlloc, n
  <2> QED
    BY <2>1
<1>5. CASE BestFit(h, n) = {} /\ ~((h.next + n) % W > HeapEnd)
  <2>1. r = [heap |-> Extend(h, n), ptr |-> h.next]
    BY <1>5 DEF BumpAlloc, n
  <2>2. h.next + n \in Nat /\ h.next + n < W
    BY <1>1, <1>2, HeapConstants DEF HeapEnd
  <2>3. h.next + n <= HeapEnd
    BY <1>5, <2>2, SmallMod, HeapConstants DEF HeapEnd
  <2>4. /\ HeapInv(r.heap)
        /\ r.heap.alloc = Put(h.alloc, h.next, n)
        /\ h.next \notin DOMAIN h.alloc
    BY <2>1, <2>3, <1>1, ExtendKeeps
  <2> QED
    BY <2>1, <2>4, <1>1, <1>2, HeapConstants
<1> QED
  BY <1>3, <1>4, <1>5

-----------------------------------------------------------------------------
(* The inductive invariant of the specification.                           *)
IInv == HeapInv(heap) /\ call.ret \in Nat

LEMMA RequestsFit ==
  ASSUME NoWrap
  PROVE  /\ \A s \in Sizes : s \in Nat /\ s + Align + HEAP_BASE + HEAP_SIZE < W
         /\ \A n \in Counts, k \in Sizes :
              /\ n * k \in Nat
              /\ n * k + Align + HEAP_BASE + HEAP_SIZE < W
              /\ (n * k) % W = n * k
<1>1. \A s \in Sizes : s \in Nat /\ s + Align + HEAP_BASE + HEAP_SIZE < W
  BY HeapConstants DEF NoWrap, Requests
<1>2. ASSUME NEW n \in Counts, NEW k \in Sizes
      PROVE  /\ n * k \in Nat
             /\ n * k + Align + HEAP_BASE + HEAP_SIZE < W
             /\ (n * k) % W = n * k
  <2>1. n \in Nat /\ k \in Nat
    BY HeapConstants
  <2>2. n * k \in Nat
    BY <2>1
  <2>3. n * k + Align + HEAP_BASE + HEAP_SIZE < W
    BY DEF NoWrap, Requests
  <2> DEFINE x == n * k
  <2> HIDE DEF x
  <2>4. x < W
    BY <2>2, <2>3, HeapConstants DEF x
  <2>5. x % W = x
    BY <2>2, <2>4, SmallMod, HeapConstants DEF x
  <2> QED
    BY <2>2, <2>3, <2>5 DEF x
<1> QED
  BY <1>1, <1>2

(* The frontier and every block start where a word can hold them.          *)
LEMMA PtrIsNat ==
  ASSUME NEW h, HeapInv(h), NEW a, NEW p, NEW m \in Nat,
         h.alloc = Put(a, p, m)
  PROVE  p \in Nat
<1>1. p \in DOMAIN h.alloc
  BY DEF Put
<1> QED
  BY <1>1 DEF HeapInv, Shape, IsMap

LEMMA InitInv == Init => IInv
<1> SUFFICES ASSUME Init PROVE IInv
  OBVIOUS
<1>1. /\ heap.next = HEAP_BASE /\ heap.alloc = EmptyMap /\ heap.free = EmptyMap
      /\ heap.bySize = {} /\ heap.live = 0 /\ IsRecord(heap)
  BY DEF Init, IsRecord
<1>2. DOMAIN EmptyMap = {} /\ IsMap(EmptyMap)
  BY DEF EmptyMap, IsMap
<1>3. call.ret \in Nat
  BY DEF Init
<1>4. Shape(heap)
  <2>1. heap.next \in Int /\ heap.live \in Int
    BY <1>1, HeapConstants
  <2> QED
    BY <2>1, <1>1, <1>2, Zenon DEF Shape
<1>5. Disjoint(heap) /\ Merged(heap) /\ Indexed(heap)
  BY <1>1, <1>2 DEF Disjoint, Merged, Indexed
<1>6. Inside(heap) /\ Covered(heap)
  BY <1>1, <1>2, HeapConstants DEF Inside, Covered, HeapEnd
<1>7. Rounded(heap)
  BY <1>1, <1>2, HeapConstants DEF Rounded, Multiple
<1> QED
  BY <1>3, <1>4, <1>5, <1>6, <1>7, Zenon DEF IInv, HeapInv

LEMMA StepInv == ASSUME NoWrap PROVE IInv /\ [Next]_vars => IInv'
<1> SUFFICES ASSUME IInv, [Next]_vars PROVE IInv'
  OBVIOUS
<1>0. HeapInv(heap)
  BY DEF IInv
<1>g. \A size \in Nat : size + Align + HEAP_BASE + HEAP_SIZE < W =>
        \A r \in BumpAlloc(heap, size) : HeapInv(r.heap) /\ r.ptr \in Nat
  <2> SUFFICES ASSUME NEW size \in Nat,
                      size + Align + HEAP_BASE + HEAP_SIZE < W,
                      NEW r \in BumpAlloc(heap, size)
               PROVE  HeapInv(r.heap) /\ r.ptr \in Nat
    OBVIOUS
  <2>1. /\ HeapInv(r.heap)
        /\ \/ r.ptr = 0
           \/ \E m \in Nat : r.heap.alloc = Put(heap.alloc, r.ptr, m)
    BY <1>0, BumpAllocKeeps
  <2> QED
    BY <2>1, PtrIsNat
<1>1. ASSUME NEW s \in Sizes, Malloc(s) \/ ReallocNull(s)
      PROVE  IInv'
  BY <1>1, <1>g, RequestsFit DEF Malloc, ReallocNull, Returned, IInv
<1>2. ASSUME NEW n \in Counts, NEW k \in Sizes, Calloc(n, k)
      PROVE  IInv'
  BY <1>2, <1>g, RequestsFit DEF Calloc, Returned, IInv
<1>3. ASSUME NEW p, Free(p) \/ ReallocZero(p)
      PROVE  IInv'
  BY <1>3, <1>0, FreeKeeps DEF Free, ReallocZero, Returned, IInv
<1>4. ASSUME NEW p, NEW s \in Sizes, ReallocMove(p, s)
      PROVE  IInv'
  <2>1. PICK r \in BumpAlloc(heap, s) :
          /\ heap' = IF r.ptr = 0 THEN r.heap ELSE GuestFree(r.heap, p)
          /\ Returned("realloc", s, r.ptr)
    BY <1>4 DEF ReallocMove
  <2>2. HeapInv(r.heap) /\ r.ptr \in Nat
    BY <1>g, RequestsFit
  <2>3. HeapInv(GuestFree(r.heap, p))
    BY <2>2, FreeKeeps
  <2> QED
    BY <2>1, <2>2, <2>3 DEF Returned, IInv
<1>5. CASE UNCHANGED vars
  BY <1>5 DEF IInv, vars
<1> QED
  BY <1>1, <1>2, <1>3, <1>4, <1>5 DEF Next

(* The inductive invariant holds in every reachable state.                 *)
LEMMA AlwaysIInv == ASSUME NoWrap PROVE Spec => []IInv
<1>1. Init => IInv
  BY InitInv
<1>2. IInv /\ [Next]_vars => IInv'
  BY StepInv
<1> QED
  BY <1>1, <1>2, PTL DEF Spec

LEMMA InvParts ==
  ASSUME IInv
  PROVE  /\ TypeOK /\ NoOverlap /\ NothingLost
         /\ FullyCoalesced /\ IndexesAgree /\ FreeListOK
<1>n. /\ \A x \in DOMAIN heap.alloc :
           x \in Nat /\ heap.alloc[x] \in Nat /\ heap.alloc[x] > 0
      /\ \A x \in DOMAIN heap.free :
           x \in Nat /\ heap.free[x] \in Nat /\ heap.free[x] > 0
      /\ heap.next \in Int /\ heap.live \in Int
  BY DEF IInv, HeapInv, Shape, IsMap
<1>1. IndexesAgree
  BY DEF IInv, HeapInv, Indexed, IndexesAgree
<1>2. FullyCoalesced
  BY DEF IInv, HeapInv, Merged, FullyCoalesced
<1>4. NoOverlap
  BY <1>n DEF IInv, HeapInv, Disjoint, Apart, NoOverlap, Span
<1>5. TypeOK
  <2>1. heap.next \in HEAP_BASE .. HeapEnd
    BY <1>n, HeapConstants DEF IInv, HeapInv, Inside, HeapEnd
  <2>2. heap.bySize \subseteq (Nat \X Nat)
    BY <1>1, <1>n DEF IndexesAgree
  <2> QED
    BY <1>n, <2>1, <2>2 DEF IInv, TypeOK
<1>6. NothingLost
  <2>1. ASSUME NEW x \in Used
        PROVE  x \in Bytes(heap.alloc) \cup Bytes(heap.free)
    <3>1. x \in Int /\ HEAP_BASE <= x /\ x < heap.next
      BY <1>n, HeapConstants DEF Used
    <3>2. CASE Covers(heap.alloc, x)
      <4>1. PICK p \in DOMAIN heap.alloc : x \in Span(p, heap.alloc[p])
        BY <3>1, <3>2, <1>n DEF Covers, Span
      <4> QED
        BY <4>1 DEF Bytes
    <3>3. CASE Covers(heap.free, x)
      <4>1. PICK p \in DOMAIN heap.free : x \in Span(p, heap.free[p])
        BY <3>1, <3>3, <1>n DEF Covers, Span
      <4> QED
        BY <4>1 DEF Bytes
    <3> QED
      BY <3>1, <3>2, <3>3 DEF IInv, HeapInv, Covered
  <2>2. \A p \in DOMAIN heap.alloc : Span(p, heap.alloc[p]) \subseteq Used
    BY <1>n, HeapConstants DEF IInv, HeapInv, Inside, Span, Used
  <2>3. \A p \in DOMAIN heap.free : Span(p, heap.free[p]) \subseteq Used
    BY <1>n, HeapConstants DEF IInv, HeapInv, Inside, Span, Used
  <2>4. Bytes(heap.alloc) \subseteq Used
    BY <2>2 DEF Bytes
  <2>5. Bytes(heap.free) \subseteq Used
    BY <2>3 DEF Bytes
  <2>6. Used = Bytes(heap.alloc) \cup Bytes(heap.free)
    <3>1. Used \subseteq Bytes(heap.alloc) \cup Bytes(heap.free)
      BY <2>1
    <3> QED
      BY <3>1, <2>4, <2>5
  <2> QED
    BY <2>6 DEF NothingLost
<1> QED
  BY <1>1, <1>2, <1>4, <1>5, <1>6 DEF FreeListOK

-----------------------------------------------------------------------------
(* The allocator's fields keep the types their declarations give them, as  *)
(* long as no request is large enough to wrap an address (traps.cpp,       *)
(* bump_alloc and guest_free).                                             *)
THEOREM TypeCorrect == ASSUME NoWrap PROVE Spec => []TypeOK
  BY AlwaysIInv, InvParts, PTL

(* No byte ever belongs to two blocks, live or free: what the allocator's  *)
(* self test samples, for every sequence of calls.                         *)
THEOREM BlocksNeverOverlap == ASSUME NoWrap PROVE Spec => []NoOverlap
  BY AlwaysIInv, InvParts, PTL

(* Every byte below the frontier is live or free: splitting, merging and   *)
(* moving blocks never loses memory.                                       *)
THEOREM NoByteLost == ASSUME NoWrap PROVE Spec => []NothingLost
  BY AlwaysIInv, InvParts, PTL

(* guest_free never leaves two free blocks side by side unmerged, and      *)
(* fl_insert and fl_erase keep the two indexes of the free list equal.     *)
THEOREM FreeListSound ==
  ASSUME NoWrap PROVE Spec => []FreeListOK
  BY AlwaysIInv, InvParts, PTL

-----------------------------------------------------------------------------
(* The allocator implements the contract.                                  *)

LEMMA FitsContract ==
  ASSUME HeapInv(heap), NEW g, HeapInv(g), NEW p, p \notin DOMAIN heap.alloc,
         NEW m \in Nat, m > 0, NEW s \in Nat, m >= s,
         g.alloc = Put(heap.alloc, p, m)
  PROVE  /\ p \in Contract!Arena
         /\ m \in 1 .. HEAP_SIZE
         /\ Contract!Fits(p, m, s)
<1>1. /\ DOMAIN g.alloc = DOMAIN heap.alloc \cup {p}
      /\ g.alloc[p] = m
      /\ \A q \in DOMAIN heap.alloc : g.alloc[q] = heap.alloc[q]
  BY DEF Put
<1>2. /\ p \in Nat
      /\ \A q \in DOMAIN heap.alloc : q \in Nat /\ heap.alloc[q] \in Nat
      /\ g.next \in Int
  BY <1>1 DEF HeapInv, Shape, IsMap
<1>3. HEAP_BASE <= p /\ p + m <= HEAP_BASE + HEAP_SIZE
  <2>1. HEAP_BASE <= p /\ p + m <= g.next /\ g.next <= HEAP_BASE + HEAP_SIZE
    BY <1>1 DEF HeapInv, Inside, HeapEnd
  <2> QED
    BY <2>1, <1>2, HeapConstants
<1>4. p % Align = 0
  BY <1>1 DEF HeapInv, Rounded, Multiple
<1>5. \A q \in DOMAIN heap.alloc : Apart(p, m, q, heap.alloc[q])
  BY <1>1 DEF HeapInv, Disjoint
<1>6. \A q \in DOMAIN heap.alloc :
        Contract!Span(p, m) \cap Contract!Span(q, heap.alloc[q]) = {}
  BY <1>2, <1>5 DEF Apart, Contract!Span
<1>7. Contract!Span(p, m) \subseteq Contract!Arena
  BY <1>2, <1>3, HeapConstants DEF Contract!Span, Contract!Arena
<1>8. p \in Contract!Arena /\ m \in 1 .. HEAP_SIZE
  BY <1>2, <1>3, HeapConstants DEF Contract!Arena
<1> QED
  BY <1>4, <1>6, <1>7, <1>8 DEF Contract!Fits

(* An outcome of bump_alloc is what the contract lets a call return.       *)
LEMMA AllocGives ==
  ASSUME HeapInv(heap), NEW s \in Nat, s + Align + HEAP_BASE + HEAP_SIZE < W,
         NEW r \in BumpAlloc(heap, s)
  PROVE  \/ r.ptr = 0 /\ r.heap = heap
         \/ /\ r.ptr \in Contract!Arena
            /\ r.ptr # 0
            /\ r.ptr \notin DOMAIN heap.alloc
            /\ \E n \in 1 .. HEAP_SIZE :
                 /\ r.heap.alloc = Put(heap.alloc, r.ptr, n)
                 /\ Contract!Fits(r.ptr, n, s)
<1>1. /\ HeapInv(r.heap)
      /\ \/ r.ptr = 0 /\ r.heap = heap
         \/ /\ r.ptr # 0
            /\ r.ptr \notin DOMAIN heap.alloc
            /\ \E m \in Nat : /\ m >= s /\ m > 0
                              /\ r.heap.alloc = Put(heap.alloc, r.ptr, m)
  BY BumpAllocKeeps
<1> QED
  BY <1>1, FitsContract

LEMMA StepContract ==
  ASSUME NoWrap, NoStaleRealloc, IInv, [Next]_vars
  PROVE  [Contract!ContractNext]_(Contract!contractVars)
<1>0. HeapInv(heap) /\ 0 \notin DOMAIN heap.alloc
  BY HeapConstants DEF IInv, HeapInv, Inside
<1>1. ASSUME NEW op \in {"malloc", "calloc", "realloc"}, NEW s \in Requests,
             s \in Nat, s + Align + HEAP_BASE + HEAP_SIZE < W,
             NEW r \in BumpAlloc(heap, s), heap' = r.heap,
             Returned(op, s, r.ptr)
      PROVE  Contract!Give(op, s)
  <2>1. CASE r.ptr = 0 /\ r.heap = heap
    BY <1>1, <2>1 DEF Contract!Give, Returned
  <2>2. CASE /\ r.ptr \in Contract!Arena
             /\ \E n \in 1 .. HEAP_SIZE :
                  /\ r.heap.alloc = Put(heap.alloc, r.ptr, n)
                  /\ Contract!Fits(r.ptr, n, s)
    BY <1>1, <2>2 DEF Contract!Give, Returned, Put
  <2> QED
    BY <2>1, <2>2, <1>0, <1>1, AllocGives
<1>2. ASSUME NEW s \in Sizes, Malloc(s) \/ ReallocNull(s)
      PROVE  Contract!ContractNext
  <2>1. s \in Requests /\ s \in Nat /\ s + Align + HEAP_BASE + HEAP_SIZE < W
    BY RequestsFit DEF Requests
  <2>2. Contract!Give("malloc", s) \/ Contract!Give("realloc", s)
    BY <1>1, <1>2, <2>1 DEF Malloc, ReallocNull
  <2> QED
    BY <2>1, <2>2 DEF Contract!ContractNext
<1>3. ASSUME NEW n \in Counts, NEW k \in Sizes, Calloc(n, k)
      PROVE  Contract!ContractNext
  <2> DEFINE s == n * k
  <2>1. /\ s \in Requests /\ s \in Nat
        /\ s + Align + HEAP_BASE + HEAP_SIZE < W
        /\ s % W = s
    BY RequestsFit DEF Requests
  <2>2. \E r \in BumpAlloc(heap, s) :
          heap' = r.heap /\ Returned("calloc", s, r.ptr)
    BY <1>3, <2>1 DEF Calloc
  <2> HIDE DEF s
  <2>3. Contract!Give("calloc", s)
    BY <1>1, <2>1, <2>2
  <2> QED
    BY <2>1, <2>3 DEF Contract!ContractNext
<1>4. ASSUME NEW p, NEW op \in {"free", "realloc"},
             heap' = GuestFree(heap, p), Returned(op, 0, 0)
      PROVE  Contract!ContractNext
  <2>1. heap'.alloc = Drop(heap.alloc, p)
    BY <1>0, <1>4, FreeKeeps
  <2>2. CASE p \in DOMAIN heap.alloc
    <3>1. Contract!TakeBack(op, p) /\ p \in Contract!Held
      BY <1>4, <2>1, <2>2
      DEF Contract!TakeBack, Contract!Held, Returned, Drop
    <3> QED
      BY <3>1 DEF Contract!ContractNext
  <2>3. CASE p \notin DOMAIN heap.alloc
    <3>1. DOMAIN heap.alloc \ {p} = DOMAIN heap.alloc \ {0}
      BY <1>0, <2>3
    <3>2. Contract!TakeBack(op, 0) /\ 0 \in Contract!Held
      BY <1>4, <2>1, <3>1
      DEF Contract!TakeBack, Contract!Held, Returned, Drop
    <3> QED
      BY <3>2 DEF Contract!ContractNext
  <2> QED
    BY <2>2, <2>3
<1>5. ASSUME NEW p \in DOMAIN heap.alloc \cup Foreign, NEW s \in Sizes,
             ReallocMove(p, s)
      PROVE  Contract!ContractNext
  <2>1. s \in Requests /\ s \in Nat /\ s + Align + HEAP_BASE + HEAP_SIZE < W
    BY RequestsFit DEF Requests
  <2>2. PICK r \in BumpAlloc(heap, s) :
          /\ heap' = IF r.ptr = 0 THEN r.heap ELSE GuestFree(r.heap, p)
          /\ Returned("realloc", s, r.ptr)
    BY <1>5 DEF ReallocMove
  <2>3. HeapInv(r.heap)
    BY <1>0, <2>1, BumpAllocKeeps
  <2> DEFINE old == IF p \in DOMAIN heap.alloc THEN p ELSE 0
  <2>4. old \in Contract!Held
    BY DEF Contract!Held
  <2>5. CASE r.ptr = 0 /\ r.heap = heap
    <3>1. Contract!Move(old, s)
      BY <2>2, <2>5 DEF Contract!Move, Returned
    <3> QED
      BY <2>1, <2>4, <3>1 DEF Contract!ContractNext
  <2>6. ASSUME r.ptr \in Contract!Arena, r.ptr # 0,
               NEW n \in 1 .. HEAP_SIZE,
               r.heap.alloc = Put(heap.alloc, r.ptr, n),
               Contract!Fits(r.ptr, n, s)
        PROVE  Contract!ContractNext
    <3>1. heap'.alloc = Drop(Put(heap.alloc, r.ptr, n), p)
      BY <2>2, <2>3, <2>6, FreeKeeps
    <3>2. p \in DOMAIN heap.alloc \/ p \notin DOMAIN heap.alloc \cup {r.ptr}
      <4>1. r.ptr \in HEAP_BASE .. HeapEnd - 1
        <5>1. r.ptr \in Contract!Arena
          BY <2>6
        <5> QED
          BY <5>1, HeapConstants DEF Contract!Arena, HeapEnd
      <4>2. p \in Foreign => p # r.ptr
        BY <4>1 DEF NoStaleRealloc
      <4> QED
        BY <4>2, <1>5
    <3>3. (DOMAIN heap.alloc \cup {r.ptr}) \ {p}
          = (DOMAIN heap.alloc \cup {r.ptr}) \ {old}
      BY <1>0, <2>6, <3>2
    <3> HIDE DEF old
    <3>4. heap'.alloc = [q \in (DOMAIN heap.alloc \cup {r.ptr}) \ {old} |->
                           IF q = r.ptr THEN n ELSE heap.alloc[q]]
      BY <3>1, <3>3 DEF Drop, Put
    <3>5. Contract!Move(old, s)
      BY <2>2, <2>6, <3>4 DEF Contract!Move, Returned
    <3> QED
      BY <2>1, <2>4, <3>5 DEF Contract!ContractNext
  <2> QED
    BY <1>0, <2>1, <2>5, <2>6, AllocGives
<1>6. CASE UNCHANGED vars
  BY <1>6 DEF vars, Contract!contractVars
<1> QED
  BY <1>2, <1>3, <1>4, <1>5, <1>6 DEF Next, Free, ReallocZero

(* Every call of the guest's allocator does what the contract promises: a  *)
(* block of at least the bytes asked for, aligned, in the arena and        *)
(* disjoint from every block still held, or null and nothing changed; and  *)
(* a pointer that is not held is ignored.  It needs that no request wraps  *)
(* a word and that realloc is not handed a stale arena address.            *)
THEOREM ImplementsContract ==
  ASSUME NoWrap, NoStaleRealloc PROVE Spec => KeepsContract
<1>1. Init => Contract!ContractInit
  BY DEF Init, EmptyMap, Contract!ContractInit
<1>2. IInv /\ [Next]_vars => [Contract!ContractNext]_(Contract!contractVars)
  BY StepContract
<1> QED
  BY <1>1, <1>2, AlwaysIInv, PTL DEF Spec, KeepsContract, Contract!ContractSpec

-----------------------------------------------------------------------------
(* Fresh memory only as a last resort.                                     *)

LEMMA Smallest ==
  ASSUME NEW T, T \subseteq Nat, T # {}
  PROVE  \E x \in T : \A y \in T : x <= y
<1> DEFINE R == OpToRel(<, Nat)
<1>1. IsWellFoundedOn(R, Nat)
  BY NatLessThanWellFounded
<1>2. ASSUME NEW x \in Nat, NEW y \in Nat, <<y, x>> \notin R
      PROVE  x <= y
  <2>1. ~(y < x)
    BY <1>2 DEF OpToRel
  <2> QED
    BY <2>1
<1> HIDE DEF R
<1>3. \E x \in T : \A y \in T : <<y, x>> \notin R
  BY <1>1, WFMin
<1> QED
  BY <1>2, <1>3

(* The best fit finds a block whenever a free one is large enough.         *)
LEMMA FitFound ==
  ASSUME NEW h, HeapInv(h), NEW n \in Nat, BestFit(h, n) = {}
  PROVE  \A p \in DOMAIN h.free : h.free[p] < n
<1> SUFFICES ASSUME NEW p \in DOMAIN h.free, h.free[p] >= n PROVE FALSE
  BY DEF HeapInv, Shape, IsMap
<1> DEFINE T == {x \in Nat : x >= n /\ \E q \in DOMAIN h.free : h.free[q] = x}
<1>1. \A q \in DOMAIN h.free : h.free[q] \in Nat
  BY DEF HeapInv, Shape, IsMap
<1>2. T \subseteq Nat /\ h.free[p] \in T
  BY <1>1
<1>3. PICK x \in T : \A y \in T : x <= y
  BY <1>2, Smallest
<1>4. PICK q \in DOMAIN h.free : h.free[q] = x /\ x >= n
  BY <1>3
<1>5. \A r \in DOMAIN h.free : h.free[r] >= n => x <= h.free[r]
  BY <1>1, <1>3
<1>6. <<h.free[q], q>> \in h.bySize
  BY DEF HeapInv, Indexed
<1>7. \A f \in h.bySize : f[1] >= n => x <= f[1]
  BY <1>5 DEF HeapInv, Indexed
<1>8. <<h.free[q], q>> \in BestFit(h, n)
  BY <1>4, <1>6, <1>7 DEF BestFit
<1> QED
  BY <1>8

(* Unclaimed bytes that lie side by side lie in one free block, because    *)
(* neighbours are merged.                                                  *)
LEMMA RunIsOneBlock ==
  ASSUME HeapInv(heap), NEW n \in Nat, n > 0, NEW p \in Used, Unclaimed(p, n)
  PROVE  \E a \in DOMAIN heap.free : heap.free[a] >= n
<1> SUFFICES ASSUME \A a \in DOMAIN heap.free : ~(heap.free[a] >= n) PROVE FALSE
  OBVIOUS
<1>1. /\ p \in Int /\ HEAP_BASE <= p /\ p < heap.next
      /\ HEAP_BASE \in Int /\ heap.next \in Int
  BY HeapConstants DEF Used, HeapInv, Shape
<1>2. /\ \A a \in DOMAIN heap.free :
           a \in Nat /\ heap.free[a] \in Nat /\ heap.free[a] > 0
      /\ \A a \in DOMAIN heap.alloc :
           a \in Nat /\ heap.alloc[a] \in Nat /\ heap.alloc[a] > 0
  BY DEF HeapInv, Shape, IsMap
<1>3. ASSUME NEW x \in Int, p <= x, x < p + n
      PROVE  x < heap.next /\ Covers(heap.free, x)
  <2>1. x \in Span(p, n)
    BY <1>1, <1>3 DEF Span
  <2>2. HEAP_BASE <= x /\ x < heap.next
    BY <1>1, <2>1 DEF Unclaimed, Used
  <2>3. ~ Covers(heap.alloc, x)
    <3> SUFFICES ASSUME NEW q \in DOMAIN heap.alloc,
                        q <= x, x < q + heap.alloc[q]
                 PROVE  FALSE
      BY DEF Covers
    <3>1. x \in Span(q, heap.alloc[q])
      BY <1>2 DEF Span
    <3> QED
      BY <2>1, <3>1 DEF Unclaimed
  <2> QED
    BY <2>2, <2>3 DEF HeapInv, Covered
<1>4. PICK a \in DOMAIN heap.free : a <= p /\ p < a + heap.free[a]
  BY <1>1, <1>3 DEF Covers
<1> DEFINE x == a + heap.free[a]
<1>5. x \in Int /\ p <= x /\ x < p + n
  BY <1>1, <1>2, <1>4
<1>6. PICK b \in DOMAIN heap.free : b <= x /\ x < b + heap.free[b]
  BY <1>3, <1>5 DEF Covers
<1>7. a # b
  BY <1>2, <1>6
<1>8. a + heap.free[a] <= b \/ b + heap.free[b] <= a
  BY <1>7 DEF HeapInv, Disjoint, Apart
<1>9. b = a + heap.free[a]
  BY <1>2, <1>6, <1>8
<1> QED
  BY <1>9 DEF HeapInv, Merged

(* An allocation that moves the frontier or fails has found no best fit.   *)
LEMMA FreshIsLastResort ==
  ASSUME HeapInv(heap), NEW size \in Nat, size + Align < W,
         NEW r \in BumpAlloc(heap, size),
         r.heap.next # heap.next \/ r.ptr = 0
  PROVE  \A p \in Used : ~Unclaimed(p, Aligned(size))
<1> DEFINE n == Aligned(size)
<1>1. n \in Nat /\ n > 0
  BY AlignedSize
<1> HIDE DEF n
<1>2. BestFit(heap, n) = {}
  <2> SUFFICES ASSUME BestFit(heap, n) # {} PROVE FALSE
    OBVIOUS
  <2>1. PICK e \in BestFit(heap, n) : r = [heap |-> Reuse(heap, e, n), ptr |-> e[2]]
    BY DEF BumpAlloc, n
  <2>2. PICK p \in DOMAIN heap.free : e = <<heap.free[p], p>>
    BY DEF BestFit, HeapInv, Indexed
  <2>3. p # 0
    BY HeapConstants DEF HeapInv, Inside, Shape, IsMap
  <2>4. IsRecord(heap)
    BY DEF HeapInv, Shape
  <2>5. Reuse(heap, e, n).next = heap.next
    BY <2>4 DEF Reuse, Record, FlInsert, FlErase, IsRecord
  <2> QED
    BY <2>1, <2>2, <2>3, <2>5
<1>3. \A a \in DOMAIN heap.free : heap.free[a] < n
  BY <1>1, <1>2, FitFound
<1>4. \A a \in DOMAIN heap.free : heap.free[a] \in Nat
  BY DEF HeapInv, Shape, IsMap
<1>5. ASSUME NEW p \in Used, Unclaimed(p, n) PROVE FALSE
  <2>1. PICK a \in DOMAIN heap.free : heap.free[a] >= n
    BY <1>1, <1>5, RunIsOneBlock
  <2> QED
    BY <1>1, <1>3, <1>4, <2>1
<1> QED
  BY <1>5 DEF n

LEMMA FreshStep ==
  ASSUME NoWrap, IInv, Next, call'.op \in {"malloc", "calloc"},
         heap'.next # heap.next \/ call'.ret = 0
  PROVE  \A p \in Used : ~Unclaimed(p, Aligned(call'.size))
<1>1. HeapInv(heap)
  BY DEF IInv
<1>2. ASSUME NEW s \in Sizes, Malloc(s)
      PROVE  \A p \in Used : ~Unclaimed(p, Aligned(call'.size))
  <2>1. PICK r \in BumpAlloc(heap, s) : heap' = r.heap /\ call'.ret = r.ptr /\ call'.size = s
    BY <1>2 DEF Malloc, Returned
  <2>2. s \in Nat /\ s + Align < W
    BY RequestsFit, HeapConstants
  <2>3. r.heap.next # heap.next \/ r.ptr = 0
    BY <2>1
  <2>4. \A p \in Used : ~Unclaimed(p, Aligned(s))
    BY <1>1, <2>2, <2>3, FreshIsLastResort
  <2> QED
    BY <2>1, <2>4
<1>3. ASSUME NEW n \in Counts, NEW k \in Sizes, Calloc(n, k)
      PROVE  \A p \in Used : ~Unclaimed(p, Aligned(call'.size))
  <2> DEFINE s == n * k
  <2>1. s \in Nat /\ s + Align + HEAP_BASE + HEAP_SIZE < W /\ s % W = s
    BY RequestsFit
  <2>2. PICK r \in BumpAlloc(heap, s % W) :
          heap' = r.heap /\ call'.ret = r.ptr /\ call'.size = s
    BY <1>3 DEF Calloc, Returned
  <2> HIDE DEF s
  <2>3. r \in BumpAlloc(heap, s)
    BY <2>1, <2>2
  <2>4. s + Align < W
    BY <2>1, HeapConstants
  <2>5. r.heap.next # heap.next \/ r.ptr = 0
    BY <2>2
  <2>6. \A p \in Used : ~Unclaimed(p, Aligned(s))
    BY <1>1, <2>1, <2>3, <2>4, <2>5, FreshIsLastResort
  <2> QED
    BY <2>2, <2>6
<1>4. \/ \E s \in Sizes : Malloc(s)
      \/ \E n \in Counts, k \in Sizes : Calloc(n, k)
  BY DEF Next, Free, ReallocNull, ReallocZero, ReallocMove, Returned
<1> QED
  BY <1>2, <1>3, <1>4

(* bump_alloc moves the frontier, or refuses, only when no run of          *)
(* unclaimed bytes below the frontier could hold the block, however the    *)
(* frees and the splits before it have cut the arena up.                   *)
THEOREM FreshOnlyWhenFull == ASSUME NoWrap PROVE Spec => ReuseBeforeFresh
<1>1. IInv /\ [Next]_vars =>
        [ /\ call'.op \in {"malloc", "calloc"}
          /\ heap'.next # heap.next \/ call'.ret = 0
          => \A p \in Used : ~Unclaimed(p, Aligned(call'.size)) ]_vars
  BY FreshStep
<1> QED
  BY <1>1, AlwaysIInv, PTL DEF Spec, ReuseBeforeFresh
=============================================================================
