------------------------------ MODULE GuestHeap ------------------------------
(***************************************************************************)
(* The allocator behind the guest's malloc, calloc, realloc and free       *)
(* (TrapLayer in port/src/traps.cpp): a bump frontier over the arena plus  *)
(* a free list indexed twice, by address for coalescing and by size for    *)
(* best fit.  Handlers run to completion on the emulation thread, so each  *)
(* one is a single action.                                                 *)
(*                                                                         *)
(* Addresses and sizes are 32-bit words in the code; here a word is a      *)
(* number below W and every sum the code computes is taken modulo W.       *)
(* The bytes stored in a block (calloc's zeros, realloc's copy) are not    *)
(* modelled.                                                               *)
(***************************************************************************)
EXTENDS Integers, FiniteSets

CONSTANTS
  W,           \* words wrap at W (2^32)
  HEAP_BASE,   \* first address of the arena
  HEAP_SIZE,   \* bytes in the arena
  Align,       \* blocks are rounded up to this (16)
  MinSplit,    \* a tail of at least this many bytes is split off (32)
  Sizes,       \* the sizes passed to malloc and realloc
  Counts,      \* the element counts passed to calloc
  Foreign      \* pointers that are not live blocks, passed to realloc

ASSUME HeapConstants ==
  /\ Align \in Nat \ {0}
  /\ MinSplit \in Nat \ {0}
  /\ HEAP_BASE \in Nat \ {0}
  /\ HEAP_SIZE \in Nat
  /\ W \in Nat
  /\ HEAP_BASE + HEAP_SIZE < W
  /\ HEAP_BASE % Align = 0
  /\ Sizes \subseteq Nat
  /\ Counts \subseteq Nat
  /\ Foreign \subseteq Nat

VARIABLES
  heap,   \* the allocator: next, alloc, free, bySize, live
  call    \* the last handler run: its name, the bytes asked for, EAX

vars == <<heap, call>>

(* Every amount of memory the guest asks for: calloc wants n*k bytes.      *)
Requests == Sizes \cup {n * k : n \in Counts, k \in Sizes}

(* No request is so large that rounding it up, or adding it to the         *)
(* frontier, passes the end of the address space.                          *)
NoWrap == \A s \in Requests : s + Align + HEAP_BASE + HEAP_SIZE < W

HeapEnd == HEAP_BASE + HEAP_SIZE

(* realloc is never handed an address of the arena that is not a live      *)
(* block.                                                                  *)
NoStaleRealloc == Foreign \cap HEAP_BASE .. HeapEnd - 1 = {}

-----------------------------------------------------------------------------
(* Functions used as std::map: insert or overwrite, and erase.             *)
Put(f, a, s) == [x \in DOMAIN f \cup {a} |-> IF x = a THEN s ELSE f[x]]
Drop(f, a)   == [x \in DOMAIN f \ {a} |-> f[x]]

(* fl_insert and fl_erase keep both indexes of the free list.              *)
FlInsert(h, a, s) ==
  [h EXCEPT !.free = Put(h.free, a, s), !.bySize = h.bySize \cup {<<s, a>>}]

(* Mutant: the by-size entry is left behind.                               *)
FlErase_AddressOnly(h, a, s) == [h EXCEPT !.free = Drop(h.free, a)]

FlErase(h, a, s) ==
  [h EXCEPT !.free = Drop(h.free, a), !.bySize = h.bySize \ {<<s, a>>}]

(* Mutant: rounded down.                                                   *)
RoundUp_Down(size) == size - (size % Align)

(* (size + 15) & ~15 on a 32-bit word.                                     *)
RoundUp(size) == LET s == (size + Align - 1) % W IN s - (s % Align)

(* Mutant: malloc(0) gets no bytes.                                        *)
Aligned_Zero(size) == RoundUp(size)

(* malloc(0) still gets a block.                                           *)
Aligned(size) == IF RoundUp(size) = 0 THEN Align ELSE RoundUp(size)

(* A live block of blk bytes at p.                                         *)
Record(h, p, blk) ==
  [h EXCEPT !.alloc = Put(h.alloc, p, blk), !.live = h.live + blk]

(* Entries of the by-size index that lower_bound(aligned) can return.  The *)
(* multimap orders equal sizes by insertion; any of them may come first.   *)
BestFit(h, aligned) ==
  {e \in h.bySize :
     /\ e[1] >= aligned
     /\ \A f \in h.bySize : f[1] >= aligned => e[1] <= f[1]}

(* Mutants: blk is not reduced after the split; the tail is not listed.    *)
Reuse_WholeBlock(h, e, aligned) ==
  LET h1 == FlErase(h, e[2], e[1])
  IN  IF e[1] - aligned >= MinSplit
      THEN Record(FlInsert(h1, e[2] + aligned, e[1] - aligned), e[2], e[1])
      ELSE Record(h1, e[2], e[1])

Reuse_TailDropped(h, e, aligned) ==
  LET h1 == FlErase(h, e[2], e[1])
  IN  IF e[1] - aligned >= MinSplit
      THEN Record(h1, e[2], aligned)
      ELSE Record(h1, e[2], e[1])

(* Reuse the free block e = <<bytes, address>>, splitting off a large tail. *)
Reuse(h, e, aligned) ==
  LET blk == e[1]
      p   == e[2]
      h1  == FlErase(h, p, blk)
  IN  IF blk - aligned >= MinSplit
      THEN Record(FlInsert(h1, p + aligned, blk - aligned), p, aligned)
      ELSE Record(h1, p, blk)

(* Take fresh memory at the frontier.                                      *)
Extend(h, aligned) ==
  Record([h EXCEPT !.next = (h.next + aligned) % W], h.next, aligned)

(* bump_alloc: the possible outcomes, each the new heap and the pointer.   *)
BumpAlloc(h, size) ==
  LET aligned == Aligned(size)
      fit     == BestFit(h, aligned)
  IN  IF fit # {}
      THEN {[heap |-> Reuse(h, e, aligned), ptr |-> e[2]] : e \in fit}
      ELSE IF (h.next + aligned) % W > HeapEnd
           THEN {[heap |-> h, ptr |-> 0]}
           ELSE {[heap |-> Extend(h, aligned), ptr |-> h.next]}

(* lower_bound(p) on the address index, and the entry before it.           *)
NextFree(free, p) ==
  {a \in DOMAIN free : a >= p /\ \A b \in DOMAIN free : b >= p => a <= b}
PrevFree(free, p) ==
  {a \in DOMAIN free : a < p /\ \A b \in DOMAIN free : b < p => b <= a}

(* Mutant: only the following block is merged.                             *)
Coalesce_Forward(h, p, sz) ==
  IF p + sz \in DOMAIN h.free
  THEN FlInsert(FlErase(h, p + sz, h.free[p + sz]), p, sz + h.free[p + sz])
  ELSE FlInsert(h, p, sz)

(* Return sz bytes at p to the free list, merged with the free neighbours. *)
Coalesce(h, p, sz) ==
  LET fwd == {a \in NextFree(h.free, p) : a = p + sz}
      h1  == IF fwd = {} THEN h ELSE FlErase(h, p + sz, h.free[p + sz])
      sz1 == IF fwd = {} THEN sz ELSE sz + h.free[p + sz]
      bwd == {a \in PrevFree(h.free, p) : a + h.free[a] = p}
      pv  == CHOOSE a \in bwd : TRUE
  IN  IF bwd = {}
      THEN FlInsert(h1, p, sz1)
      ELSE FlInsert(FlErase(h1, pv, h.free[pv]), pv, h.free[pv] + sz1)

(* guest_free: null, interior, foreign and already freed pointers are      *)
(* ignored.                                                                *)
GuestFree(h, p) ==
  IF p = 0 \/ p \notin DOMAIN h.alloc
  THEN h
  ELSE Coalesce([h EXCEPT !.alloc = Drop(h.alloc, p),
                          !.live = h.live - h.alloc[p]],
                p, h.alloc[p])

-----------------------------------------------------------------------------
(* The import handlers.                                                    *)
Returned(op, size, ptr) == call' = [op |-> op, size |-> size, ret |-> ptr]

Malloc(size) ==
  \E r \in BumpAlloc(heap, size) :
    /\ heap' = r.heap
    /\ Returned("malloc", size, r.ptr)

(* The product is a 32-bit multiplication.                                 *)
Calloc(n, k) ==
  \E r \in BumpAlloc(heap, (n * k) % W) :
    /\ heap' = r.heap
    /\ Returned("calloc", n * k, r.ptr)

Free(p) ==
  /\ heap' = GuestFree(heap, p)
  /\ Returned("free", 0, 0)

(* realloc(0, n) is malloc and realloc(p, 0) is free; otherwise the new    *)
(* block is taken before the old one is given back.                        *)
ReallocNull(size) ==
  \E r \in BumpAlloc(heap, size) :
    /\ heap' = r.heap
    /\ Returned("realloc", size, r.ptr)

ReallocZero(old) ==
  /\ old # 0
  /\ heap' = GuestFree(heap, old)
  /\ Returned("realloc", 0, 0)

ReallocMove(old, size) ==
  /\ old # 0
  /\ size # 0
  /\ \E r \in BumpAlloc(heap, size) :
       /\ heap' = IF r.ptr = 0 THEN r.heap ELSE GuestFree(r.heap, old)
       /\ Returned("realloc", size, r.ptr)

(* Pointers passed to free: held ones, null, and stale or interior ones.   *)
Pointers == {0} \cup DOMAIN heap.alloc \cup HEAP_BASE .. HeapEnd - 1

EmptyMap == [x \in {} |-> 0]

Init ==
  /\ heap = [next |-> HEAP_BASE, alloc |-> EmptyMap, free |-> EmptyMap,
             bySize |-> {}, live |-> 0]
  /\ call = [op |-> "none", size |-> 0, ret |-> 0]

Next ==
  \/ \E s \in Sizes : Malloc(s)
  \/ \E n \in Counts, k \in Sizes : Calloc(n, k)
  \/ \E p \in Pointers : Free(p)
  \/ \E s \in Sizes : ReallocNull(s)
  \/ \E p \in DOMAIN heap.alloc \cup Foreign : ReallocZero(p)
  \/ \E p \in DOMAIN heap.alloc \cup Foreign, s \in Sizes : ReallocMove(p, s)

Spec == Init /\ [][Next]_vars
-----------------------------------------------------------------------------
Span(p, n) == p .. p + n - 1
Bytes(f) == UNION {Span(p, f[p]) : p \in DOMAIN f}

(* Everything handed out so far, and where a free block would fit in it.   *)
Used == HEAP_BASE .. heap.next - 1
Unclaimed(p, n) ==
  /\ Span(p, n) \subseteq Used
  /\ \A q \in DOMAIN heap.alloc : Span(p, n) \cap Span(q, heap.alloc[q]) = {}

(* The allocator's fields hold what their declarations say.                *)
TypeOK ==
  /\ heap.next \in HEAP_BASE .. HeapEnd
  /\ heap.live \in Int
  /\ DOMAIN heap.alloc \subseteq Nat
  /\ \A p \in DOMAIN heap.alloc : heap.alloc[p] \in Nat \ {0}
  /\ DOMAIN heap.free \subseteq Nat
  /\ \A p \in DOMAIN heap.free : heap.free[p] \in Nat \ {0}
  /\ heap.bySize \subseteq (Nat \X Nat)
  /\ call.ret \in Nat

(* The hazard heap_selftest guards: no byte belongs to two live blocks, to *)
(* a live block and the free list, or to two free blocks.                  *)
NoOverlap ==
  /\ \A p, q \in DOMAIN heap.alloc :
       p # q => Span(p, heap.alloc[p]) \cap Span(q, heap.alloc[q]) = {}
  /\ \A p \in DOMAIN heap.alloc, q \in DOMAIN heap.free :
       Span(p, heap.alloc[p]) \cap Span(q, heap.free[q]) = {}
  /\ \A p, q \in DOMAIN heap.free :
       p # q => Span(p, heap.free[p]) \cap Span(q, heap.free[q]) = {}

(* Nothing is lost: every byte below the frontier is live or free, and no  *)
(* block reaches past the frontier.  A lost byte is the leak that used to  *)
(* exhaust the arena on the second scenario load.                          *)
NothingLost == Used = Bytes(heap.alloc) \cup Bytes(heap.free)

FullyCoalesced ==
  \A p, q \in DOMAIN heap.free : p + heap.free[p] # q

IndexesAgree ==
  heap.bySize = {<<heap.free[p], p>> : p \in DOMAIN heap.free}

(* The free list is one list: freed neighbours are always merged, so that  *)
(* no free block ends where another begins, and the by-size and the        *)
(* by-address index list the same blocks.                                  *)
FreeListOK == FullyCoalesced /\ IndexesAgree

(* Fresh memory is taken, or the request refused, only when no run of      *)
(* unclaimed bytes below the frontier could hold it: fragmentation never   *)
(* hides free memory that lies side by side.                               *)
ReuseBeforeFresh ==
  [][ /\ call'.op \in {"malloc", "calloc"}
      /\ heap'.next # heap.next \/ call'.ret = 0
      => \A p \in Used : ~Unclaimed(p, Aligned(call'.size)) ]_vars

Contract ==
  INSTANCE HeapContract WITH blocks <- heap.alloc, call <- call

(* The allocator keeps the contract of malloc, calloc, realloc and free.   *)
KeepsContract == Contract!ContractSpec
=============================================================================
