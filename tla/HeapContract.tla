---------------------------- MODULE HeapContract ----------------------------
(***************************************************************************)
(* What the guest relies on when it calls malloc, calloc, realloc and free *)
(* across the import boundary: blocks lie in the heap arena, are aligned,  *)
(* are at least as large as was asked for, and never overlap a block the   *)
(* guest still holds.  Nothing is said of how free memory is organised;    *)
(* GuestHeap is the allocator in traps.cpp and is shown to implement this. *)
(***************************************************************************)
EXTENDS Integers

CONSTANTS
  HEAP_BASE,   \* first address of the arena
  HEAP_SIZE,   \* bytes in the arena
  Align,       \* every block starts on a multiple of this
  Requests     \* the sizes the guest asks for, in bytes

VARIABLES
  blocks,      \* the blocks the guest holds: start address -> bytes
  call         \* the last call: its name, its size and what it returned

contractVars == <<blocks, call>>

(* The addresses of a block of n bytes at p.                               *)
Span(p, n) == p .. p + n - 1

Arena == HEAP_BASE .. HEAP_BASE + HEAP_SIZE - 1

(* A block of n bytes at p may be handed out for a request of s bytes.     *)
Fits(p, n, s) ==
  /\ n >= s
  /\ p % Align = 0
  /\ Span(p, n) \subseteq Arena
  /\ \A q \in DOMAIN blocks : Span(p, n) \cap Span(q, blocks[q]) = {}

ContractInit ==
  /\ blocks = [p \in {} |-> 0]
  /\ call = [op |-> "none", size |-> 0, ret |-> 0]

(* malloc or calloc of s bytes: a fitting block, or 0 and nothing changes. *)
Give(op, s) ==
  \/ /\ call' = [op |-> op, size |-> s, ret |-> 0]
     /\ UNCHANGED blocks
  \/ \E p \in Arena :
       /\ call' = [op |-> op, size |-> s, ret |-> p]
       /\ \E n \in 1 .. HEAP_SIZE :
            /\ blocks' = [q \in DOMAIN blocks \cup {p} |->
                            IF q = p THEN n ELSE blocks[q]]
            /\ Fits(p, n, s)

(* free: the block is given back; a pointer the guest does not hold is     *)
(* ignored.                                                                *)
TakeBack(op, p) ==
  /\ blocks' = [q \in DOMAIN blocks \ {p} |-> blocks[q]]
  /\ call' = [op |-> op, size |-> 0, ret |-> 0]

(* realloc of an existing block: the new block is disjoint from the old    *)
(* one, which is held until the copy is done; or 0 and the old one stays.  *)
Move(old, s) ==
  \/ /\ call' = [op |-> "realloc", size |-> s, ret |-> 0]
     /\ UNCHANGED blocks
  \/ \E p \in Arena :
       /\ call' = [op |-> "realloc", size |-> s, ret |-> p]
       /\ \E n \in 1 .. HEAP_SIZE :
            /\ blocks' = [q \in (DOMAIN blocks \cup {p}) \ {old} |->
                            IF q = p THEN n ELSE blocks[q]]
            /\ Fits(p, n, s)

(* A block the guest holds, or 0 for any pointer it does not hold.         *)
Held == DOMAIN blocks \cup {0}

ContractNext ==
  \/ \E s \in Requests, op \in {"malloc", "calloc", "realloc"} : Give(op, s)
  \/ \E p \in Held, op \in {"free", "realloc"} : TakeBack(op, p)
  \/ \E p \in Held, s \in Requests : Move(p, s)

ContractSpec == ContractInit /\ [][ContractNext]_contractVars
=============================================================================
