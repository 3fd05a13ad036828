----------------------------- MODULE MemoryPool -----------------------------
(***************************************************************************)
(* MemoryPool<T, BlockSize>: slots of one size, carved from blocks that    *)
(* operator new returns.  Addresses are numbers, so that the arithmetic on *)
(* pointers (the block's header, the padding, the last slot) is the code's.*)
(* The pool is a record; an operation returns the pool after it.           *)
(***************************************************************************)
EXTENDS Integers, Sequences, FiniteSets

CONSTANTS
    BlockSize,   \* bytes of a block
    SlotSize,    \* sizeof(slot_type_)
    PtrSize,     \* sizeof(slot_pointer_), the header of a block
    Align,       \* alignof(slot_type_)
    Bases        \* addresses operator new may return

(* The static_assert asks for BlockSize >= 2 * SlotSize only, which does   *)
(* not leave room for the header and the padding.                          *)
ASSUME PoolAssumption ==
    /\ {BlockSize, SlotSize, PtrSize, Align} \subseteq Nat \ {0}
    /\ SlotSize % Align = 0
    /\ PtrSize + Align + SlotSize <= BlockSize
    /\ Bases \subseteq Nat \ {0}
    /\ \A b \in Bases : b % Align = 0
    /\ \A b, c \in Bases : b < c => b + BlockSize <= c

nullptr == 0

(* MemoryPool().                                                           *)
EmptyPool == [blocks |-> <<>>, currentSlot_ |-> nullptr,
              lastSlot_ |-> nullptr, freeSlots_ |-> <<>>]

(* ~MemoryPool(): every block on the chain from currentBlock_ is freed.    *)
FreeBlocks(p) == [p EXCEPT !.blocks = <<>>]

(* deallocate: the slot becomes the head of the free list.                 *)
Deallocate(p, slot) == [p EXCEPT !.freeSlots_ = <<slot>> \o @]

(* Mutant of NewBlock: lastSlot_ is the end of the block.                  *)
NewBlockNoLimit(p, base) ==
    LET body == base + PtrSize
    IN  [p EXCEPT !.blocks = <<base>> \o @,
                  !.currentSlot_ = body + (Align - (body % Align)),
                  !.lastSlot_ = base + BlockSize]

(* A new block: its header links to the block before it, the slots start   *)
(* at an aligned address behind the header.                                *)
NewBlock(p, base) ==
    LET body == base + PtrSize
    IN  [p EXCEPT !.blocks = <<base>> \o @,
                  !.currentSlot_ = body + (Align - (body % Align)),
                  !.lastSlot_ = base + BlockSize - SlotSize + 1]

(* allocate: the free list first, then the current block, then a new one.  *)
(* The pools and slots that may result, for every address operator new     *)
(* can give.                                                               *)
Allocate(p) ==
    LET Carve(q) == [slot |-> q.currentSlot_,
                     pool |-> [q EXCEPT !.currentSlot_ = @ + SlotSize]]
    IN  IF p.freeSlots_ # <<>>
        THEN {[slot |-> Head(p.freeSlots_),
               pool |-> [p EXCEPT !.freeSlots_ = Tail(@)]]}
        ELSE IF p.currentSlot_ >= p.lastSlot_
        THEN {Carve(NewBlock(p, base)) :
                base \in Bases \ {p.blocks[i] : i \in DOMAIN p.blocks}}
        ELSE {Carve(p)}

-----------------------------------------------------------------------------
(* The slot is inside the block, behind the link, and aligned.             *)
InBlock(slot, base) ==
    /\ slot >= base + PtrSize /\ slot + SlotSize <= base + BlockSize
    /\ slot % Align = 0

Overlap(s1, s2) == s1 < s2 + SlotSize /\ s2 < s1 + SlotSize

(* Slots carved so far: all of the older blocks, and those of the current  *)
(* block up to currentSlot_.                                               *)
FirstSlot(base) == base + PtrSize + (Align - ((base + PtrSize) % Align))

Carved(p) ==
    IF p.blocks = <<>> THEN 0
    ELSE LET base == Head(p.blocks)
             room == base + BlockSize - FirstSlot(base)
         IN  (Len(p.blocks) - 1) * (room \div SlotSize)
             + (p.currentSlot_ - FirstSlot(base)) \div SlotSize

=============================================================================
