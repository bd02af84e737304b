-------------------------------- MODULE Heap --------------------------------
(***************************************************************************)
(* mem_init and malloc (drivers/mem.c).  The heap is cut into blocks, each *)
(* of which starts with a header that holds its size; addresses and sizes  *)
(* count words of size_t, to which ROUND rounds them.  malloc walks the    *)
(* headers to the first block that is large enough, cuts it in two and     *)
(* returns the first part.  A header does not say whether its block is in  *)
(* use, so malloc may hand a block out again, or cut it; a block of just   *)
(* the size asked for is cut too, and the header of its second part, of    *)
(* size 0, replaces the header of the block after it.  fb_init makes the   *)
(* only request.  What the callers write into their blocks is not modelled.*)
(***************************************************************************)
EXTENDS Integers

CONSTANTS
  H,            \* the words of the heap
  MallocSizes,  \* the words malloc may be asked for
  MaxMallocs    \* bound on the calls of malloc

ASSUME HeapAssumption ==
  H \in Nat \ {0} /\ MallocSizes \subseteq Nat /\ MaxMallocs \in Nat

VARIABLES
  header,       \* the size in the header at each address, None where there
                \* is no header; H is the address of the word past the heap
  heap_pc,      \* "boot", "idle" or "walk"
  size,         \* the request, with its header
  heap_ptr,     \* the header the walk has reached
  given,        \* the blocks handed out: address of the header, size, and
                \* the call that each was for
  mallocs       \* calls of malloc so far

heapVars == <<header, heap_pc, size, heap_ptr, given, mallocs>>

None == -1
Addr == 0 .. H

HeapTypeOK ==
  /\ header \in [Addr -> 0 .. H \union {None}]
  /\ heap_pc \in {"boot", "idle", "walk"}
  /\ size \in Nat /\ heap_ptr \in Addr
  /\ given \in SUBSET [addr : 0 .. H - 1, size : 1 .. H, nth : 1 .. mallocs]
  /\ mallocs \in 0 .. MaxMallocs

HeapInit ==
  /\ header = [a \in Addr |-> None]
  /\ heap_pc = "boot"
  /\ size = 0 /\ heap_ptr = 0 /\ given = {} /\ mallocs = 0

(* mem_init: one block, the whole heap. *)
MemInit ==
  /\ heap_pc = "boot" /\ heap_pc' = "idle"
  /\ header' = [header EXCEPT ![0] = H]
  /\ UNCHANGED <<size, heap_ptr, given, mallocs>>

(* malloc is called: the rounding, and the start of the walk. *)
Malloc(n) ==
  /\ heap_pc = "idle" /\ heap_pc' = "walk"
  /\ mallocs < MaxMallocs /\ mallocs' = mallocs + 1
  /\ size' = n + 1 /\ heap_ptr' = 0
  /\ UNCHANGED <<header, given>>

(* Fault: <= for <. *)
InHeapAndAfter == heap_ptr <= H

(* The condition of the loop. *)
InHeap == heap_ptr < H

(* Fault: the comparison forgets the header. *)
FitsItsPayload == header[heap_ptr] + 1 >= size

Fits == header[heap_ptr] >= size

(* Faults: header->size is not written; next->size is computed from it     *)
(* once it has been.                                                       *)
SplitKeepsSize ==
  [header EXCEPT ![heap_ptr + size] = header[heap_ptr] - size]

SplitTooEarly ==
  [header EXCEPT ![heap_ptr] = size, ![heap_ptr + size] = 0]

(* The headers of the two parts of the block at ptr. *)
Split ==
  [header EXCEPT ![heap_ptr] = size, ![heap_ptr + size] = header[heap_ptr] - size]

Take ==
  /\ heap_pc = "walk" /\ heap_pc' = "idle"
  /\ InHeap /\ Fits
  /\ header' = Split
  /\ given' = given \union {[addr |-> heap_ptr, size |-> size, nth |-> mallocs]}
  /\ UNCHANGED <<size, heap_ptr, mallocs>>

(* Fault: the walk advances by the size it looks for. *)
PassBySize ==
  /\ heap_pc = "walk" /\ InHeap /\ ~Fits
  /\ heap_ptr' = heap_ptr + size
  /\ UNCHANGED <<header, heap_pc, size, given, mallocs>>

Pass ==
  /\ heap_pc = "walk" /\ InHeap /\ ~Fits
  /\ heap_ptr' = heap_ptr + header[heap_ptr]
  /\ UNCHANGED <<header, heap_pc, size, given, mallocs>>

(* return NULL *)
Fail ==
  /\ heap_pc = "walk" /\ heap_pc' = "idle"
  /\ ~InHeap
  /\ UNCHANGED <<header, size, heap_ptr, given, mallocs>>

MallocStep == Take \/ Pass \/ Fail

HeapNext == MemInit \/ MallocStep \/ \E n \in MallocSizes : Malloc(n)

HeapSafeSpec == HeapInit /\ [][HeapNext]_heapVars
HeapSpec     == HeapSafeSpec /\ WF_heapVars(MallocStep)

-----------------------------------------------------------------------------
(* The words of a block, its header's included, and the first after it.    *)
Words(b) == b.addr .. b.addr + b.size - 1
End(b)   == b.addr + b.size

(* Whatever the requests, a block shares words with one handed out before  *)
(* it only if it is a part of it: so a request larger than the blocks      *)
(* handed out before gets words of its own.                                *)
BlocksNest ==
  \A b, d \in given :
    b.nth < d.nth =>
      Words(d) \subseteq Words(b) \/ Words(b) \intersect Words(d) = {}

(* Whatever the requests, the walk reads headers only; no block reaches    *)
(* past the heap, whether handed out or not; and the word past the heap is *)
(* written with 0 only, for a block handed out that ends with the heap.    *)
WalkInHeap ==
  /\ heap_pc = "walk" /\ heap_ptr < H => header[heap_ptr] # None
  /\ \A a \in Addr : header[a] # None => a + header[a] <= H
  /\ \A b \in given : End(b) <= H
  /\ header[H] # None => header[H] = 0 /\ \E b \in given : End(b) = H

(* The walk has reached a header of size 0: malloc's loop stays there.     *)
Stuck == heap_pc = "walk" /\ heap_ptr < H /\ header[heap_ptr] = 0

(* A walk is stuck only where two blocks handed out end, one of them a     *)
(* part of the other: as long as no word is handed out twice, it never is. *)
StuckAfterReuse ==
  Stuck => \E b, d \in given :
             b.nth < d.nth /\ End(b) = heap_ptr /\ End(d) = heap_ptr

(* malloc returns, unless its walk is stuck. *)
MallocReturns == heap_pc = "walk" ~> heap_pc = "idle" \/ Stuck
=============================================================================
