-------------------------------- MODULE Dma --------------------------------
(***************************************************************************)
(* dma_memcpy32 (drivers/bcm2835/dma.c) and the caches it has to keep in   *)
(* step with a DMA engine that sees memory only.  The cores share one      *)
(* coherent write-back cache: the hardware may fetch a line or evict it at *)
(* any time.  The engine reads its control block from memory, then copies  *)
(* word by word.                                                           *)
(* A clean-and-invalidate of a line completes some time after its          *)
(* instruction; memoryBarrier() (dsb sy) waits for all of them.  Later     *)
(* accesses of the core to that line do wait for it, the engine does not.  *)
(*                                                                         *)
(* Memory is a function of word addresses.  A frame's number stands for    *)
(* the pixels of the frame, a job's number for the contents of dma_block.  *)
(***************************************************************************)
EXTENDS CacheLines, Sequences

CONSTANTS
  LineWords,    \* the words of a cache line
  WordBytes,    \* sizeof(uint32_t)
  NWords,       \* the words of memory
  BlockAddr,    \* the address of dma_block
  Jobs,         \* the copies asked for: a sequence of [src, dst, len], in
                \* words
  MaxFrames     \* bound on the calls

Addr == 0 .. NWords - 1
LineOf(a) == a \div LineWords
Line == {LineOf(a) : a \in Addr}
Words(from, len) == from .. from + len - 1
Lines(from, len) == {LineOf(a) : a \in Words(from, len)}

(* A core writes the source and the block, never the destination: fb->ptr, *)
(* which fb_put_color writes through, is mapped as a device.               *)
ASSUME DmaAssumption ==
  /\ {LineWords, WordBytes, NWords} \subseteq Nat \ {0}
  /\ WordBytes > 1
  /\ BlockAddr \in Addr /\ MaxFrames \in Nat
  /\ DOMAIN Jobs \subseteq Nat \ {0}
  /\ \A i \in DOMAIN Jobs :
     LET j == Jobs[i] IN
       /\ {j.src, j.dst, j.len} \subseteq Nat
       /\ Words(j.src, j.len) \union Words(j.dst, j.len) \subseteq Addr
       /\ j.len > 0
       /\ BlockAddr \notin Words(j.src, j.len)
       /\ \A k \in DOMAIN Jobs : Lines(j.dst, j.len) \intersect
            (Lines(Jobs[k].src, Jobs[k].len) \union {LineOf(BlockAddr)}) = {}
  (* the step of the maintenance loop divides the line *)
  /\ (LineWords * WordBytes) % Width = 0

VARIABLES
  mem,          \* memory
  cache,        \* the words of the lines in the cache, Nil elsewhere
  dirty,        \* the lines memory has to get back
  pend,         \* the lines whose clean-and-invalidate is under way
  pc, job, frame,   \* where dma_memcpy32 is, its arguments, what it copies
  begin, stop,  \* begin and end in cache_invalidate_range_to_poc
  enabled, block_addr, active,  \* DMA_ENABLE, and the channel's registers
  block, left   \* the job the engine has read in its block, and the words
                \* it has still to copy

vars == <<mem, cache, dirty, pend, pc, job, frame, begin, stop,
          enabled, block_addr, active, block, left>>
cacheVars == <<mem, cache, dirty, pend>>
callVars  == <<job, frame>>
loopVars  == <<begin, stop>>
chanVars  == <<enabled, block_addr, active, block, left>>

Nil  == -1
None == 0

-----------------------------------------------------------------------------
(* The cache.                                                              *)

InCache(l) == \A a \in Addr : LineOf(a) = l => cache[a] # Nil

(* What a load of the cores returns. *)
View(a) == IF cache[a] # Nil THEN cache[a] ELSE mem[a]

(* Stores of v to the words of ws: their lines are allocated and dirty. *)
Store(ws, v) ==
  LET ls == {LineOf(a) : a \in ws}
  IN  /\ pend \intersect ls = {}
      /\ cache' = [a \in Addr |-> IF a \in ws THEN v
                                  ELSE IF LineOf(a) \in ls THEN View(a)
                                  ELSE cache[a]]
      /\ dirty' = dirty \union ls
      /\ UNCHANGED <<mem, pend>>

(* A line leaves the cache, and goes to memory if it is dirty. *)
CleanInvalidate(l) ==
  /\ mem' = [a \in Addr |-> IF LineOf(a) = l /\ l \in dirty THEN cache[a]
                                                            ELSE mem[a]]
  /\ cache' = [a \in Addr |-> IF LineOf(a) = l THEN Nil ELSE cache[a]]
  /\ dirty' = dirty \ {l}

(* The hardware's own doing: an eviction, a speculative fetch, the end of  *)
(* a maintenance operation.                                                *)
Evict(l) ==
  /\ InCache(l)
  /\ CleanInvalidate(l)
  /\ UNCHANGED <<pend, pc, callVars, loopVars, chanVars>>

Fetch(l) ==
  /\ ~InCache(l)
  /\ cache' = [a \in Addr |-> IF LineOf(a) = l THEN mem[a] ELSE cache[a]]
  /\ UNCHANGED <<mem, dirty, pend, pc, callVars, loopVars, chanVars>>

Complete(l) ==
  /\ l \in pend
  /\ CleanInvalidate(l)
  /\ pend' = pend \ {l}
  /\ UNCHANGED <<pc, callVars, loopVars, chanVars>>

MemoryBarrier == pend = {}

-----------------------------------------------------------------------------
Init ==
  /\ mem = [a \in Addr |-> 0]
  /\ cache = [a \in Addr |-> Nil] /\ dirty = {} /\ pend = {}
  /\ pc = "idle" /\ job = None /\ frame = 0
  /\ begin = 0 /\ stop = 0
  /\ enabled = FALSE /\ block_addr = 0 /\ active = FALSE
  /\ block = None /\ left = 0

(* The caller has drawn a frame in the source, and calls dma_memcpy32.     *)
Call(j) ==
  /\ pc = "idle" /\ pc' = "block" /\ frame < MaxFrames
  /\ job' = j /\ frame' = frame + 1
  /\ Store(Words(Jobs[j].src, Jobs[j].len), frame + 1)
  /\ UNCHANGED <<loopVars, chanVars>>

(* cache_invalidate_range_to_poc of words: the range, in bytes.            *)
Range(from, len) ==
  /\ begin' = First(from * WordBytes)
  /\ stop' = End(from * WordBytes, len * WordBytes)

(* init_block; the maintenance of the source begins. *)
InitBlock ==
  /\ pc = "block" /\ pc' = "src"
  /\ Store({BlockAddr}, job)
  /\ Range(Jobs[job].src, Jobs[job].len)
  /\ UNCHANGED <<callVars, chanVars>>

(* One iteration of the loop of cache_invalidate_range_to_poc, for the     *)
(* source, the block and the destination in turn.                          *)
MaintainLine ==
  /\ pc \in {"src", "cb", "dst"} /\ begin < stop
  /\ pend' = pend \union {LineOf(begin \div WordBytes)}
  /\ begin' = begin + Width
  /\ UNCHANGED <<mem, cache, dirty, pc, callVars, stop, chanVars>>

(* The end of the loop: what dma_memcpy32 does next. *)
MaintainDone ==
  /\ begin >= stop
  /\ \/ pc = "src" /\ pc' = "enable"
     \/ pc = "cb"  /\ pc' = "block_addr"
     \/ pc = "dst" /\ pc' = "idle"
  /\ UNCHANGED <<cacheVars, callVars, loopVars, chanVars>>

(* dma_enable(DMA_CHAN_MEMCPY, 1) *)
Enable ==
  /\ pc = "enable" /\ pc' = "reset"
  /\ enabled' = TRUE
  /\ UNCHANGED <<cacheVars, callVars, loopVars, block_addr, active, block, left>>

(* Fault: the block is not cleaned. *)
ResetOnly ==
  /\ pc = "reset" /\ pc' = "block_addr"
  /\ active' = FALSE /\ left' = 0
  /\ UNCHANGED <<cacheVars, callVars, loopVars, enabled, block_addr, block>>

(* dma_run_async: dma_reset, memoryBarrier; the maintenance of the block   *)
(* begins.                                                                 *)
Reset ==
  /\ pc = "reset" /\ pc' = "cb"
  /\ MemoryBarrier
  /\ active' = FALSE /\ left' = 0
  /\ Range(BlockAddr, 1)
  /\ UNCHANGED <<cacheVars, callVars, enabled, block_addr, block>>

SetBlockAddr ==
  /\ pc = "block_addr" /\ pc' = "start"
  /\ block_addr' = BlockAddr
  /\ UNCHANGED <<cacheVars, callVars, loopVars, enabled, active, block, left>>

(* Fault: the engine starts before the maintenance has completed. *)
StartAtOnce ==
  /\ pc = "start" /\ pc' = "wait"
  /\ active' = TRUE /\ block' = None
  /\ UNCHANGED <<cacheVars, callVars, loopVars, enabled, block_addr, left>>

(* memoryBarrier; cs = 1. *)
Start ==
  /\ pc = "start" /\ pc' = "wait"
  /\ MemoryBarrier
  /\ active' = TRUE /\ block' = None
  /\ UNCHANGED <<cacheVars, callVars, loopVars, enabled, block_addr, left>>

(* Fault: the destination is not invalidated. *)
WaitOnly ==
  /\ pc = "wait" /\ pc' = "idle"
  /\ ~active
  /\ UNCHANGED <<cacheVars, callVars, loopVars, chanVars>>

(* dma_wait_transfer_done: the loop ends, the channel is reset; the        *)
(* maintenance of the destination begins.                                  *)
WaitDone ==
  /\ pc = "wait" /\ pc' = "dst"
  /\ ~active
  /\ left' = 0
  /\ Range(Jobs[job].dst, Jobs[job].len)
  /\ UNCHANGED <<cacheVars, callVars, enabled, block_addr, active, block>>

CpuStep ==
  \/ InitBlock \/ MaintainLine \/ MaintainDone \/ Enable \/ Reset
  \/ SetBlockAddr \/ Start \/ WaitDone

(* The engine, which the repository only describes by its registers: it    *)
(* reads its block, copies the words in order and clears Active.           *)
ReadBlock ==
  /\ active /\ enabled /\ block = None /\ mem[block_addr] # None
  /\ block' = mem[block_addr]
  /\ left' = Jobs[mem[block_addr]].len
  /\ UNCHANGED <<cacheVars, pc, callVars, loopVars, enabled, block_addr, active>>

CopyWord ==
  /\ active /\ left > 0
  /\ LET j == Jobs[block]
         i == j.len - left
     IN  mem' = [mem EXCEPT ![j.dst + i] = mem[j.src + i]]
  /\ left' = left - 1
  /\ UNCHANGED <<cache, dirty, pend, pc, callVars, loopVars,
                 enabled, block_addr, active, block>>

Finish ==
  /\ active /\ block # None /\ left = 0
  /\ active' = FALSE
  /\ UNCHANGED <<cacheVars, pc, callVars, loopVars, enabled, block_addr, block, left>>

EngineStep == ReadBlock \/ CopyWord \/ Finish

Next ==
  \/ \E j \in DOMAIN Jobs : Call(j)
  \/ CpuStep \/ EngineStep
  \/ \E l \in Line : Evict(l) \/ Fetch(l) \/ Complete(l)

SafeSpec == Init /\ [][Next]_vars

(* The core runs, the engine works, and every maintenance operation ends.  *)
Spec ==
  /\ SafeSpec
  /\ WF_vars(CpuStep) /\ WF_vars(EngineStep)
  /\ \A l \in Line : WF_vars(Complete(l))

-----------------------------------------------------------------------------
TypeOK ==
  /\ mem \in [Addr -> Nat] /\ cache \in [Addr -> Nat \union {Nil}]
  /\ dirty \subseteq {l \in Line : InCache(l)} /\ pend \subseteq Line
  /\ pc \in {"idle", "block", "src", "enable", "reset", "cb", "block_addr",
             "start", "wait", "dst"}
  /\ job \in {None} \union DOMAIN Jobs /\ frame \in 0 .. MaxFrames
  /\ begin \in Nat /\ stop \in Nat
  /\ enabled \in BOOLEAN /\ active \in BOOLEAN
  /\ block_addr \in Addr /\ block \in {None} \union DOMAIN Jobs
  /\ left \in Nat

(* Once dma_memcpy32 has returned, the destination holds the frame the     *)
(* caller drew, in memory, where the display reads it, and in every load   *)
(* the maintenance that is still under way does not hold back.             *)
Copied ==
  pc = "idle" /\ job # None =>
    \A a \in Words(Jobs[job].dst, Jobs[job].len) :
      mem[a] = frame /\ (LineOf(a) \in pend \/ View(a) = frame)

(* The engine works on the copy that was asked for, never on the block of  *)
(* an earlier call, and nothing the core has written to the source is      *)
(* still on its way to memory.                                             *)
EngineSeesTheCall ==
  active /\ block # None =>
    /\ block = job
    /\ Lines(Jobs[job].src, Jobs[job].len) \intersect dirty = {}

(* dma_memcpy32 returns: the block it has cleaned is there for the engine  *)
(* to read, and the channel it waits for is running.                       *)
CopyReturns == pc # "idle" ~> pc = "idle"
=============================================================================
