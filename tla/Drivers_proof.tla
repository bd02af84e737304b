---------------------------- MODULE Drivers_proof ----------------------------
(***************************************************************************)
(* What the runs of Systimer, Heap, Vpu and Mailbox check on small         *)
(* instances, proved for every value of their constants.  The four drivers *)
(* have no variable in common: each has its part of the module.            *)
(***************************************************************************)
EXTENDS Systimer, Heap, Vpu, Mailbox, FiniteSetTheorems, TLAPS

-----------------------------------------------------------------------------
(* The system timer: what a reading in two halves can be, and how early or *)
(* late systimer_wait_us can be because of it, for every period of the low *)
(* register.                                                               *)
USE SystimerAssumption

(* A count is its high half times K plus its low half. *)
LEMMA Halves ==
  ASSUME NEW n \in Nat
  PROVE  /\ n \div K \in Nat /\ n % K \in 0 .. K - 1
         /\ n = (n \div K) * K + (n % K)
<1>1. n % K \in 0 .. K - 1
      OBVIOUS
<1>2. n \div K \in Nat
      OBVIOUS
<1>3. n = K * (n \div K) + (n % K)
      OBVIOUS
<1> QED
    BY <1>1, <1>2, <1>3

(* Less than K ticks apart, two counts have the same high half, or the     *)
(* later one's is one more.                                                *)
LEMMA HighHalves ==
  ASSUME NEW m \in Nat, NEW n \in Nat, m <= n, n - m < K
  PROVE  n \div K = m \div K \/ n \div K = m \div K + 1
  OBVIOUS

(* The high half of the one joined to the low half of the other: the       *)
(* earlier count itself, or K more if the low register has rolled over.    *)
LEMMA JoinNear ==
  ASSUME NEW m \in Nat, NEW n \in Nat, m <= n, n - m < K
  PROVE  /\ Join(n \div K, m % K) \in Nat
         /\ n \div K = m \div K => Join(n \div K, m % K) = m
         /\ n \div K # m \div K => Join(n \div K, m % K) = m + K
<1>1. CASE n \div K = m \div K
      BY <1>1, Halves DEF Join
<1>2. CASE n \div K # m \div K
  <2>1. n \div K = m \div K + 1
        BY <1>2, HighHalves
  <2>2. (m \div K + 1) * K = (m \div K) * K + K
        BY Halves
  <2> QED
      BY SMTT(30), <1>2, <2>1, <2>2, Halves DEF Join
<1> QED
    BY <1>1, <1>2

-----------------------------------------------------------------------------
(* The low half is always that of the count at `at', and the two reads are *)
(* less than K ticks apart.                                                *)
ReadInv ==
  timer_pc = "hi" => lo = at % K /\ at <= count /\ count - at < K

(* A wait is measured from its call, and no reading is older than it.      *)
ClockInv ==
  timer_pc # "idle" =>
    /\ began <= count
    /\ timer_pc \in {"hi", "use"} => began <= at /\ at <= count
    /\ tend # Unset => began <= at /\ at <= count

TimerInv ==
  TimerTypeOK /\ ReadInv /\ ReadingIsNear /\ DeadlineIsNear /\ ClockInv

LEMMA TimerInitInv == TimerInit => TimerInv
<1> SUFFICES ASSUME TimerInit PROVE TimerInv
    OBVIOUS
<1>1. TimerTypeOK
  <2>1. count \in Nat
        BY DEF TimerInit
  <2>2. 0 \in 0 .. K - 1
        OBVIOUS
  <2> QED
      BY <2>1, <2>2 DEF TimerInit, TimerTypeOK
<1>2. ReadInv /\ ReadingIsNear /\ DeadlineIsNear /\ ClockInv
      BY DEF TimerInit, ReadInv, ReadingIsNear, DeadlineIsNear, ClockInv
<1> QED
    BY <1>1, <1>2 DEF TimerInv

LEMMA TimerInvStep == TimerInv /\ [TimerNext]_timerVars => TimerInv'
<1> SUFFICES ASSUME TimerInv, [TimerNext]_timerVars PROVE TimerInv'
    OBVIOUS
<1> USE DEF TimerInv, TimerTypeOK, ReadInv, ReadingIsNear, DeadlineIsNear, ClockInv,
            Unset
<1>1. CASE UNCHANGED timerVars
      BY <1>1 DEF timerVars
<1>2. CASE Tick
      BY <1>2 DEF Tick
<1>3. ASSUME NEW u \in Waits, WaitUs(u)
      PROVE  TimerInv'
  <2>1. u \in Nat
        OBVIOUS
  <2>2. TimerTypeOK'
        BY <1>3, <2>1 DEF WaitUs
  <2>3. /\ timer_pc' = "lo" /\ tend' = Unset
        /\ began' <= count'
        BY <1>3 DEF WaitUs
  <2> QED
      BY <2>2, <2>3
<1>4. CASE ReadLo
  <2>1. lo' \in 0 .. K - 1
        BY <1>4, Halves DEF ReadLo
  <2>2. TimerTypeOK'
        BY <1>4, <2>1 DEF ReadLo
  <2>3. ReadInv'
        BY <1>4 DEF ReadLo
  <2>4. ReadingIsNear' /\ DeadlineIsNear' /\ ClockInv'
        BY <1>4 DEF ReadLo
  <2> QED
      BY <2>2, <2>3, <2>4
<1>5. CASE ReadHi
  <2>1. /\ ticks' = Join(count \div K, at % K)
        /\ at <= count /\ count - at < K
        BY <1>5 DEF ReadHi
  <2>2. /\ ticks' \in Nat
        /\ count \div K = at \div K => ticks' = at
        /\ count \div K # at \div K => ticks' = at + K
        BY <2>1, JoinNear
  <2>3. ReadingIsNear' /\ ticks' \in Nat /\ torn' \in BOOLEAN
        BY <1>5, <2>2 DEF ReadHi
  <2> QED
      BY <1>5, <2>3 DEF ReadHi
<1>6. CASE Deadline
      BY <1>6 DEF Deadline
<1>7. CASE Again
      BY <1>7 DEF Again
<1>8. CASE WaitReturns
      BY <1>8 DEF WaitReturns
<1> QED
    BY <1>1, <1>2, <1>3, <1>4, <1>5, <1>6, <1>7, <1>8 DEF TimerNext, WaitStep

(* The invariant from which the properties follow. *)
THEOREM TimerInvariant == TimerSafeSpec => []TimerInv
<1>1. TimerInit => TimerInv
      BY TimerInitInv
<1>2. TimerInv /\ [TimerNext]_timerVars => TimerInv'
      BY TimerInvStep
<1> QED
    BY <1>1, <1>2, PTL DEF TimerSafeSpec

(* The variables of systimer_wait_us and the two registers keep their      *)
(* types: the halves that are joined make a count, and no deadline is      *)
(* negative.                                                               *)
THEOREM TimerTypeCorrect == TimerSafeSpec => []TimerTypeOK
<1>1. TimerInv => TimerTypeOK
      BY DEF TimerInv
<1> QED
    BY <1>1, TimerInvariant, PTL

(* Whatever the width of the registers, systimer_getticks returns the      *)
(* count when it read the low half, or exactly one period more when the    *)
(* low register rolled over before it read the high half.                  *)
THEOREM ReadingsNear == TimerSafeSpec => []ReadingIsNear
<1>1. TimerInv => ReadingIsNear
      BY DEF TimerInv
<1> QED
    BY <1>1, TimerInvariant, PTL

(* The deadline of a wait is never too early, and too late by a torn       *)
(* reading only.                                                           *)
THEOREM DeadlinesNear == TimerSafeSpec => []DeadlineIsNear
<1>1. TimerInv => DeadlineIsNear
      BY DEF TimerInv
<1> QED
    BY <1>1, TimerInvariant, PTL

(* systimer_wait_us gives its caller all of its us ticks, whatever its     *)
(* readings were before the last; a torn last one costs a period at most.  *)
THEOREM WaitLasts == TimerSafeSpec => WaitsLongEnough
<1>1. TimerInv /\ [TimerNext]_timerVars =>
        [WaitReturns => count - began >= IF ticks = at THEN us ELSE us - K]_timerVars
      BY DEF TimerInv, TimerTypeOK, ReadingIsNear, DeadlineIsNear, ClockInv, WaitReturns,
             Reached, Unset
<1> QED
    BY <1>1, TimerInvariant, PTL DEF TimerSafeSpec, WaitsLongEnough

-----------------------------------------------------------------------------
(* The heap: for any size of it and any requests, malloc never reads nor   *)
(* hands out a word outside, hands out words twice only as part of the     *)
(* block they were in, and is stuck nowhere else than behind such words.   *)
HIDE SystimerAssumption
USE HeapAssumption DEF None, Addr

(* There is a header at address a. *)
Header(a) == header[a] # None

(* The block of the header at a ends there. *)
EndAt(a) == a + header[a]

(* The headers are chained: the block of each ends in the heap, and        *)
(* another header follows it, unless it ends with the heap.                *)
Chained ==
  /\ heap_pc # "boot" => Header(0)
  /\ \A a \in Addr : Header(a) =>
       EndAt(a) \in Addr /\ (EndAt(a) < H => Header(EndAt(a)))

(* What a walk is looking for has a header, and the walk is at one.        *)
MallocInv ==
  heap_pc = "walk" =>
    /\ size > 0 /\ (heap_ptr < H => Header(heap_ptr))
    /\ mallocs > 0 /\ \A b \in given : b.nth < mallocs

(* Nothing is written before mem_init. *)
BootEmpty == heap_pc = "boot" => given = {} /\ \A a \in Addr : ~Header(a)

(* No header lies inside the block of another. *)
Apart == \A a, c \in Addr : Header(a) /\ Header(c) /\ a < c => EndAt(a) <= c

(* The block of a header is outside a block handed out, or a part of it.   *)
InOrOut ==
  \A a \in Addr, b \in given : Header(a) =>
    EndAt(a) <= b.addr \/ End(b) <= a \/ (b.addr <= a /\ EndAt(a) <= End(b))

(* Every block ends with the heap or with a block handed out, and one of   *)
(* size 0 is where two blocks handed out end.                              *)
EndsGiven ==
  \A a \in Addr : Header(a) => EndAt(a) = H \/ \E b \in given : End(b) = EndAt(a)

TwiceGiven(a) == \E b, d \in given : b.nth < d.nth /\ End(b) = a /\ End(d) = a

ZeroAfterReuse == \A a \in Addr : header[a] = 0 /\ a < H => TwiceGiven(a)

(* The word past the heap is only written when a block is given that ends  *)
(* with the heap.                                                          *)
PastTheHeap ==
  /\ header[H] # None => header[H] = 0 /\ \E b \in given : End(b) = H
  /\ \A b \in given : End(b) <= H

HeapInv ==
  /\ HeapTypeOK /\ BootEmpty /\ Chained /\ MallocInv
  /\ Apart /\ InOrOut /\ EndsGiven /\ ZeroAfterReuse /\ PastTheHeap
  /\ BlocksNest

LEMMA HeapInitInv == HeapInit => HeapInv
<1> SUFFICES ASSUME HeapInit PROVE HeapInv
    OBVIOUS
<1> USE DEF HeapInit
<1>1. HeapTypeOK
      BY DEF HeapTypeOK
<1>2. BootEmpty /\ Chained /\ MallocInv /\ Apart
      BY DEF Chained, MallocInv, BootEmpty, Apart, Header
<1>3. InOrOut /\ EndsGiven /\ ZeroAfterReuse /\ PastTheHeap /\ BlocksNest
      BY DEF InOrOut, EndsGiven, ZeroAfterReuse, PastTheHeap, BlocksNest, Header
<1> QED
    BY <1>1, <1>2, <1>3 DEF HeapInv

(* What mem_init leaves. *)
LEMMA BootStep ==
  ASSUME HeapInv, MemInit
  PROVE  HeapInv'
<1>1. /\ heap_pc' = "idle" /\ given = {} /\ given' = {} /\ 0 < H /\ H \in Addr
      /\ header' = [header EXCEPT ![0] = H] /\ \A a \in Addr : header[a] = None
      /\ UNCHANGED <<size, heap_ptr, mallocs>>
      BY DEF HeapInv, BootEmpty, Header, MemInit
<1>2. /\ header'[0] = H /\ \A a \in Addr : a # 0 => header'[a] = None
      /\ header' \in [Addr -> 0 .. H \union {None}]
      BY <1>1 DEF HeapInv, HeapTypeOK
<1>3. HeapTypeOK' /\ BootEmpty' /\ MallocInv'
      BY <1>1, <1>2 DEF HeapInv, HeapTypeOK, BootEmpty, MallocInv
<1>4. Chained' /\ Apart' /\ EndsGiven'
      BY <1>1, <1>2 DEF Chained, Apart, EndsGiven, Header, EndAt
<1>5. InOrOut' /\ ZeroAfterReuse' /\ PastTheHeap' /\ BlocksNest'
      BY <1>1, <1>2 DEF InOrOut, ZeroAfterReuse, PastTheHeap, BlocksNest
<1> QED
    BY <1>3, <1>4, <1>5 DEF HeapInv

-----------------------------------------------------------------------------
(* The block that Take cuts is in the heap, and so are both of its parts.  *)
TheBlock(b) == b = [addr |-> heap_ptr, size |-> size, nth |-> mallocs]

LEMMA TakeFits ==
  ASSUME HeapInv, Take
  PROVE  /\ heap_ptr \in 0 .. H - 1 /\ size \in 1 .. H
         /\ header[heap_ptr] \in 1 .. H /\ header[heap_ptr] >= size
         /\ Header(heap_ptr)
         /\ heap_ptr + size \in Addr /\ EndAt(heap_ptr) \in Addr
         /\ header' \in [Addr -> 0 .. H \union {None}]
         /\ header'[heap_ptr] = size
         /\ header'[heap_ptr + size] = header[heap_ptr] - size
         /\ \A a \in Addr :
              a # heap_ptr /\ a # heap_ptr + size => header'[a] = header[a]
<1>1. heap_ptr \in 0 .. H - 1 /\ size \in Nat /\ size > 0 /\ header[heap_ptr] # None
      BY DEF Take, InHeap, HeapInv, HeapTypeOK, MallocInv, Header
<1>2. /\ header \in [Addr -> 0 .. H \union {None}]
      /\ header[heap_ptr] \in 0 .. H /\ header[heap_ptr] >= size
      /\ heap_ptr + header[heap_ptr] \in Addr
      BY <1>1 DEF Take, Fits, HeapInv, HeapTypeOK, Chained, Header, EndAt
<1>3. /\ size \in 1 .. H /\ header[heap_ptr] \in 1 .. H
      /\ heap_ptr \in Addr /\ heap_ptr + size \in Addr /\ heap_ptr # heap_ptr + size
      /\ header[heap_ptr] - size \in 0 .. H
      BY <1>1, <1>2
<1>4. header' = [header EXCEPT ![heap_ptr] = size, ![heap_ptr + size] = header[heap_ptr] - size]
      BY DEF Take, Split
<1> QED
    BY <1>1, <1>2, <1>3, <1>4 DEF Header, EndAt

(* The headers after Take: the first part, the second, and the others,     *)
(* which lie outside the block that is cut.                                *)
LEMMA TakeCuts ==
  ASSUME HeapInv, Take, NEW a \in Addr, header'[a] # None
  PROVE  \/ a = heap_ptr /\ a + header'[a] = heap_ptr + size
         \/ a = heap_ptr + size /\ a + header'[a] = EndAt(heap_ptr)
         \/ /\ a # heap_ptr /\ a # heap_ptr + size
            /\ header'[a] = header[a] /\ Header(a) /\ a + header'[a] = EndAt(a)
            /\ a < heap_ptr => EndAt(a) <= heap_ptr
            /\ a > heap_ptr => EndAt(heap_ptr) <= a
<1>1. /\ heap_ptr \in 0 .. H - 1 /\ size \in 1 .. H /\ header[heap_ptr] \in 1 .. H
      /\ Header(heap_ptr) /\ header'[heap_ptr] = size
      /\ header'[heap_ptr + size] = header[heap_ptr] - size
      /\ \A c \in Addr : c # heap_ptr /\ c # heap_ptr + size => header'[c] = header[c]
      BY TakeFits
<1>2. CASE a = heap_ptr
      BY <1>1, <1>2
<1>3. CASE a = heap_ptr + size
      BY <1>1, <1>3 DEF EndAt
<1>4. CASE a # heap_ptr /\ a # heap_ptr + size
  <2>1. header'[a] = header[a] /\ Header(a) /\ a + header'[a] = EndAt(a)
        BY <1>1, <1>4 DEF Header, EndAt
  <2>2. /\ a < heap_ptr => EndAt(a) <= heap_ptr
        /\ a > heap_ptr => EndAt(heap_ptr) <= a
        BY <1>1, <2>1 DEF HeapInv, Apart
  <2> QED
      BY <1>4, <2>1, <2>2
<1> QED
    BY <1>2, <1>3, <1>4

LEMMA TakeKeepsHeaders ==
  ASSUME HeapInv, Take, NEW a \in Addr, Header(a)
  PROVE  header'[a] # None
<1>1. CASE a # heap_ptr /\ a # heap_ptr + size
      BY <1>1, TakeFits DEF Header
<1>2. CASE a = heap_ptr \/ a = heap_ptr + size
  <2>1. header'[a] \in Int /\ header'[a] >= 0
        BY <1>2, TakeFits
  <2> QED
      BY <2>1
<1> QED
    BY <1>1, <1>2

(* What Take adds to the blocks handed out. *)
LEMMA TakeGives ==
  ASSUME HeapInv, Take
  PROVE  /\ \A b \in given' : b \in given \/ TheBlock(b)
         /\ \A b \in given : b \in given'
         /\ \E b \in given' : TheBlock(b)
         /\ \A b \in given : /\ b.nth < mallocs /\ b.addr \in 0 .. H - 1 /\ b.size \in 1 .. H
                             /\ b.nth \in 1 .. mallocs
         /\ \A b : TheBlock(b) => b.addr = heap_ptr /\ b.size = size /\ b.nth = mallocs
         /\ heap_pc' = "idle" /\ UNCHANGED <<size, heap_ptr, mallocs>>
         /\ mallocs \in Nat \ {0}
<1>1. /\ given' = given \union {[addr |-> heap_ptr, size |-> size, nth |-> mallocs]}
      /\ heap_pc = "walk" /\ heap_pc' = "idle" /\ UNCHANGED <<size, heap_ptr, mallocs>>
      BY DEF Take
<1>2. /\ given \in SUBSET [addr : 0 .. H - 1, size : 1 .. H, nth : 1 .. mallocs]
      /\ mallocs \in Nat \ {0} /\ \A b \in given : b.nth < mallocs
      BY <1>1 DEF HeapInv, HeapTypeOK, MallocInv
<1>3. \A b : TheBlock(b) => b.addr = heap_ptr /\ b.size = size /\ b.nth = mallocs
      BY DEF TheBlock
<1>4. \A b \in given : /\ b.addr \in 0 .. H - 1 /\ b.size \in 1 .. H
                       /\ b.nth \in 1 .. mallocs
      BY <1>2
<1>5. /\ \A b \in given' : b \in given \/ TheBlock(b)
      /\ \A b \in given : b \in given'
      /\ \E b \in given' : TheBlock(b)
      BY <1>1 DEF TheBlock
<1> QED
    BY <1>1, <1>2, <1>3, <1>4, <1>5

-----------------------------------------------------------------------------
(* Take keeps the headers chained and apart. *)
LEMMA TakeChains ==
  ASSUME HeapInv, Take
  PROVE  HeapTypeOK' /\ BootEmpty' /\ Chained' /\ MallocInv' /\ Apart'
<1>1. /\ heap_ptr \in 0 .. H - 1 /\ size \in 1 .. H
      /\ header[heap_ptr] \in 1 .. H /\ header[heap_ptr] >= size
      /\ Header(heap_ptr) /\ heap_ptr + size \in Addr /\ EndAt(heap_ptr) \in Addr
      /\ header' \in [Addr -> 0 .. H \union {None}]
      /\ header'[heap_ptr] = size /\ header'[heap_ptr + size] = header[heap_ptr] - size
      BY TakeFits
<1>2. HeapTypeOK' /\ BootEmpty' /\ MallocInv'
  <2>1. /\ given' = given \union {[addr |-> heap_ptr, size |-> size, nth |-> mallocs]}
        /\ mallocs \in Nat \ {0} /\ heap_pc' = "idle" /\ UNCHANGED <<size, heap_ptr, mallocs>>
        BY TakeGives DEF Take
  <2>2. [addr |-> heap_ptr, size |-> size, nth |-> mallocs]
          \in [addr : 0 .. H - 1, size : 1 .. H, nth : 1 .. mallocs]
        BY <1>1, <2>1
  <2> QED
      BY <1>1, <2>1, <2>2 DEF HeapInv, HeapTypeOK, BootEmpty, MallocInv
<1>3. Chained'
  <2>1. Header(0) /\ heap_pc' = "idle"
        BY DEF HeapInv, Chained, Take
  <2>2. header'[0] # None
        BY <2>1, TakeKeepsHeaders
  <2>3. ASSUME NEW a \in Addr, header'[a] # None
        PROVE  /\ a + header'[a] \in Addr
               /\ a + header'[a] < H => header'[a + header'[a]] # None
    <3>1. CASE a = heap_ptr /\ a + header'[a] = heap_ptr + size
          BY <1>1, <3>1
    <3>2. CASE a = heap_ptr + size /\ a + header'[a] = EndAt(heap_ptr)
          BY <1>1, <3>2, TakeKeepsHeaders DEF HeapInv, Chained
    <3>3. CASE Header(a) /\ a + header'[a] = EndAt(a)
          BY <3>3, TakeKeepsHeaders DEF HeapInv, Chained
    <3> QED
        BY <2>3, <3>1, <3>2, <3>3, TakeCuts
  <2> QED
      BY <2>2, <2>3 DEF Chained, Header, EndAt
<1>4. Apart'
  <2>1. ASSUME NEW a \in Addr, NEW c \in Addr, header'[a] # None, header'[c] # None, a < c
        PROVE  a + header'[a] <= c
    <3>1. CASE a = heap_ptr /\ a + header'[a] = heap_ptr + size
          BY <1>1, <2>1, <3>1, TakeCuts DEF EndAt
    <3>2. CASE a = heap_ptr + size /\ a + header'[a] = EndAt(heap_ptr)
          BY <1>1, <2>1, <3>2, TakeCuts DEF EndAt
    <3>3. CASE /\ a # heap_ptr /\ a # heap_ptr + size
               /\ Header(a) /\ a + header'[a] = EndAt(a)
               /\ a < heap_ptr => EndAt(a) <= heap_ptr
               /\ a > heap_ptr => EndAt(heap_ptr) <= a
      <4>1. CASE c = heap_ptr
            BY <2>1, <3>3, <4>1
      <4>2. CASE c = heap_ptr + size
        <5>0. EndAt(a) \in Addr
              BY <3>3 DEF HeapInv, Chained
        <5>1. a < heap_ptr => EndAt(a) <= c
              BY <1>1, <3>3, <4>2, <5>0
        <5>2. ~(a > heap_ptr)
          <6>1. EndAt(heap_ptr) >= c
                BY <1>1, <4>2 DEF EndAt
          <6> QED
              BY <1>1, <2>1, <3>3, <6>1
        <5> QED
            BY <1>1, <2>1, <3>3, <5>1, <5>2
      <4>3. CASE Header(c)
            BY <2>1, <3>3, <4>3 DEF HeapInv, Apart
      <4> QED
          BY <2>1, <4>1, <4>2, <4>3, TakeCuts
    <3> QED
        BY <2>1, <3>1, <3>2, <3>3, TakeCuts
  <2> QED
      BY <2>1 DEF Apart, Header, EndAt
<1> QED
    BY <1>2, <1>3, <1>4

(* Take gives a part of every block handed out before it that it touches,  *)
(* and no header's block crosses the bounds of a block handed out.         *)
LEMMA TakeNests ==
  ASSUME HeapInv, Take
  PROVE  InOrOut' /\ BlocksNest'
<1>1. /\ heap_ptr \in 0 .. H - 1 /\ size \in 1 .. H
      /\ header[heap_ptr] \in 1 .. H /\ header[heap_ptr] >= size /\ Header(heap_ptr)
      BY TakeFits
<1>2. ASSUME NEW b \in given
      PROVE  \/ EndAt(heap_ptr) <= b.addr \/ End(b) <= heap_ptr
             \/ b.addr <= heap_ptr /\ EndAt(heap_ptr) <= End(b)
      BY <1>1 DEF HeapInv, InOrOut
<1>3. ASSUME NEW a \in Addr, NEW b \in given', header'[a] # None
      PROVE  \/ a + header'[a] <= b.addr \/ End(b) <= a
             \/ b.addr <= a /\ a + header'[a] <= End(b)
  <2>1. CASE TheBlock(b)
    <3>1. b.addr = heap_ptr /\ End(b) = heap_ptr + size
          BY <2>1, TakeGives DEF End
    <3> QED
        BY <1>1, <1>3, <3>1, TakeCuts DEF EndAt
  <2>2. CASE b \in given
    <3>1. b.addr \in 0 .. H - 1 /\ b.size \in 1 .. H
          BY <2>2, TakeGives
    <3>2. CASE a = heap_ptr /\ a + header'[a] = heap_ptr + size
          BY <1>1, <1>2, <2>2, <3>1, <3>2 DEF EndAt, End
    <3>3. CASE a = heap_ptr + size /\ a + header'[a] = EndAt(heap_ptr)
          BY <1>1, <1>2, <2>2, <3>1, <3>3 DEF EndAt, End
    <3>4. CASE Header(a) /\ a + header'[a] = EndAt(a)
          BY <2>2, <3>4 DEF HeapInv, InOrOut
    <3> QED
        BY <1>3, <3>2, <3>3, <3>4, TakeCuts
  <2> QED
      BY <2>1, <2>2, TakeGives
<1>4. ASSUME NEW b \in given', NEW d \in given', b.nth < d.nth
      PROVE  Words(d) \subseteq Words(b) \/ Words(b) \intersect Words(d) = {}
  <2>1. CASE b \in given /\ d \in given
        BY <1>4, <2>1 DEF HeapInv, BlocksNest
  <2>2. CASE b \in given /\ TheBlock(d)
    <3>1. /\ b.addr \in 0 .. H - 1 /\ b.size \in 1 .. H
          /\ d.addr = heap_ptr /\ d.size = size
          BY <2>2, TakeGives
    <3> QED
        BY <1>1, <1>2, <2>2, <3>1 DEF Words, End, EndAt
  <2>3. CASE TheBlock(b)
        BY <1>4, <2>3, TakeGives
  <2> QED
      BY <2>1, <2>2, <2>3, TakeGives
<1> QED
    BY <1>3, <1>4 DEF InOrOut, BlocksNest, Header, EndAt, End, Words

(* A header of size 0 is written only where a block handed out ends that   *)
(* the new one is a part of, or past the heap.                             *)
LEMMA TakeEnds ==
  ASSUME HeapInv, Take
  PROVE  EndsGiven' /\ ZeroAfterReuse' /\ PastTheHeap'
<1>1. /\ heap_ptr \in 0 .. H - 1 /\ size \in 1 .. H
      /\ header[heap_ptr] \in 1 .. H /\ header[heap_ptr] >= size /\ Header(heap_ptr)
      /\ heap_ptr + size \in Addr /\ EndAt(heap_ptr) \in Addr
      /\ header'[heap_ptr] = size /\ header'[heap_ptr + size] = header[heap_ptr] - size
      /\ \A a \in Addr : a # heap_ptr /\ a # heap_ptr + size => header'[a] = header[a]
      BY TakeFits
<1>2. PICK new \in given' : TheBlock(new)
      BY TakeGives
<1>3. new.nth = mallocs /\ End(new) = heap_ptr + size
      BY <1>2, TakeGives DEF End
<1>4. EndAt(heap_ptr) = H \/ \E b \in given : End(b) = EndAt(heap_ptr)
      BY <1>1 DEF HeapInv, EndsGiven
<1>5. ASSUME NEW a \in Addr, header'[a] # None
      PROVE  a + header'[a] = H \/ \E b \in given' : End(b) = a + header'[a]
  <2>1. CASE a = heap_ptr /\ a + header'[a] = heap_ptr + size
        BY <1>3, <2>1
  <2>2. CASE a = heap_ptr + size /\ a + header'[a] = EndAt(heap_ptr)
        BY <1>4, <2>2, TakeGives
  <2>3. CASE Header(a) /\ a + header'[a] = EndAt(a)
        BY <2>3, TakeGives DEF HeapInv, EndsGiven
  <2> QED
      BY <1>5, <2>1, <2>2, <2>3, TakeCuts
<1>6. ASSUME NEW a \in Addr, header'[a] = 0, a < H
      PROVE  \E b, d \in given' : b.nth < d.nth /\ End(b) = a /\ End(d) = a
  <2>1. CASE a = heap_ptr + size
    <3>1. EndAt(heap_ptr) = a
          BY <1>1, <1>6, <2>1 DEF EndAt
    <3>2. PICK b \in given : End(b) = a
          BY <1>4, <1>6, <3>1
    <3>3. b \in given' /\ b.nth < new.nth
          BY <1>3, TakeGives
    <3> QED
        BY <1>3, <2>1, <3>2, <3>3
  <2>2. CASE a # heap_ptr + size
    <3>1. header[a] = 0
          BY <1>1, <1>6, <2>2
    <3>2. PICK b \in given, d \in given : b.nth < d.nth /\ End(b) = a /\ End(d) = a
          BY <1>6, <3>1 DEF HeapInv, ZeroAfterReuse, TwiceGiven
    <3> QED
        BY <3>2, TakeGives
  <2> QED
      BY <2>1, <2>2
<1>7. header'[H] # None => header'[H] = 0 /\ \E b \in given' : End(b) = H
  <2>1. CASE heap_ptr + size = H
        BY <1>1, <1>3, <2>1 DEF EndAt
  <2>2. CASE heap_ptr + size # H
    <3>1. H \in Addr /\ header'[H] = header[H]
          BY <1>1, <2>2
    <3> QED
        BY <3>1, TakeGives DEF HeapInv, PastTheHeap
  <2> QED
      BY <2>1, <2>2
<1>8. \A b \in given' : End(b) <= H
      BY <1>1, TakeGives DEF HeapInv, PastTheHeap, End
<1> QED
    BY <1>5, <1>6, <1>7, <1>8 DEF EndsGiven, ZeroAfterReuse, PastTheHeap, TwiceGiven, Header, EndAt, End

-----------------------------------------------------------------------------
(* The other steps write no header. *)
LEMMA KeepsHeaders ==
  ASSUME HeapInv, UNCHANGED <<header, given>>,
         HeapTypeOK', MallocInv', heap_pc' = "boot" <=> heap_pc = "boot"
  PROVE  HeapInv'
<1> USE DEF HeapInv
<1>1. BootEmpty' /\ Chained' /\ Apart' /\ InOrOut'
      BY DEF BootEmpty, Chained, Apart, InOrOut, Header, EndAt, End
<1>2. EndsGiven' /\ ZeroAfterReuse' /\ PastTheHeap' /\ BlocksNest'
      BY DEF EndsGiven, ZeroAfterReuse, TwiceGiven, PastTheHeap, BlocksNest, Header, EndAt, End, Words
<1> QED
    BY <1>1, <1>2

LEMMA HeapInvStep == HeapInv /\ [HeapNext]_heapVars => HeapInv'
<1> SUFFICES ASSUME HeapInv, [HeapNext]_heapVars PROVE HeapInv'
    OBVIOUS
<1>0. HeapTypeOK /\ MallocInv /\ Chained
      BY DEF HeapInv
<1>1. CASE UNCHANGED heapVars
  <2>1. UNCHANGED <<header, given, heap_pc, size, heap_ptr, mallocs>>
        BY <1>1 DEF heapVars
  <2> QED
      BY <1>0, <2>1, KeepsHeaders DEF HeapTypeOK, MallocInv, Header
<1>2. CASE MemInit
      BY <1>2, BootStep
<1>3. ASSUME NEW n \in MallocSizes, Malloc(n)
      PROVE  HeapInv'
  <2>1. /\ heap_pc = "idle" /\ heap_pc' = "walk" /\ mallocs < MaxMallocs /\ mallocs' = mallocs + 1
        /\ size' = n + 1 /\ heap_ptr' = 0 /\ UNCHANGED <<header, given>> /\ n \in Nat
        BY <1>3 DEF Malloc
  <2>2. \A b \in given : /\ b \in [addr : 0 .. H - 1, size : 1 .. H, nth : 1 .. mallocs']
                         /\ b.nth < mallocs'
        BY <1>0, <2>1 DEF HeapTypeOK
  <2>3. HeapTypeOK' /\ MallocInv'
        BY <1>0, <2>1, <2>2 DEF HeapTypeOK, MallocInv, Chained, Header
  <2> QED
      BY <2>1, <2>3, KeepsHeaders
<1>4. CASE Take
      BY <1>4, TakeChains, TakeNests, TakeEnds DEF HeapInv
<1>5. CASE Pass
  <2>1. /\ heap_pc = "walk" /\ heap_ptr < H /\ heap_ptr' = EndAt(heap_ptr)
        /\ UNCHANGED <<header, given, heap_pc, size, mallocs>>
        BY <1>5 DEF Pass, InHeap, EndAt
  <2>2. heap_ptr' \in Addr /\ (heap_ptr' < H => Header(heap_ptr)')
        BY <1>0, <2>1 DEF MallocInv, Chained, HeapTypeOK, Header
  <2>3. HeapTypeOK' /\ MallocInv'
        BY <1>0, <2>1, <2>2 DEF HeapTypeOK, MallocInv
  <2> QED
      BY <2>1, <2>3, KeepsHeaders
<1>6. CASE Fail
  <2>1. heap_pc = "walk" /\ heap_pc' = "idle" /\ UNCHANGED <<header, given, size, heap_ptr, mallocs>>
        BY <1>6 DEF Fail
  <2>2. HeapTypeOK' /\ MallocInv'
        BY <1>0, <2>1 DEF HeapTypeOK, MallocInv
  <2> QED
      BY <2>1, <2>2, KeepsHeaders
<1> QED
    BY <1>1, <1>2, <1>3, <1>4, <1>5, <1>6 DEF HeapNext, MallocStep

(* The invariant from which the properties follow. *)
THEOREM HeapInvariant == HeapSafeSpec => []HeapInv
<1>1. HeapInit => HeapInv
      BY HeapInitInv
<1>2. HeapInv /\ [HeapNext]_heapVars => HeapInv'
      BY HeapInvStep
<1> QED
    BY <1>1, <1>2, PTL DEF HeapSafeSpec

(* The sizes in the headers never go below 0 or above the size of the      *)
(* heap, the blocks handed out begin inside it and are not empty, and a    *)
(* walk never looks further than the word past it.                         *)
THEOREM HeapTypeCorrect == HeapSafeSpec => []HeapTypeOK
<1>1. HeapInv => HeapTypeOK
      BY DEF HeapInv
<1> QED
    BY <1>1, HeapInvariant, PTL

(* Whatever malloc is asked for, and however often it hands out the same   *)
(* block, its walk reads headers inside the heap only, no block reaches    *)
(* past the heap, and what is written to the word past it is the 0 that    *)
(* follows a block handed out.                                             *)
THEOREM WalkStays == HeapSafeSpec => []WalkInHeap
<1>1. HeapInv => WalkInHeap
      BY DEF HeapInv, HeapTypeOK, Chained, MallocInv, PastTheHeap, WalkInHeap, Header, EndAt
<1> QED
    BY <1>1, HeapInvariant, PTL

(* Whatever the requests, malloc gives words a second time only inside the *)
(* block they were in: a larger request than those before gets new words.  *)
THEOREM BlocksNested == HeapSafeSpec => []BlocksNest
<1>1. HeapInv => BlocksNest
      BY DEF HeapInv
<1> QED
    BY <1>1, HeapInvariant, PTL

(* malloc's loop stays on a header only behind words handed out twice: as  *)
(* long as it hands out none of them twice, every header takes it further. *)
THEOREM WalkProgress == HeapSafeSpec => []StuckAfterReuse
<1>1. HeapInv => StuckAfterReuse
  <2> SUFFICES ASSUME HeapInv, Stuck
               PROVE  TwiceGiven(heap_ptr)
      BY DEF StuckAfterReuse, TwiceGiven
  <2>1. heap_ptr \in Addr /\ heap_ptr < H /\ header[heap_ptr] = 0
        BY DEF Stuck, HeapInv, HeapTypeOK
  <2> QED
      BY <2>1 DEF HeapInv, ZeroAfterReuse
<1> QED
    BY <1>1, HeapInvariant, PTL

-----------------------------------------------------------------------------
(* The VPU: for any set of handles, an infinite one included, and any      *)
(* number of calls, vpu_execute_code_with_stack runs on a locked stack of  *)
(* its own, and leaks a block only in a call that fails or whose unlock    *)
(* the firmware refused.                                                   *)
HIDE HeapAssumption DEF None, Addr
USE VpuAssumption DEF INVALID, NULL, ADDRESS

(* The call under way has not failed yet, nor tried to unlock its block.   *)
CountsLag ==
  /\ vpu_pc # "idle" => failures < executions
  /\ vpu_pc \notin {"idle", "free"} => refusals < executions

(* A call begins without a block; from the allocation on, the handle of    *)
(* mem is the block it was given, if any, and from the lock on it is one.  *)
HandleIsStack ==
  /\ vpu_pc = "allocate" => stack = 0
  /\ vpu_pc = "lock" => mem_handle = stack
  /\ vpu_pc = "give_up" => mem_handle = INVALID
  /\ vpu_pc \in {"execute", "unlock", "free"} =>
       mem_handle = stack /\ mem_handle \in held

(* The blocks that are not to be had: held, or freed but still locked.     *)
Taken == held \union locked

(* Before a call has its block, every block held was leaked by a failure,  *)
(* and every other one taken by an unlock that was refused; a block that   *)
(* is about to be freed while it is locked has just been counted so.       *)
TakenCount ==
  /\ IsFiniteSet(held) /\ IsFiniteSet(locked)
  /\ Cardinality(held) <=
       failures + (IF vpu_pc \in {"idle", "allocate"} THEN 0 ELSE 1)
  /\ Cardinality(Taken) <=
       failures + refusals +
         (IF \/ vpu_pc \in {"idle", "allocate"}
             \/ vpu_pc = "free" /\ mem_handle \in locked
          THEN 0 ELSE 1)

VpuInv == VpuTypeOK /\ CountsLag /\ HandleIsStack /\ RunsOnItsStack /\ TakenCount

LEMMA VpuInitInv == VpuInit => VpuInv
<1> SUFFICES ASSUME VpuInit PROVE VpuInv
    OBVIOUS
<1>1. VpuTypeOK
      BY DEF VpuInit, VpuTypeOK
<1>2. TakenCount
      BY FS_EmptySet DEF VpuInit, TakenCount, Taken
<1>3. CountsLag /\ HandleIsStack /\ RunsOnItsStack
      BY DEF VpuInit, CountsLag, HandleIsStack, RunsOnItsStack
<1> QED
    BY <1>1, <1>2, <1>3 DEF VpuInv

(* All of the invariant but the count. *)
PlaceInv == VpuTypeOK /\ CountsLag /\ HandleIsStack /\ RunsOnItsStack

LEMMA PlaceStep ==
  ASSUME PlaceInv, [VpuNext]_vpuVars
  PROVE  PlaceInv'
<1> USE DEF PlaceInv, VpuTypeOK, CountsLag, HandleIsStack, RunsOnItsStack, VpuReturn,
            Continue
<1>1. CASE UNCHANGED vpuVars
      BY <1>1 DEF vpuVars
<1>2. CASE ExecuteWithStack
      BY <1>2 DEF ExecuteWithStack
<1>3. CASE Allocate
  <2> USE DEF Allocate
  <2>1. ASSUME NEW h \in Handles \ (held \union locked),
               held' = held \union {h}, stack' = h, mem_handle' = h, Continue("lock")
        PROVE  PlaceInv'
        BY <1>3, <2>1
  <2>2. ASSUME mem_handle' = 0, Continue("lock"), UNCHANGED <<held, stack>>
        PROVE  PlaceInv'
    <3>1. stack = 0
          BY <1>3 DEF HandleIsStack
    <3> QED
        BY <1>3, <2>2, <3>1
  <2>3. ASSUME VpuReturn(1), UNCHANGED <<held, stack, mem_handle>>
        PROVE  PlaceInv'
        BY <1>3, <2>3
  <2> QED
      BY <1>3, <2>1, <2>2, <2>3
<1>4. CASE Lock
  <2> USE DEF Lock
  <2>1. ASSUME mem_handle \in held, locked' = locked \union {mem_handle},
               mem_ptr' = ADDRESS,
               Continue("execute"), UNCHANGED mem_handle
        PROVE  PlaceInv'
        BY <1>4, <2>1
  <2>2. ASSUME mem_handle' = INVALID, Continue("give_up"), UNCHANGED <<locked, mem_ptr>>
        PROVE  PlaceInv'
        BY <1>4, <2>2
  <2>3. ASSUME mem_ptr' = NULL, VpuReturn(1), UNCHANGED <<mem_handle, locked>>
        PROVE  PlaceInv'
        BY <1>4, <2>3
  <2> QED
      BY <1>4, <2>1, <2>2, <2>3
<1>5. CASE GiveUp
  <2>1. /\ UNCHANGED <<mem_handle, mem_ptr, stack, executions, refusals>>
        /\ vpu_pc = "give_up" /\ vpu_pc' = "idle" /\ vpu_result' = 1
        /\ failures' = failures + 1
        BY <1>5 DEF GiveUp
  <2>2. held' \subseteq held /\ locked' \subseteq locked
        BY <1>5 DEF GiveUp, FreeMemory
  <2> QED
      BY <2>1, <2>2
<1>6. CASE Execute
      BY <1>6 DEF Execute
<1>7. CASE Unlock
  <2>1. /\ UNCHANGED <<held, mem_handle, mem_ptr, stack, executions, vpu_result, failures>>
        /\ vpu_pc = "unlock" /\ vpu_pc' = "free"
        BY <1>7 DEF Unlock
  <2>2. locked' \subseteq locked /\ refusals' \in {refusals, refusals + 1}
        BY <1>7 DEF Unlock
  <2> QED
      BY <2>1, <2>2
<1>8. CASE Free
  <2>1. /\ UNCHANGED <<mem_handle, mem_ptr, stack, executions, refusals>>
        /\ vpu_pc = "free" /\ vpu_pc' = "idle" /\ vpu_result' \in {0, 3}
        /\ failures' \in {failures, failures + 1}
        BY <1>8 DEF Free
  <2>2. held' \subseteq held /\ locked' \subseteq locked
        BY <1>8 DEF Free, FreeMemory
  <2> QED
      BY <2>1, <2>2
<1> QED
    BY <1>1, <1>2, <1>3, <1>4, <1>5, <1>6, <1>7, <1>8 DEF VpuNext

LEMMA Counts ==
  ASSUME PlaceInv, TakenCount
  PROVE  /\ IsFiniteSet(Taken) /\ Cardinality(held) \in Nat /\ Cardinality(Taken) \in Nat
         /\ failures \in Nat /\ refusals \in Nat
<1>1. IsFiniteSet(Taken)
      BY FS_Union DEF TakenCount, Taken
<1>2. Cardinality(held) \in Nat /\ Cardinality(Taken) \in Nat
      BY <1>1, FS_CardinalityType DEF TakenCount
<1> QED
    BY <1>1, <1>2 DEF PlaceInv, VpuTypeOK

(* The block of the call under way is freed: if it was not locked, or is   *)
(* not any more, it is not taken any more.                                 *)
LEMMA FreeCount ==
  ASSUME PlaceInv, TakenCount, vpu_pc = "free", FreeMemory
  PROVE  /\ IsFiniteSet(held') /\ IsFiniteSet(locked')
         /\ Cardinality(held') = Cardinality(held) - 1
         /\ Cardinality(Taken') <= Cardinality(Taken)
         /\ mem_handle \notin locked => Cardinality(Taken') = Cardinality(Taken) - 1
<1>1. mem_handle \in held /\ mem_handle \in Taken
      BY DEF PlaceInv, HandleIsStack, Taken
<1>2. held' = held \ {mem_handle} /\ locked' \in {locked, locked \ {mem_handle}}
      BY DEF FreeMemory
<1>3. IsFiniteSet(held) /\ IsFiniteSet(locked) /\ IsFiniteSet(Taken) /\ Cardinality(Taken) \in Nat
      BY Counts DEF TakenCount
<1>4. IsFiniteSet(held') /\ Cardinality(held') = Cardinality(held) - 1
      BY <1>1, <1>2, <1>3, FS_RemoveElement
<1>5. IsFiniteSet(locked')
      BY <1>2, <1>3, FS_RemoveElement
<1>6. Taken' \subseteq Taken
      BY <1>2 DEF Taken
<1>7. Cardinality(Taken') <= Cardinality(Taken)
      BY <1>3, <1>6, FS_Subset
<1>8. ASSUME mem_handle \notin locked
      PROVE  Cardinality(Taken') = Cardinality(Taken) - 1
  <2>1. Taken' = Taken \ {mem_handle}
        BY <1>2, <1>8 DEF Taken
  <2> QED
      BY <1>1, <1>3, <2>1, FS_RemoveElement
<1> QED
    BY <1>4, <1>5, <1>7, <1>8

(* Only Allocate, Unlock and Free change the blocks taken. *)
LEMMA CountStep ==
  ASSUME PlaceInv, TakenCount, [VpuNext]_vpuVars
  PROVE  TakenCount'
<1> USE DEF PlaceInv, VpuTypeOK, VpuReturn, Continue
<1>0. /\ IsFiniteSet(Taken) /\ Cardinality(held) \in Nat /\ Cardinality(Taken) \in Nat
      /\ failures \in Nat /\ refusals \in Nat /\ IsFiniteSet(held) /\ IsFiniteSet(locked)
      BY Counts DEF TakenCount
<1>1. CASE UNCHANGED vpuVars
      BY <1>1 DEF vpuVars, TakenCount, Taken
<1>2. CASE ExecuteWithStack
      BY <1>2 DEF ExecuteWithStack, TakenCount, Taken
<1>3. CASE Allocate
  <2>1. ASSUME NEW h \in Handles \ (held \union locked), held' = held \union {h}
        PROVE  /\ IsFiniteSet(held') /\ Cardinality(held') = Cardinality(held) + 1
               /\ Cardinality(Taken') = Cardinality(Taken) + 1
    <3>1. h \notin held /\ h \notin Taken
          BY DEF Taken
    <3>2. Taken' = Taken \union {h}
          BY <1>3, <2>1 DEF Allocate, Taken
    <3> QED
        BY <1>0, <2>1, <3>1, <3>2, FS_AddElement
  <2>2. UNCHANGED held => Taken' = Taken
        BY <1>3 DEF Allocate, Taken
  <2>3. locked' = locked /\ vpu_pc = "allocate" /\ refusals' = refusals
        BY <1>3 DEF Allocate
  <2>4. \/ /\ \E h \in Handles \ (held \union locked) : held' = held \union {h}
           /\ vpu_pc' = "lock" /\ failures' = failures
        \/ UNCHANGED held /\ vpu_pc' = "lock" /\ failures' = failures
        \/ UNCHANGED held /\ vpu_pc' = "idle" /\ failures' = failures + 1
        BY <1>3 DEF Allocate
  <2> QED
      BY <1>0, <2>1, <2>2, <2>3, <2>4 DEF TakenCount
<1>4. CASE Lock
  <2>1. Taken' = Taken /\ held' = held /\ refusals' = refusals
        BY <1>4 DEF Lock, Taken
  <2>2. IsFiniteSet(locked')
        BY <1>0, <1>4, FS_AddElement DEF Lock
  <2>3. vpu_pc = "lock"
        BY <1>4 DEF Lock
  <2>4. \/ vpu_pc' \in {"execute", "give_up"} /\ failures' = failures
        \/ vpu_pc' = "idle" /\ failures' = failures + 1
        BY <1>4 DEF Lock
  <2> QED
      BY <1>0, <2>1, <2>2, <2>3, <2>4 DEF TakenCount
<1>5. CASE GiveUp
  <2>1. mem_handle = INVALID /\ INVALID \notin Handles
        BY <1>5 DEF GiveUp, HandleIsStack
  <2>2. held' = held /\ locked' = locked /\ failures' = failures + 1 /\ refusals' = refusals
        BY <1>5, <2>1 DEF GiveUp, FreeMemory
  <2>3. Taken' = Taken /\ vpu_pc' = "idle"
        BY <1>5, <2>2 DEF Taken, GiveUp
  <2> QED
      BY <1>0, <1>5, <2>2, <2>3 DEF TakenCount, GiveUp
<1>6. CASE Execute
      BY <1>0, <1>6 DEF Execute, TakenCount, Taken
<1>7. CASE Unlock
  <2>1. UNCHANGED <<held, mem_handle, failures>> /\ vpu_pc = "unlock" /\ vpu_pc' = "free"
        BY <1>7 DEF Unlock
  <2>2. mem_handle \in held
        BY <2>1 DEF HandleIsStack
  <2>3. CASE locked' = locked \ {mem_handle} /\ UNCHANGED refusals
    <3>1. Taken' = Taken /\ mem_handle' \notin locked'
          BY <2>1, <2>2, <2>3 DEF Taken
    <3>2. IsFiniteSet(locked')
          BY <1>0, <2>3, FS_RemoveElement
    <3> QED
        BY <1>0, <2>1, <2>3, <3>1, <3>2 DEF TakenCount
  <2>4. CASE refusals' = refusals + 1 /\ UNCHANGED locked
    <3>1. Taken' = Taken
          BY <2>1, <2>4 DEF Taken
    <3> QED
        BY <1>0, <2>1, <2>4, <3>1 DEF TakenCount
  <2> QED
      BY <1>7, <2>3, <2>4 DEF Unlock
<1>8. CASE Free
  <2>1. vpu_pc = "free" /\ vpu_pc' = "idle" /\ UNCHANGED <<mem_handle, refusals>>
        BY <1>8 DEF Free
  <2>2. CASE FreeMemory /\ VpuReturn(0)
    <3>1. /\ IsFiniteSet(held') /\ IsFiniteSet(locked')
          /\ Cardinality(held') = Cardinality(held) - 1
          /\ Cardinality(Taken') <= Cardinality(Taken)
          /\ mem_handle \notin locked => Cardinality(Taken') = Cardinality(Taken) - 1
          BY <2>1, <2>2, FreeCount
    <3>2. Cardinality(Taken') \in Nat
          BY <3>1, FS_Union, FS_CardinalityType DEF Taken
    <3> QED
        BY <1>0, <2>1, <2>2, <3>1, <3>2 DEF TakenCount
  <2>3. CASE VpuReturn(3) /\ UNCHANGED <<held, locked>>
        BY <1>0, <2>1, <2>3 DEF TakenCount, Taken
  <2> QED
      BY <1>8, <2>2, <2>3 DEF Free
<1> QED
    BY <1>1, <1>2, <1>3, <1>4, <1>5, <1>6, <1>7, <1>8 DEF VpuNext

(* The invariant from which the properties follow. *)
THEOREM VpuInvariant == VpuSpec => []VpuInv
<1>1. VpuInit => VpuInv
      BY VpuInitInv
<1>2. VpuInv /\ [VpuNext]_vpuVars => VpuInv'
      BY PlaceStep, CountStep DEF VpuInv, PlaceInv
<1> QED
    BY <1>1, <1>2, PTL DEF VpuSpec

(* Every variable of Vpu keeps its type: there are no more failures, and   *)
(* no more refused unlocks, than calls.                                    *)
THEOREM VpuTypeCorrect == VpuSpec => []VpuTypeOK
<1>1. VpuInv => VpuTypeOK
      BY DEF VpuInv
<1> QED
    BY <1>1, VpuInvariant, PTL

(* Whatever the firmware refuses, the VPU is never started on a stack that *)
(* another call was given or that is not locked in place.                  *)
THEOREM OwnStack == VpuSpec => []RunsOnItsStack
<1>1. VpuInv => RunsOnItsStack
      BY DEF VpuInv
<1> QED
    BY <1>1, VpuInvariant, PTL

(* However many calls are made, those that returned 0 leaked nothing that  *)
(* is still allocated, the others one block each at most; and no block is  *)
(* left locked but by an unlock that was refused.                          *)
THEOREM LeaksBounded == VpuSpec => []LeaksAreFailures
<1>1. VpuInv => LeaksAreFailures
  <2> SUFFICES ASSUME VpuInv PROVE LeaksAreFailures
      OBVIOUS
  <2>1. /\ Cardinality(held) \in Nat /\ Cardinality(Taken) \in Nat
        /\ failures \in Nat /\ refusals \in Nat
        BY Counts DEF VpuInv, PlaceInv
  <2> QED
      BY <2>1 DEF VpuInv, TakenCount, Taken, LeaksAreFailures
<1> QED
    BY <1>1, VpuInvariant, PTL

-----------------------------------------------------------------------------
(* The mailbox: for any requests laid out as the code's are, any buffer    *)
(* and any other mails, the callback sees the answers to its own request.  *)
HIDE VpuAssumption DEF INVALID, NULL, ADDRESS
USE DEF MAILBOX_ID, FOREIGN, OK, ERROR

SeenType == seen \in Seq((0 .. Size - 1) \X Nat \X Nat)

(* The mail of a request is in one place at a time: on its way to the      *)
(* firmware, with it, or on its way back.                                  *)
MailInv ==
  /\ outbox # <<>> => mailbox_pc = "receive" /\ ~answering /\ Len(outbox) = 1
  /\ answering => mailbox_pc = "receive" /\ outbox = <<>>
  /\ \A k \in 1 .. Len(inbox) : inbox[k] = MAILBOX_ID =>
       /\ mailbox_pc = "receive" /\ outbox = <<>> /\ ~answering
       /\ \A l \in 1 .. Len(inbox) : inbox[l] = MAILBOX_ID => l = k

(* The mail has been to the firmware. *)
Back == \/ answering \/ mailbox_pc = "check"
        \/ \E k \in 1 .. Len(inbox) : inbox[k] = MAILBOX_ID

(* The buffer holds the request, then the answer to each of its tags. *)
Used == 2 .. Len(request.words) - 1
Asked == \A i \in Used : sequence[i] = request.words[i + 1]
Answered ==
  \A i \in Used :
    sequence[i] = IF i - 3 \in request.tags THEN calls ELSE request.words[i + 1]

BufferInv ==
  /\ mailbox_pc # "idle" => Len(request.words) <= Size
  /\ mailbox_pc \in {"send", "receive", "check"} => seen = <<>>
  /\ mailbox_pc = "send" \/ outbox # <<>> => Asked
  /\ Back /\ sequence[1] = OK => Answered
  /\ mailbox_pc = "walk" => Answered

(* The walk is at a tag or at the 0 that ends them, and the callback was   *)
(* given the tags it has passed.                                           *)
WalkInv ==
  mailbox_pc = "walk" =>
    /\ ptr = 2 \/ \E t \in request.tags : ptr = Following(request, t)
    /\ \A i \in 1 .. Len(seen) :
         /\ seen[i][1] \in request.tags /\ seen[i][1] < ptr
         /\ seen[i][2] = request.words[seen[i][1] + 1] /\ seen[i][3] = calls
         /\ \A j \in 1 .. i - 1 : seen[j][1] < seen[i][1]
    /\ \A t \in request.tags : t < ptr => \E i \in 1 .. Len(seen) : seen[i][1] = t

MailboxInv ==
  MailboxTypeOK /\ SeenType /\ MailInv /\ BufferInv /\ WalkInv /\ CallbackSeesTheAnswer

LEMMA Sizes == /\ Size \in Nat \ {0} /\ Capacity \in Nat \ {0}
               /\ MaxOthers \in Nat /\ MaxCalls \in Nat
               /\ \A r \in Requests : r.words \in Seq(Nat) /\ Len(r.words) \in Nat
  BY MailboxAssumption

LEMMA Received ==
  ASSUME NEW S, NEW s \in Seq(S), s # <<>>
  PROVE  /\ Tail(s) \in Seq(S) /\ Len(s) \in Nat \ {0} /\ Len(Tail(s)) = Len(s) - 1
         /\ Head(s) = s[1] /\ \A k \in 1 .. Len(s) - 1 : Tail(s)[k] = s[k + 1]
  OBVIOUS

LEMMA Posted ==
  ASSUME NEW S, NEW s \in Seq(S), NEW e \in S
  PROVE  /\ Append(s, e) \in Seq(S) /\ Len(s) \in Nat /\ Len(Append(s, e)) = Len(s) + 1
         /\ \A k \in 1 .. Len(s) : Append(s, e)[k] = s[k]
         /\ Append(s, e)[Len(s) + 1] = e
  OBVIOUS

LEMMA Element ==
  ASSUME NEW S, NEW s \in Seq(S), NEW i \in 1 .. Len(s)
  PROVE  s[i] \in S
  OBVIOUS

LEMMA Quarter ==
  ASSUME NEW n \in Nat, n >= 4
  PROVE  n \div 4 \in Nat /\ n \div 4 >= 1
  OBVIOUS

(* What a tag of a request is made of, and where the next one is. *)
LEMMA Layout ==
  ASSUME NEW r \in Requests, NEW t \in r.tags
  PROVE  /\ Len(r.words) \in Nat /\ t \in 2 .. Len(r.words) - 5
         /\ r.words[t + 1] \in Nat \ {0} /\ r.words[t + 2] \in Nat
         /\ Following(r, t) \in t + 4 .. Len(r.words) - 1
         /\ \A u \in r.tags : u <= t \/ u >= Following(r, t)
         /\ \/ Following(r, t) \in r.tags
            \/ r.words[Following(r, t) + 1] = 0 /\ \A u \in r.tags : u < Following(r, t)
<1>1. /\ Len(r.words) \in Nat /\ t \in 2 .. Len(r.words) - 5 /\ r.words \in Seq(Nat)
      /\ r.words[t + 1] # 0 /\ r.words[t + 2] >= 4
      /\ Following(r, t) < Len(r.words)
      /\ \A u \in r.tags : u <= t \/ u >= Following(r, t)
      /\ \/ Following(r, t) \in r.tags
         \/ r.words[Following(r, t) + 1] = 0 /\ \A u \in r.tags : u < Following(r, t)
      BY MailboxAssumption, Sizes
<1>2. r.words[t + 1] \in Nat /\ r.words[t + 2] \in Nat
  <2>1. t + 1 \in 1 .. Len(r.words) /\ t + 2 \in 1 .. Len(r.words)
        BY <1>1
  <2> QED
      BY <1>1, <2>1, Element
<1>3. r.words[t + 2] \div 4 \in Nat /\ r.words[t + 2] \div 4 >= 1
      BY <1>1, <1>2, Quarter
<1>4. Following(r, t) \in t + 4 .. Len(r.words) - 1
  <2> DEFINE q == r.words[t + 2] \div 4
  <2>1. Following(r, t) = t + 3 + q
        BY DEF Following
  <2>2. q \in Nat /\ q >= 1
        BY <1>3
  <2>3. Len(r.words) \in Nat /\ t \in 2 .. Len(r.words) - 5 /\ Following(r, t) < Len(r.words)
        BY <1>1
  <2> HIDE DEF q
  <2> QED
      BY ONLY <2>1, <2>2, <2>3
<1> QED
    BY <1>1, <1>2, <1>4

(* The walk starts at a tag and ends at the first 0, and no answer is in   *)
(* what it reads of a tag but its value.                                   *)
Place(r, p) == p = 2 \/ \E t \in r.tags : p = Following(r, t)

LEMMA Places ==
  ASSUME NEW r \in Requests, NEW p, Place(r, p)
  PROVE  /\ p \in 2 .. Len(r.words) - 1 /\ p - 3 \notin r.tags
         /\ p \in r.tags => p - 2 \notin r.tags
         /\ p \in r.tags \/ (r.words[p + 1] = 0 /\ \A u \in r.tags : u < p)
<1>1. /\ 2 \in r.tags /\ r.tags \subseteq 2 .. Len(r.words) - 5
      /\ r.tags \subseteq Nat /\ Len(r.words) \in Nat
      BY MailboxAssumption, Sizes
<1>2. CASE p = 2
      BY <1>1, <1>2
<1>3. ASSUME NEW t \in r.tags, p = Following(r, t)
      PROVE  /\ p \in 2 .. Len(r.words) - 1 /\ p - 3 \notin r.tags
             /\ p \in r.tags => p - 2 \notin r.tags
             /\ p \in r.tags \/ (r.words[p + 1] = 0 /\ \A u \in r.tags : u < p)
  <2>1. p \in t + 4 .. Len(r.words) - 1 /\ t \in Nat /\ Len(r.words) \in Nat
        BY <1>3, Layout
  <2>2. ASSUME NEW u \in r.tags, u < p
        PROVE  u <= p - 4
    <3>1. u <= t \/ u >= p
          BY <1>3, Layout
    <3> QED
        BY <1>1, <2>1, <2>2, <3>1
  <2>3. p \in r.tags \/ (r.words[p + 1] = 0 /\ \A u \in r.tags : u < p)
        BY <1>3, Layout
  <2> QED
      BY <1>1, <2>1, <2>2, <2>3
<1> QED
    BY <1>2, <1>3 DEF Place

(* The buffer of a call is large enough, and where the walk is in it.       *)
LEMMA WalkPlace ==
  ASSUME MailboxInv, mailbox_pc = "walk"
  PROVE  /\ request \in Requests /\ Place(request, ptr)
         /\ Len(request.words) \in Nat /\ Len(request.words) <= Size
         /\ ptr \in 2 .. Len(request.words) - 1
         /\ sequence[ptr] = request.words[ptr + 1]
<1>1. /\ request \in Requests /\ Place(request, ptr)
      /\ Len(request.words) <= Size /\ Answered
      BY DEF MailboxInv, MailboxTypeOK, WalkInv, BufferInv, Place
<1>2. Len(request.words) \in Nat
      BY <1>1, Sizes
<1>3. ptr \in 2 .. Len(request.words) - 1 /\ ptr - 3 \notin request.tags
      BY <1>1, Places
<1> QED
    BY <1>1, <1>2, <1>3 DEF Answered, Used

(* At a tag, the walk reads what the firmware answered and goes to the     *)
(* next tag.                                                               *)
LEMMA AtTag ==
  ASSUME MailboxInv, mailbox_pc = "walk", sequence[ptr] # 0
  PROVE  /\ ptr \in request.tags
         /\ sequence[ptr + 3] = calls
         /\ NextTag = Following(request, ptr)
         /\ NextTag \in ptr + 4 .. Len(request.words) - 1
<1>1. /\ request \in Requests /\ Place(request, ptr)
      /\ Len(request.words) \in Nat /\ Len(request.words) <= Size
      /\ ptr \in 2 .. Len(request.words) - 1
      /\ sequence[ptr] = request.words[ptr + 1]
      BY WalkPlace
<1>2. ptr \in request.tags
      BY <1>1, Places
<1>3. ptr - 2 \notin request.tags
      BY <1>1, <1>2, Places
<1>4. ptr \in 2 .. Len(request.words) - 5
      BY <1>1, <1>2, Layout
<1>5. Answered
      BY DEF MailboxInv, BufferInv
<1>6. sequence[ptr + 3] = calls
      BY <1>1, <1>2, <1>4, <1>5 DEF Answered, Used
<1>7. sequence[ptr + 1] = request.words[ptr + 2]
      BY <1>1, <1>3, <1>4, <1>5 DEF Answered, Used
<1>8. request.words[ptr + 2] \in Nat /\ request.words[ptr + 2] >= 4
  <2>1. request.words[ptr + 2] >= 4
        BY <1>1, <1>2, MailboxAssumption
  <2> QED
      BY <1>1, <1>2, <2>1, Layout
<1>9. NextTag = Following(request, ptr)
  <2> DEFINE q == request.words[ptr + 2] \div 4
  <2>1. q \in Nat
        BY <1>8, Quarter
  <2>2. NextTag = ptr + 1 + q + 2 /\ Following(request, ptr) = ptr + 3 + q
        BY <1>7 DEF NextTag, Following
  <2> HIDE DEF q
  <2> QED
      BY <1>4, <2>1, <2>2
<1> QED
    BY <1>1, <1>2, <1>6, <1>9, Layout

(* The types. *)
LEMMA MailboxTypeStep ==
  ASSUME MailboxInv, [MailboxNext]_mailboxVars
  PROVE  MailboxTypeOK' /\ SeenType'
<1> USE Sizes DEF MailboxInv, MailboxTypeOK, SeenType, callVars
<1>0. /\ calls \in Nat /\ others \in Nat
      /\ calls < MaxCalls => calls + 1 \in 0 .. MaxCalls
      /\ others < MaxOthers => others + 1 \in 0 .. MaxOthers
      BY DEF MailboxInv
<1>1. CASE UNCHANGED mailboxVars
      BY <1>1 DEF mailboxVars
<1>2. ASSUME NEW r \in Requests, TooLarge(r)
      PROVE  MailboxTypeOK' /\ SeenType'
  <2>1. <<>> \in Seq((0 .. Size - 1) \X Nat \X Nat)
        OBVIOUS
  <2>2. calls' \in 0 .. MaxCalls
        BY <1>0, <1>2 DEF TooLarge
  <2> QED
      BY <1>2, <2>1, <2>2 DEF TooLarge
<1>3. ASSUME NEW r \in Requests, Copy(r)
      PROVE  MailboxTypeOK' /\ SeenType'
  <2>1. \A i \in 0 .. Size - 1 : i < Len(r.words) /\ i # 0 => r.words[i + 1] \in Nat
    <3>1. ASSUME NEW i \in 0 .. Size - 1, i < Len(r.words)
          PROVE  i + 1 \in 1 .. Len(r.words)
          BY <3>1
    <3> QED
        BY <3>1, Element
  <2>2. sequence' \in [0 .. Size - 1 -> Nat]
        BY <1>3, <2>1 DEF Copy
  <2> QED
      BY <1>3, <2>2 DEF Copy
<1>4. CASE Send
  <2>1. outbox = <<>>
        BY <1>4 DEF Send, MailInv
  <2>2. outbox' \in Seq({MAILBOX_ID}) /\ Len(outbox') = Len(outbox) + 1
        BY <1>4, Posted DEF Send
  <2>3. Len(outbox') <= Capacity
        BY <2>1, <2>2
  <2> QED
      BY <1>4, <2>2, <2>3 DEF Send
<1>5. CASE Receive
      BY <1>5, Received DEF Receive
<1>6. CASE Check
  <2>1. 2 \in 0 .. Size - 1
    <3>1. Place(request, 2) /\ request \in Requests
          BY DEF Place
    <3>2. 2 \in 2 .. Len(request.words) - 1 /\ Len(request.words) \in Nat
          BY <3>1, Places
    <3>3. Len(request.words) <= Size
          BY <1>6 DEF Check, BufferInv
    <3> QED
        BY <3>2, <3>3
  <2> QED
      BY <1>6, <2>1 DEF Check
<1>7. CASE Walk
  <2>1. /\ mailbox_pc = "walk" /\ sequence[ptr] # 0
        /\ seen' = Append(seen, <<ptr, sequence[ptr], sequence[ptr + 3]>>)
        BY <1>7 DEF Walk
  <2>2. NextTag \in 0 .. Size - 1 /\ ptr + 3 \in 0 .. Size - 1
    <3>1. /\ Len(request.words) \in Nat /\ Len(request.words) <= Size
          /\ ptr \in 2 .. Len(request.words) - 1
          BY <2>1, WalkPlace
    <3>2. NextTag \in ptr + 4 .. Len(request.words) - 1
          BY <2>1, AtTag
    <3> QED
        BY ONLY Sizes, <3>1, <3>2
  <2>3. ptr' \in 0 .. Size - 1
        BY <1>7, <2>2 DEF Walk, Return
  <2>4. <<ptr, sequence[ptr], sequence[ptr + 3]>> \in (0 .. Size - 1) \X Nat \X Nat
        BY <2>2
  <2>5. SeenType'
        BY <2>1, <2>4, Posted
  <2> QED
      BY <1>7, <2>3, <2>5 DEF Walk, Return
<1>8. CASE WalkEnd
      BY <1>8 DEF WalkEnd, Return
<1>9. CASE Answer
  <2>1. outbox' \in Seq({MAILBOX_ID}) /\ Len(outbox') <= Capacity
        BY <1>9, Received DEF Answer
  <2>2. ASSUME sequence' = [i \in 0 .. Size - 1 |->
                              IF i = 1 THEN OK
                              ELSE IF i - 3 \in request.tags THEN calls
                              ELSE sequence[i]]
        PROVE  sequence' \in [0 .. Size - 1 -> Nat]
    <3>1. \A i \in 0 .. Size - 1 : sequence[i] \in Nat
          OBVIOUS
    <3> QED
        BY ONLY <1>0, <2>2, <3>1 DEF OK
  <2>3. ASSUME sequence' = [sequence EXCEPT ![1] = ERROR]
        PROVE  sequence' \in [0 .. Size - 1 -> Nat]
        BY <2>3
  <2> QED
      BY <1>9, <2>1, <2>2, <2>3 DEF Answer
<1>10. CASE Reply
  <2>1. inbox' = Append(inbox, MAILBOX_ID) /\ Len(inbox) < Capacity
        BY <1>10 DEF Reply
  <2>2. inbox' \in Seq({MAILBOX_ID, FOREIGN}) /\ Len(inbox') <= Capacity
        BY <2>1, Posted
  <2> QED
      BY <1>10, <2>2 DEF Reply
<1>11. CASE OtherMail
  <2>1. inbox' = Append(inbox, FOREIGN) /\ Len(inbox) < Capacity
        BY <1>11 DEF OtherMail
  <2>2. inbox' \in Seq({MAILBOX_ID, FOREIGN}) /\ Len(inbox') <= Capacity
        BY <2>1, Posted
  <2>3. others' \in 0 .. MaxOthers
        BY <1>0, <1>11 DEF OtherMail
  <2> QED
      BY <1>11, <2>2, <2>3 DEF OtherMail
<1> QED
    BY <1>1, <1>2, <1>3, <1>4, <1>5, <1>6, <1>7, <1>8, <1>9, <1>10, <1>11
    DEF MailboxNext, CoreStep, Firmware

(* The mail. *)
LEMMA MailStep ==
  ASSUME MailboxInv, [MailboxNext]_mailboxVars
  PROVE  MailInv'
<1> USE Sizes DEF MailboxInv, MailboxTypeOK, MailInv, callVars
<1>1. CASE UNCHANGED mailboxVars
      BY <1>1 DEF mailboxVars
<1>2. ASSUME NEW r \in Requests, TooLarge(r)
      PROVE  MailInv'
      BY <1>2 DEF TooLarge
<1>3. ASSUME NEW r \in Requests, Copy(r)
      PROVE  MailInv'
      BY <1>3 DEF Copy
<1>4. CASE Send
      BY <1>4, Posted DEF Send
<1>5. CASE Receive
  <2>1. /\ mailbox_pc = "receive" /\ UNCHANGED <<outbox, answering>>
        /\ mailbox_pc' = "receive" \/ (mailbox_pc' = "check" /\ inbox[1] = MAILBOX_ID)
        /\ Len(inbox) \in Nat \ {0} /\ Len(inbox') = Len(inbox) - 1
        /\ \A k \in 1 .. Len(inbox) - 1 : inbox'[k] = inbox[k + 1]
        BY <1>5, Received DEF Receive
  <2>2. /\ outbox # <<>> => ~answering /\ Len(outbox) = 1
        /\ answering => outbox = <<>>
        /\ \A k \in 1 .. Len(inbox) : inbox[k] = MAILBOX_ID =>
             /\ outbox = <<>> /\ ~answering
             /\ \A l \in 1 .. Len(inbox) : inbox[l] = MAILBOX_ID => l = k
        BY <2>1
  <2>3. ASSUME NEW k \in 1 .. Len(inbox'), inbox'[k] = MAILBOX_ID
        PROVE  /\ k + 1 \in 1 .. Len(inbox) /\ inbox[k + 1] = MAILBOX_ID
               /\ inbox[1] # MAILBOX_ID
    <3>1. k + 1 \in 1 .. Len(inbox) /\ 1 \in 1 .. Len(inbox) /\ k + 1 # 1
          BY ONLY <2>1, <2>3
    <3> QED
        BY ONLY <2>1, <2>2, <2>3, <3>1
  <2>4. ASSUME NEW k \in 1 .. Len(inbox'), inbox'[k] = MAILBOX_ID,
               NEW l \in 1 .. Len(inbox'), inbox'[l] = MAILBOX_ID
        PROVE  l = k
    <3>1. l + 1 = k + 1
          BY <2>2, <2>3, <2>4
    <3> QED
        BY ONLY <3>1, <2>1, <2>4
  <2>5. ASSUME mailbox_pc' = "check"
        PROVE  outbox = <<>> /\ ~answering
    <3>1. 1 \in 1 .. Len(inbox) /\ inbox[1] = MAILBOX_ID
          BY ONLY <2>1, <2>5
    <3> QED
        BY ONLY <2>2, <3>1
  <2> QED
      BY ONLY <2>1, <2>2, <2>3, <2>4, <2>5 DEF MailInv
<1>6. CASE Check
      BY <1>6 DEF Check
<1>7. CASE Walk
      BY <1>7 DEF Walk, Return
<1>8. CASE WalkEnd
      BY <1>8 DEF WalkEnd, Return
<1>9. CASE Answer
  <2>1. Len(Tail(outbox)) = 0 /\ Tail(outbox) \in Seq({MAILBOX_ID})
        BY <1>9, Received DEF Answer
  <2>2. outbox' = <<>>
        BY <1>9, <2>1, Received DEF Answer
  <2> QED
      BY <1>9, <2>2 DEF Answer
<1>10. CASE Reply
       BY <1>10, Posted DEF Reply
<1>11. CASE OtherMail
  <2>1. /\ inbox' = Append(inbox, FOREIGN) /\ Len(inbox) \in Nat
        /\ Len(inbox') = Len(inbox) + 1
        /\ \A k \in 1 .. Len(inbox) : inbox'[k] = inbox[k]
        /\ inbox'[Len(inbox) + 1] # MAILBOX_ID
        BY <1>11, Posted DEF OtherMail
  <2>2. \A k \in 1 .. Len(inbox') : inbox'[k] = MAILBOX_ID =>
          k \in 1 .. Len(inbox) /\ inbox[k] = MAILBOX_ID
    <3>1. ASSUME NEW k \in 1 .. Len(inbox'), inbox'[k] = MAILBOX_ID
          PROVE  k \in 1 .. Len(inbox)
          BY ONLY <2>1, <3>1
    <3> QED
        BY <2>1, <3>1
  <2> QED
      BY <1>11, <2>1, <2>2 DEF OtherMail
<1> QED
    BY <1>1, <1>2, <1>3, <1>4, <1>5, <1>6, <1>7, <1>8, <1>9, <1>10, <1>11
    DEF MailboxNext, CoreStep, Firmware

(* The buffer. *)
LEMMA Unread ==
  ASSUME UNCHANGED <<sequence, request, calls>>
  PROVE  (Asked' <=> Asked) /\ (Answered' <=> Answered)
  BY DEF Asked, Answered, Used

LEMMA CopyBuffer ==
  ASSUME MailboxInv, NEW r \in Requests, Copy(r)
  PROVE  BufferInv'
<1> USE Sizes DEF MailboxInv, MailboxTypeOK
<1>1. /\ mailbox_pc' = "send" /\ outbox' = <<>> /\ answering' = FALSE
      /\ request' = r /\ seen' = <<>> /\ Len(r.words) <= Size
      /\ \A k \in 1 .. Len(inbox') : inbox'[k] # MAILBOX_ID
      BY DEF Copy, MailInv
<1>2. Asked'
  <2> SUFFICES ASSUME NEW i \in 2 .. Len(r.words) - 1
               PROVE  sequence'[i] = r.words[i + 1]
      BY <1>1 DEF Asked, Used
  <2>1. Len(r.words) \in Nat /\ Size \in Nat
        OBVIOUS
  <2>2. i \in 0 .. Size - 1 /\ i # 0 /\ i < Len(r.words)
        BY ONLY <1>1, <2>1
  <2>3. sequence' = [j \in 0 .. Size - 1 |->
                       IF j = 0 THEN Len(r.words)
                       ELSE IF j < Len(r.words) THEN r.words[j + 1]
                       ELSE sequence[j]]
        BY DEF Copy
  <2> QED
      BY ONLY <2>2, <2>3
<1>3. ~Back'
      BY <1>1 DEF Back
<1> QED
    BY <1>1, <1>2, <1>3 DEF BufferInv

LEMMA AnswerBuffer ==
  ASSUME MailboxInv, Answer
  PROVE  BufferInv'
<1> USE Sizes DEF MailboxInv, MailboxTypeOK, callVars
<1>1. /\ mailbox_pc = "receive" /\ Len(outbox) = 1 /\ outbox # <<>>
      BY DEF Answer, MailInv
<1>2. /\ Len(request.words) <= Size /\ seen = <<>> /\ Asked
      BY <1>1 DEF BufferInv
<1>3. /\ mailbox_pc' = "receive" /\ seen' = <<>> /\ request' = request /\ calls' = calls
      /\ outbox' = Tail(outbox)
      BY <1>1, <1>2 DEF Answer
<1>4. outbox' = <<>>
  <2>1. Tail(outbox) \in Seq({MAILBOX_ID}) /\ Len(Tail(outbox)) = 0
        BY <1>1, Received
  <2> QED
      BY <1>3, <2>1, Received
<1>5. 1 \in 0 .. Size - 1 /\ Used \subseteq 0 .. Size - 1 /\ \A i \in Used : i # 1
  <2>1. Place(request, 2) /\ request \in Requests
        BY DEF Place
  <2>2. 2 \in 2 .. Len(request.words) - 1 /\ Len(request.words) \in Nat
        BY <2>1, Places
  <2>3. Size \in Nat /\ Len(request.words) <= Size
        BY <1>2
  <2> QED
      BY ONLY <2>2, <2>3 DEF Used
<1>6. CASE sequence' = [i \in 0 .. Size - 1 |->
                          IF i = 1 THEN OK
                          ELSE IF i - 3 \in request.tags THEN calls
                          ELSE sequence[i]]
  <2>1. \A i \in Used : sequence'[i] = IF i - 3 \in request.tags THEN calls
                                       ELSE request.words[i + 1]
        BY <1>2, <1>5, <1>6 DEF Asked
  <2>2. Answered'
        BY <1>3, <2>1 DEF Answered, Used
  <2> QED
      BY <1>2, <1>3, <1>4, <2>2 DEF BufferInv
<1>7. CASE sequence' = [sequence EXCEPT ![1] = ERROR]
  <2>1. sequence'[1] # OK
        BY <1>5, <1>7
  <2> QED
      BY <1>2, <1>3, <1>4, <2>1 DEF BufferInv
<1> QED
    BY <1>6, <1>7 DEF Answer

LEMMA BufferStep ==
  ASSUME MailboxInv, [MailboxNext]_mailboxVars
  PROVE  BufferInv'
<1> USE Sizes DEF MailboxInv, MailboxTypeOK, callVars
<1>1. CASE UNCHANGED mailboxVars
      BY <1>1, Unread DEF mailboxVars, BufferInv, Back
<1>2. ASSUME NEW r \in Requests, TooLarge(r)
      PROVE  BufferInv'
      BY <1>2 DEF TooLarge, BufferInv, MailInv, Back
<1>3. ASSUME NEW r \in Requests, Copy(r)
      PROVE  BufferInv'
      BY <1>3, CopyBuffer
<1>4. CASE Send
      BY <1>4, Unread DEF Send, BufferInv, Back
<1>5. CASE Receive
  <2>1. /\ mailbox_pc = "receive" /\ seen = <<>>
        /\ Len(request.words) <= Size
        /\ Back /\ sequence[1] = OK => Answered
        /\ outbox # <<>> => Asked
        BY <1>5 DEF Receive, BufferInv
  <2>2. /\ mailbox_pc' = "receive" \/ (mailbox_pc' = "check" /\ inbox[1] = MAILBOX_ID)
        /\ \A k \in 1 .. Len(inbox') : k + 1 \in 1 .. Len(inbox) /\ inbox'[k] = inbox[k + 1]
        /\ Len(inbox) \in Nat \ {0}
        BY <1>5, <2>1, Received DEF Receive
  <2>3. Back' => Back
        BY <1>5, <2>2 DEF Receive, Back
  <2>4. UNCHANGED <<sequence, request, calls, seen, outbox>>
        BY <1>5 DEF Receive
  <2> QED
      BY <2>1, <2>2, <2>3, <2>4, Unread DEF BufferInv
<1>6. CASE Check
      BY <1>6, Unread DEF Check, BufferInv, Back, MailInv
<1>7. CASE Walk
      BY <1>7, Unread DEF Walk, Return, BufferInv, Back, MailInv
<1>8. CASE WalkEnd
      BY <1>8, Unread DEF WalkEnd, Return, BufferInv, Back, MailInv
<1>9. CASE Answer
      BY <1>9, AnswerBuffer
<1>10. CASE Reply
  <2>1. UNCHANGED <<sequence, request, calls, seen, outbox, mailbox_pc>>
        BY <1>10 DEF Reply
  <2>2. Back
        BY <1>10 DEF Reply, Back
  <2> QED
      BY <2>1, <2>2, Unread DEF BufferInv
<1>11. CASE OtherMail
  <2>1. UNCHANGED <<sequence, request, calls, seen, outbox, mailbox_pc, answering>>
        BY <1>11 DEF OtherMail
  <2>2. /\ inbox' = Append(inbox, FOREIGN) /\ Len(inbox) \in Nat
        /\ Len(inbox') = Len(inbox) + 1
        /\ \A k \in 1 .. Len(inbox) : inbox'[k] = inbox[k]
        /\ inbox'[Len(inbox) + 1] # MAILBOX_ID
        BY <1>11, Posted DEF OtherMail
  <2>3. \A k \in 1 .. Len(inbox') : inbox'[k] = MAILBOX_ID =>
          k \in 1 .. Len(inbox) /\ inbox[k] = MAILBOX_ID
    <3>1. ASSUME NEW k \in 1 .. Len(inbox'), inbox'[k] = MAILBOX_ID
          PROVE  k \in 1 .. Len(inbox)
          BY ONLY <2>2, <3>1
    <3> QED
        BY <2>2, <3>1
  <2>4. Back' => Back
        BY <2>1, <2>3 DEF Back
  <2> QED
      BY <2>1, <2>4, Unread DEF BufferInv
<1> QED
    BY <1>1, <1>2, <1>3, <1>4, <1>5, <1>6, <1>7, <1>8, <1>9, <1>10, <1>11
    DEF MailboxNext, CoreStep, Firmware

(* The walk. *)
LEMMA WalkOn ==
  ASSUME MailboxInv, Walk
  PROVE  WalkInv'
<1> USE Sizes DEF MailboxInv, MailboxTypeOK, callVars
<1> SUFFICES ASSUME mailbox_pc' = "walk"
             PROVE  WalkInv'
    BY DEF WalkInv
<1>1. /\ mailbox_pc = "walk" /\ sequence[ptr] # 0
      /\ ptr' = NextTag /\ request' = request /\ calls' = calls
      /\ seen' = Append(seen, <<ptr, sequence[ptr], sequence[ptr + 3]>>)
      BY DEF Walk, Return
<1>2. /\ ptr \in request.tags /\ sequence[ptr + 3] = calls
      /\ ptr' = Following(request, ptr) /\ sequence[ptr] = request.words[ptr + 1]
      BY <1>1, AtTag, WalkPlace
<1>3. /\ ptr' \in Nat /\ ptr \in Nat /\ ptr < ptr' /\ request.tags \subseteq Nat
      /\ \A t \in request.tags : t <= ptr \/ t >= ptr'
  <2>1. /\ Len(request.words) \in Nat /\ ptr \in 2 .. Len(request.words) - 5
        /\ ptr' \in ptr + 4 .. Len(request.words) - 1
        /\ \A t \in request.tags : t <= ptr \/ t >= ptr'
        BY <1>2, Layout
  <2>2. request.tags \subseteq Nat
    <3>1. request.tags \subseteq 2 .. Len(request.words) - 5
          BY MailboxAssumption
    <3> QED
        BY ONLY <2>1, <3>1
  <2> QED
      BY ONLY <2>1, <2>2
<1> DEFINE n == Len(seen)
<1>4. /\ n \in Nat /\ Len(seen') = n + 1
      /\ \A i \in 1 .. n : seen'[i] = seen[i]
      /\ seen'[n + 1] = <<ptr, sequence[ptr], sequence[ptr + 3]>>
  <2>1. seen \in Seq((0 .. Size - 1) \X Nat \X Nat)
        BY DEF SeenType
  <2>2. <<ptr, sequence[ptr], sequence[ptr + 3]>> \in (0 .. Size - 1) \X Nat \X Nat
    <3>1. ptr + 3 \in 0 .. Size - 1
      <4>1. ptr \in 2 .. Len(request.words) - 5 /\ Len(request.words) \in Nat
            BY <1>2, Layout
      <4>2. Len(request.words) <= Size
            BY <1>1, WalkPlace
      <4> QED
          BY ONLY Sizes, <4>1, <4>2
    <3> QED
        BY <3>1
  <2> QED
      BY <1>1, <2>1, <2>2, Posted
<1> HIDE DEF n
<1>5. /\ \A i \in 1 .. n :
           /\ seen[i][1] \in request.tags /\ seen[i][1] < ptr
           /\ seen[i][2] = request.words[seen[i][1] + 1] /\ seen[i][3] = calls
           /\ \A j \in 1 .. i - 1 : seen[j][1] < seen[i][1]
      /\ \A t \in request.tags : t < ptr => \E i \in 1 .. n : seen[i][1] = t
      BY <1>1 DEF WalkInv, n
<1>6. ASSUME NEW i \in 1 .. n + 1
      PROVE  /\ seen'[i][1] \in request.tags /\ seen'[i][1] < ptr'
             /\ seen'[i][2] = request.words[seen'[i][1] + 1] /\ seen'[i][3] = calls
             /\ \A j \in 1 .. i - 1 : seen'[j][1] < seen'[i][1]
  <2>1. CASE i \in 1 .. n
    <3>1. \A j \in 1 .. i - 1 : j \in 1 .. n
          BY <1>4, <2>1
    <3>2. seen[i][1] \in Nat /\ seen[i][1] < ptr'
          BY ONLY <1>3, <1>5, <2>1
    <3> QED
        BY <1>4, <1>5, <2>1, <3>1, <3>2
  <2>2. CASE i = n + 1
    <3>1. \A j \in 1 .. i - 1 : seen'[j][1] < ptr
      <4>1. ASSUME NEW j \in 1 .. i - 1
            PROVE  j \in 1 .. n
            BY ONLY <1>4, <2>2
      <4> QED
          BY ONLY <1>4, <1>5, <4>1
    <3>2. /\ seen'[i][1] = ptr /\ seen'[i][2] = request.words[ptr + 1]
          /\ seen'[i][3] = calls
          BY ONLY <1>2, <1>4, <2>2
    <3> QED
        BY ONLY <1>2, <1>3, <3>1, <3>2
  <2> QED
      BY <1>4, <2>1, <2>2
<1>7. ASSUME NEW t \in request.tags, t < ptr'
      PROVE  \E i \in 1 .. n + 1 : seen'[i][1] = t
  <2>1. CASE t = ptr
    <3>1. n + 1 \in 1 .. n + 1 /\ seen'[n + 1][1] = t
          BY <1>4, <2>1
    <3> QED
        BY <3>1
  <2>2. CASE t < ptr
    <3>1. PICK i \in 1 .. n : seen[i][1] = t
          BY <1>5, <2>2
    <3>2. i \in 1 .. n + 1 /\ seen'[i][1] = t
          BY <1>4, <3>1
    <3> QED
        BY <3>2
  <2> QED
      BY ONLY <1>3, <1>7, <2>1, <2>2
<1> QED
    BY <1>1, <1>2, <1>4, <1>6, <1>7 DEF WalkInv

LEMMA WalkStep ==
  ASSUME MailboxInv, [MailboxNext]_mailboxVars
  PROVE  WalkInv'
<1> USE DEF MailboxInv, callVars
<1>1. CASE UNCHANGED mailboxVars
      BY <1>1 DEF mailboxVars, WalkInv
<1>2. ASSUME NEW r \in Requests, TooLarge(r) \/ Copy(r)
      PROVE  WalkInv'
      BY <1>2 DEF TooLarge, Copy, WalkInv
<1>3. CASE Send \/ WalkEnd
      BY <1>3 DEF Send, WalkEnd, Return, WalkInv
<1>4. CASE Receive
      BY <1>4 DEF Receive, WalkInv
<1>5. CASE Check
  <2>1. seen = <<>> /\ seen' = seen
        BY <1>5 DEF Check, BufferInv
  <2>2. \A t \in request.tags : ~(t < 2)
    <3>1. request \in Requests
          BY DEF MailboxTypeOK
    <3>2. ASSUME NEW t \in request.tags
          PROVE  ~(t < 2)
          BY <3>1, Layout
    <3> QED
        BY <3>2
  <2>3. mailbox_pc' = "walk" => ptr' = 2 /\ request' = request
        BY <1>5 DEF Check
  <2>4. Len(seen') = 0
        BY <2>1
  <2> QED
      BY <2>2, <2>3, <2>4 DEF WalkInv
<1>6. CASE Walk
      BY <1>6, WalkOn
<1>7. CASE Answer \/ Reply \/ OtherMail
      BY <1>7 DEF Answer, Reply, OtherMail, WalkInv
<1> QED
    BY <1>1, <1>2, <1>3, <1>4, <1>5, <1>6, <1>7
    DEF MailboxNext, CoreStep, Firmware

(* At the 0 that ends the tags, the walk has passed them all. *)
LEMMA SeenStep ==
  ASSUME MailboxInv, [MailboxNext]_mailboxVars
  PROVE  CallbackSeesTheAnswer'
<1> USE DEF MailboxInv, callVars
<1>1. CASE UNCHANGED mailboxVars
      BY <1>1 DEF mailboxVars, CallbackSeesTheAnswer
<1>2. ASSUME NEW r \in Requests, TooLarge(r) \/ Copy(r)
      PROVE  CallbackSeesTheAnswer'
      BY <1>2 DEF TooLarge, Copy, CallbackSeesTheAnswer
<1>3. CASE Send \/ Receive
      BY <1>3 DEF Send, Receive, CallbackSeesTheAnswer
<1>4. CASE Check
      BY <1>4 DEF Check, CallbackSeesTheAnswer
<1>5. CASE Walk
      BY <1>5 DEF Walk, Return, CallbackSeesTheAnswer
<1>6. CASE WalkEnd
  <2>1. /\ mailbox_pc = "walk" /\ sequence[ptr] = 0
        /\ seen' = seen /\ request' = request /\ calls' = calls
        BY <1>6 DEF WalkEnd
  <2>2. /\ request \in Requests /\ Place(request, ptr)
        /\ request.words[ptr + 1] = 0
        BY <2>1, WalkPlace
  <2>3. ptr \notin request.tags
        BY <2>2, Layout
  <2>4. \A u \in request.tags : u < ptr
        BY <2>2, <2>3, Places
  <2>5. {s[1] : s \in {seen[i] : i \in 1 .. Len(seen)}} = request.tags
    <3> DEFINE T == {s[1] : s \in {seen[i] : i \in 1 .. Len(seen)}}
    <3>1. \A i \in 1 .. Len(seen) : seen[i][1] \in request.tags
          BY <2>1 DEF WalkInv
    <3>2. \A t \in request.tags : \E i \in 1 .. Len(seen) : seen[i][1] = t
          BY <2>1, <2>4 DEF WalkInv
    <3>3. ASSUME NEW t
          PROVE  t \in T <=> \E i \in 1 .. Len(seen) : t = seen[i][1]
          OBVIOUS
    <3> HIDE DEF T
    <3>4. T \subseteq request.tags
          BY ONLY <3>1, <3>3
    <3>5. request.tags \subseteq T
          BY ONLY <3>2, <3>3
    <3>6. T = request.tags
          BY ONLY <3>4, <3>5
    <3> QED
        BY ONLY <3>6 DEF T
  <2> QED
      BY <2>1, <2>5 DEF WalkInv, CallbackSeesTheAnswer
<1>7. CASE Answer \/ Reply \/ OtherMail
      BY <1>7 DEF Answer, Reply, OtherMail, CallbackSeesTheAnswer
<1> QED
    BY <1>1, <1>2, <1>3, <1>4, <1>5, <1>6, <1>7
    DEF MailboxNext, CoreStep, Firmware

LEMMA MailboxInitInv == MailboxInit => MailboxInv
<1> SUFFICES ASSUME MailboxInit
             PROVE  MailboxInv
    OBVIOUS
<1>1. \A S : <<>> \in Seq(S)
      OBVIOUS
<1>2. 0 \in 0 .. Size - 1 /\ 0 <= Capacity
      BY Sizes
<1>3. MailboxTypeOK
  <2>1. sequence \in [0 .. Size - 1 -> Nat]
        BY DEF MailboxInit
  <2>2. calls \in 0 .. MaxCalls /\ others \in 0 .. MaxOthers
        BY Sizes DEF MailboxInit
  <2>3. Len(inbox) = 0 /\ Len(outbox) = 0
        BY DEF MailboxInit
  <2> QED
      BY <1>1, <1>2, <2>1, <2>2, <2>3 DEF MailboxInit, MailboxTypeOK
<1>4. SeenType
      BY <1>1 DEF MailboxInit, SeenType
<1>5. MailInv /\ BufferInv /\ WalkInv /\ CallbackSeesTheAnswer
      BY DEF MailboxInit, MailInv, BufferInv, Back, WalkInv, CallbackSeesTheAnswer
<1> QED
    BY <1>3, <1>4, <1>5 DEF MailboxInv

(* The invariant from which the properties follow. *)
THEOREM MailboxInvariant == MailboxSafeSpec => []MailboxInv
<1>1. MailboxInit => MailboxInv
      BY MailboxInitInv
<1>2. MailboxInv /\ [MailboxNext]_mailboxVars => MailboxInv'
      BY MailboxTypeStep, MailStep, BufferStep, WalkStep, SeenStep DEF MailboxInv
<1> QED
    BY <1>1, <1>2, PTL DEF MailboxSafeSpec

(* The types of Mailbox: neither queue overflows, and the walk stays in    *)
(* the buffer, whatever is left in it behind the request.                  *)
THEOREM MailboxTypeCorrect == MailboxSafeSpec => []MailboxTypeOK
<1>1. MailboxInv => MailboxTypeOK
      BY DEF MailboxInv
<1> QED
    BY <1>1, MailboxInvariant, PTL

(* A call that returns true gave its callback every tag it asked, in order *)
(* and answered, whatever other mail came in and whatever an earlier call  *)
(* left in the buffer.                                                     *)
THEOREM AnswersSeen == MailboxSafeSpec => []CallbackSeesTheAnswer
<1>1. MailboxInv => CallbackSeesTheAnswer
      BY DEF MailboxInv
<1> QED
    BY <1>1, MailboxInvariant, PTL

=============================================================================
