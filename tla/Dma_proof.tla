------------------------------ MODULE Dma_proof ------------------------------
(***************************************************************************)
(* What the run of MCDma checks for two copies, proved for any copies, any *)
(* memory and any widths of a line and of the step of the maintenance:     *)
(* the engine works on what the core wrote, and what it has copied is what *)
(* the display and the cores find, whatever the cache does meanwhile.      *)
(***************************************************************************)
EXTENDS Dma, TLAPS

-----------------------------------------------------------------------------
(* What cache_invalidate_range_to_poc covers, for every width and every    *)
(* range: all of a range of words, and no line outside it.                 *)
USE WidthAssumption

LEMMA Division ==
  ASSUME NEW n \in Nat
  PROVE  /\ n \div Width \in Nat /\ n % Width \in 0 .. Width - 1
         /\ n = (n \div Width) * Width + (n % Width)
<1>1. n % Width \in 0 .. Width - 1
      OBVIOUS
<1>2. n \div Width \in Nat
      OBVIOUS
<1>3. n = Width * (n \div Width) + (n % Width)
      OBVIOUS
<1> QED
    BY <1>1, <1>2, <1>3

(* The line the loop starts from is the line of the first byte. *)
LEMMA FirstLine ==
  ASSUME NEW low \in Nat
  PROVE  First(low) <= low /\ low < First(low) + Width
  BY Division DEF First

(* The loop ends after the line of the last byte, and not a line later,    *)
(* unless the last byte is the first of its line.                          *)
LEMMA LastLine ==
  ASSUME NEW last \in Nat, last % Width # 0
  PROVE  /\ last < ((last + Width - 1) \div Width) * Width
         /\ ((last + Width - 1) \div Width) * Width <= last + Width - 1
<1> DEFINE q == last \div Width
           r == last % Width
           e == (last + Width - 1) \div Width
<1>1. q \in Nat /\ r \in 1 .. Width - 1 /\ last = q * Width + r
      BY Division
<1>2. last + Width - 1 = (q + 1) * Width + (r - 1)
      BY <1>1
<1>3. e = q + 1
      BY <1>1, <1>2
<1>4. e * Width = q * Width + Width
      BY <1>1, <1>3
<1> QED
    BY <1>1, <1>4

(* The last byte of a range of words is never the first byte of a line.    *)
LEMMA LastByte ==
  ASSUME NEW k \in Nat, NEW word \in Nat, word > 1, Width = k * word,
         NEW m \in Nat, m > 0
  PROVE  (word * m - 1) \in Nat /\ (word * m - 1) % Width # 0
<1>1. word * m - 1 \in Nat
      OBVIOUS
<1>2. SUFFICES ASSUME (word * m - 1) % Width = 0 PROVE FALSE
      BY <1>1
<1> DEFINE q == (word * m - 1) \div Width
<1>3. q \in Nat /\ word * m - 1 = q * Width
      BY <1>1, <1>2, Division
<1>4. word * (m - q * k) = 1
      BY <1>3
<1>5. m - q * k > 0
      BY <1>4, <1>3
<1> QED
    BY <1>4, <1>5, <1>3

(* For a range of whole words, the loop of cache_invalidate_range_to_poc   *)
(* starts at or below the range, ends above its last byte, and ends less   *)
(* than a line above it: every line of the range is cleaned, and no other. *)
THEOREM RangeCovered ==
  ASSUME NEW word \in Nat, word > 1,
         NEW k \in Nat, Width = k * word,
         NEW from \in Nat, NEW len \in Nat, len > 0
  PROVE  LET low == from * word
             last  == (from + len) * word - 1
             end   == End(low, len * word)
         IN  /\ First(low) <= low /\ low < First(low) + Width
             /\ last < end /\ end < last + Width
<1> DEFINE last == word * (from + len) - 1
<1>1. last \in Nat /\ last % Width # 0
  <2>1. from + len \in Nat /\ from + len > 0
        OBVIOUS
  <2> QED
      BY <2>1, LastByte
<1>2. End(from * word, len * word) = ((last + Width - 1) \div Width) * Width
  <2>1. from * word + len * word - 1 + Width - 1 = last + Width - 1
        OBVIOUS
  <2> QED
      BY <2>1 DEF End
<1>3. from * word \in Nat /\ (from + len) * word - 1 = last
      OBVIOUS
<1> HIDE DEF last
<1>4. /\ last < ((last + Width - 1) \div Width) * Width
      /\ ((last + Width - 1) \div Width) * Width <= last + Width - 1
      BY <1>1, LastLine
<1> QED
    BY <1>1, <1>2, <1>3, <1>4, FirstLine

(* Multiples of a number, and the quotients between them. *)
LEMMA Between ==
  ASSUME NEW n \in Nat, NEW d \in Nat \ {0}, NEW q \in Nat
  PROVE  /\ n \div d \in Nat
         /\ q * d <= n => q <= n \div d
         /\ n < q * d => n \div d < q
         /\ (n \div d) * d <= n /\ n < (n \div d) * d + d
<1> DEFINE e == n \div d
           r == n % d
<1>1. e \in Int /\ r \in 0 .. d - 1 /\ n = d * e + r
  <2>1. e \in Int
        OBVIOUS
  <2>2. r \in 0 .. d - 1
        OBVIOUS
  <2>3. n = d * e + r
        OBVIOUS
  <2> QED
      BY <2>1, <2>2, <2>3
<1> HIDE DEF e, r
<1>2. e \in Nat
  <2>1. SUFFICES ASSUME e <= -1 PROVE FALSE
        BY <1>1
  <2>2. d * e <= d * (-1)
        BY <1>1, <2>1
  <2> QED
      BY <1>1, <2>2
<1>3. ASSUME q * d <= n
      PROVE  q <= e
  <2>1. SUFFICES ASSUME e + 1 <= q PROVE FALSE
        BY <1>2
  <2>2. (e + 1) * d <= q * d
        BY <1>2, <2>1
  <2> QED
      BY <1>1, <1>2, <1>3, <2>2
<1>4. ASSUME n < q * d
      PROVE  e < q
  <2>1. SUFFICES ASSUME q <= e PROVE FALSE
        BY <1>2
  <2>2. q * d <= e * d
        BY <1>2, <2>1
  <2> QED
      BY <1>1, <1>2, <1>4, <2>2
<1>5. e * d <= n /\ n < e * d + d
      BY <1>1, <1>2
<1> QED
    BY <1>2, <1>3, <1>4, <1>5 DEF e

(* The step of the loop divides the line, so that the bytes of a step are  *)
(* in one line.                                                            *)
LEMMA StepInLine ==
  ASSUME DmaAssumption, NEW b \in Nat, b % Width = 0,
         NEW a \in Nat, b <= a * WordBytes, a * WordBytes < b + Width
  PROVE  LineOf(a) = LineOf(b \div WordBytes)
<1>1. LineWords \in Nat \ {0} /\ WordBytes \in Nat \ {0}
      BY DEF DmaAssumption
<1> DEFINE L == LineWords
           B == WordBytes
           q == a \div L
           k == (L * B) \div Width
           m == b \div Width
           c == b \div B
<1>2. k \in Nat /\ L * B = k * Width
  <2> DEFINE n == L * B
  <2>1. n \in Nat /\ n % Width = 0
        BY <1>1 DEF DmaAssumption
  <2> HIDE DEF n
  <2>2. n \div Width \in Nat /\ n = (n \div Width) * Width
        BY <2>1, Division
  <2> QED
      BY <2>2 DEF n
<1>3. m \in Nat /\ b = m * Width
      BY Division
<1>4. q \in Nat /\ q * L <= a /\ a < q * L + L
      BY <1>1, Between
<1> HIDE DEF q, k, m, L, B
<1>5. q * L * B <= a * B /\ (a + 1) * B <= (q * L + L) * B
  <2>1. L \in Nat /\ B \in Nat
        BY <1>1 DEF L, B
  <2>2. q * L \in Nat /\ a + 1 <= q * L + L
        BY <1>4, <2>1
  <2>3. q * L * B <= a * B
        BY <1>4, <2>1, <2>2
  <2>4. (a + 1) * B <= (q * L + L) * B
        BY <1>4, <2>1, <2>2
  <2> QED
      BY <2>3, <2>4
<1>6. (q * k) * Width = q * L * B /\ ((q + 1) * k) * Width = (q * L + L) * B
  <2>1. L \in Nat /\ B \in Nat
        BY <1>1 DEF L, B
  <2>2. q * (k * Width) = q * (L * B)
        BY <1>2
  <2>3. (q * k) * Width = q * (k * Width) /\ q * L * B = q * (L * B)
        BY <1>2, <1>4, <2>1
  <2>4. ((q + 1) * k) * Width = q * (k * Width) + k * Width
        BY <1>2, <1>4, <2>1
  <2>5. (q * L + L) * B = q * (L * B) + L * B
        BY <1>4, <2>1
  <2> QED
      BY <1>2, <2>2, <2>3, <2>4, <2>5
<1>7. q * L * B <= b /\ b < (q * L + L) * B
  <2>1. /\ a * B \in Nat /\ (a + 1) * B = a * B + B /\ B \in Nat \ {0}
        /\ b <= a * B /\ a * B < b + Width
        BY <1>1 DEF L, B
  <2>2. b < (q * L + L) * B
        BY <1>5, <2>1, <1>4, <1>1 DEF L
  <2>3. q * k \in Nat /\ (q * k) * Width <= m * Width + Width - 1
        BY <1>2, <1>3, <1>4, <1>5, <1>6, <2>1
  <2>4. q * k <= m
    <3>1. SUFFICES ASSUME m + 1 <= q * k PROVE FALSE
          BY <1>3, <2>3
    <3>2. (m + 1) * Width <= (q * k) * Width
          BY <1>3, <2>3, <3>1
    <3>3. (m + 1) * Width = m * Width + Width /\ m * Width \in Nat
          BY <1>3
    <3> QED
        BY <2>3, <3>2, <3>3
  <2>5. (q * k) * Width <= m * Width
        BY <1>3, <2>3, <2>4
  <2> QED
      BY <1>3, <1>6, <2>2, <2>5
<1>8. q * L \in Nat /\ q * L + L = (q + 1) * L /\ (q + 1) * L \in Nat
      BY <1>1, <1>4 DEF L
<1>9. c \in Nat /\ q * L <= c /\ c < (q + 1) * L
      BY <1>1, <1>7, <1>8, Between DEF B
<1> HIDE DEF c
<1>10. c \div L = q
  <2>1. q + 1 \in Nat /\ L \in Nat \ {0}
        BY <1>1, <1>4 DEF L
  <2>2. c \div L \in Nat /\ q <= c \div L /\ c \div L < q + 1
        BY <1>4, <1>9, <2>1, Between
  <2> QED
      BY <1>4, <2>2
<1> QED
    BY <1>10 DEF LineOf, q, c, L, B

(* The loop begins below the range, ends above the beginning of its last   *)
(* word, and every step of it is in a line of the range.                   *)
LEMMA LoopBegins ==
  ASSUME DmaAssumption, NEW from \in Nat, NEW len \in Nat \ {0}
  PROVE  LET b == First(from * WordBytes)
         IN  /\ b \in Nat /\ b % Width = 0 /\ End(from * WordBytes, len * WordBytes) \in Nat
             /\ \A a \in Words(from, len) : ~(a * WordBytes < b)
<1>1. WordBytes \in Nat \ {0} /\ from * WordBytes \in Nat /\ len * WordBytes \in Nat \ {0}
      BY DEF DmaAssumption
<1> DEFINE i == (from * WordBytes) \div Width
           f == from * WordBytes
           g == len * WordBytes
           e == (f + g - 1 + Width - 1) \div Width
<1>2. i \in Nat /\ i * Width <= f
      BY <1>1, Between
<1>3. e \in Nat
  <2>1. f + g - 1 + Width - 1 \in Nat
        BY <1>1
  <2> QED
      BY <2>1, Between
<1>4. i * Width \in Nat /\ e * Width \in Nat
      BY <1>2, <1>3
<1>5. (i * Width) % Width = 0
      BY <1>2
<1>6. ASSUME NEW a \in Words(from, len)
      PROVE  i * Width <= a * WordBytes
  <2>1. a \in Nat /\ from <= a
        BY DEF Words
  <2>2. from * WordBytes <= a * WordBytes /\ a * WordBytes \in Nat
        BY <1>1, <2>1
  <2> HIDE DEF i
  <2> QED
      BY <1>1, <1>2, <1>4, <2>2
<1>7. First(from * WordBytes) = i * Width /\ End(from * WordBytes, len * WordBytes) = e * Width
      BY DEF First, End
<1> HIDE DEF i, e, f, g
<1>8. \A a \in Words(from, len) : ~(a * WordBytes < i * Width)
  <2>1. ASSUME NEW a \in Words(from, len)
        PROVE  ~(a * WordBytes < i * Width)
    <3>1. a * WordBytes \in Nat
          BY <1>1 DEF Words
    <3> QED
        BY <1>4, <1>6, <3>1
  <2> QED
      BY <2>1
<1> QED
    BY <1>4, <1>5, <1>7, <1>8

LEMMA LoopEnds ==
  ASSUME DmaAssumption, NEW from \in Nat, NEW len \in Nat \ {0}, NEW b \in Nat,
         End(from * WordBytes, len * WordBytes) <= b, NEW a \in Words(from, len)
  PROVE  a * WordBytes < b
<1>1. WordBytes \in Nat \ {0} /\ WordBytes > 1
      BY DEF DmaAssumption
<1> DEFINE f == from * WordBytes
           g == len * WordBytes
           n == f + g - 1 + Width - 1
           e == n \div Width
<1>2. f \in Nat /\ g \in Nat \ {0}
      BY <1>1
<1>3. n \in Nat
  <2> HIDE DEF f, g
  <2> QED
      BY <1>2
<1>4. e \in Nat /\ n < e * Width + Width
      BY <1>3, Between
<1>5. e * Width <= b /\ e * Width \in Nat
      BY <1>4 DEF End
<1>6. a \in Nat /\ a + 1 <= from + len
      BY DEF Words
<1>7. a * WordBytes + WordBytes <= f + g /\ a * WordBytes \in Nat
  <2>1. (a + 1) * WordBytes <= (from + len) * WordBytes
        BY <1>1, <1>6
  <2>2. (a + 1) * WordBytes = a * WordBytes + WordBytes
        BY <1>1, <1>6
  <2>3. (from + len) * WordBytes = f + g
        BY <1>1
  <2>4. a * WordBytes \in Nat
        BY <1>1, <1>6
  <2> HIDE DEF f, g
  <2> QED
      BY <2>1, <2>2, <2>3, <2>4
<1> HIDE DEF f, g, e
<1> QED
    BY <1>1, <1>2, <1>4, <1>5, <1>7

LEMMA LoopSteps ==
  ASSUME DmaAssumption, NEW from \in Nat, NEW len \in Nat \ {0},
         NEW b \in Nat, b % Width = 0, First(from * WordBytes) <= b,
         b < End(from * WordBytes, len * WordBytes)
  PROVE  LineOf(b \div WordBytes) \in Lines(from, len) /\ (b + Width) % Width = 0
<1>1. WordBytes \in Nat \ {0} /\ WordBytes > 1
      BY DEF DmaAssumption
<1> DEFINE f == from * WordBytes
           g == len * WordBytes
           n == f + g - 1 + Width - 1
           e == n \div Width
           i == f \div Width
           m == b \div Width
           c == b \div WordBytes
<1>2. f \in Nat /\ g \in Nat \ {0}
      BY <1>1
<1>a. f + g = (from + len) * WordBytes
      BY <1>1
<1> HIDE DEF f, g
<1>3. n \in Nat
      BY <1>2
<1>4. e \in Nat /\ e * Width <= n
      BY <1>3, Between
<1>5. m \in Nat /\ b = m * Width
      BY Division
<1>6. i \in Nat /\ f < i * Width + Width /\ i * Width <= b
      BY <1>2, Between DEF First, f
<1>7. b < e * Width
      BY DEF End, f, g
<1> HIDE DEF e, i, m
<1>8. b + Width <= e * Width
  <2>1. m + 1 <= e
    <3>1. SUFFICES ASSUME e <= m PROVE FALSE
          BY <1>4, <1>5
    <3>2. e * Width <= m * Width
          BY <1>4, <1>5, <3>1
    <3> QED
        BY <1>4, <1>5, <1>7, <3>2
  <2>2. (m + 1) * Width <= e * Width
        BY <1>4, <1>5, <2>1
  <2> QED
      BY <1>5, <2>2
<1>9. b < f + g
  <2>1. e * Width \in Nat
        BY <1>4
  <2> QED
      BY <1>2, <1>4, <1>8, <2>1
<1>10. c \in Nat /\ c < from + len
  <2>1. b < (from + len) * WordBytes /\ from + len \in Nat
        BY <1>a, <1>9
  <2> QED
      BY <1>1, <2>1, Between
<1>11. CASE f <= b
  <2>1. from <= c
        BY <1>1, <1>11, Between DEF f
  <2>2. c \in Words(from, len)
        BY <1>10, <2>1 DEF Words
  <2>3. LineOf(c) \in Lines(from, len)
        BY <2>2 DEF Lines
  <2>4. (b + Width) % Width = 0
    <3>1. b + Width = (m + 1) * Width
          BY <1>5
    <3> QED
        BY <1>5, <3>1
  <2> QED
      BY <2>3, <2>4
<1>12. CASE ~(f <= b)
  <2>1. b <= f /\ f < b + Width
    <3>1. i * Width \in Nat
          BY <1>6
    <3> QED
        BY <1>2, <1>6, <1>12, <3>1
  <2>2. LineOf(from) = LineOf(c)
        BY <2>1, StepInLine DEF f
  <2>3. from \in Words(from, len)
        BY DEF Words
  <2>4. LineOf(c) \in Lines(from, len)
        BY <2>2, <2>3 DEF Lines
  <2>5. (b + Width) % Width = 0
    <3>1. b + Width = (m + 1) * Width
          BY <1>5
    <3> QED
        BY <1>5, <3>1
  <2> QED
      BY <2>4, <2>5
<1> QED
    BY <1>11, <1>12

-----------------------------------------------------------------------------
(* dma_memcpy32. *)
Src == Words(Jobs[job].src, Jobs[job].len)
Dst == Words(Jobs[job].dst, Jobs[job].len)

(* The words some call copies to: no core writes in their lines. *)
IsDst(a) == \E j \in DOMAIN Jobs : LineOf(a) \in Lines(Jobs[j].dst, Jobs[j].len)

(* A line that is not dirty is as in memory, but for those the engine      *)
(* writes behind the back of the cache.                                    *)
Coherent ==
  \A a \in Addr : /\ IsDst(a) => LineOf(a) \notin dirty
                  /\ ~IsDst(a) /\ LineOf(a) \notin dirty => cache[a] \in {Nil, mem[a]}

(* What the cores wrote is what they read. *)
WrittenInv ==
  /\ pc # "idle" => job \in DOMAIN Jobs /\ \A a \in Src : View(a) = frame
  /\ pc \notin {"idle", "block"} => View(BlockAddr) = job

(* How far the loop is in the range it was given. *)
LoopAt(from, len) ==
  /\ begin % Width = 0 /\ First(from * WordBytes) <= begin
  /\ stop = End(from * WordBytes, len * WordBytes)

LoopInv ==
  /\ pc = "src" => LoopAt(Jobs[job].src, Jobs[job].len)
  /\ pc = "cb"  => LoopAt(BlockAddr, 1)
  /\ pc = "dst" => LoopAt(Jobs[job].dst, Jobs[job].len)

(* The source, then the block, is on its way to memory, then there. *)
SrcInv ==
  /\ pc = "src" => \A a \in Src : a * WordBytes < begin => LineOf(a) \notin dirty \ pend
  /\ pc \in {"enable", "reset"} => \A a \in Src : LineOf(a) \notin dirty \ pend
  /\ pc \in {"cb", "block_addr", "start", "wait"} => \A a \in Src : LineOf(a) \notin dirty

BlockInv ==
  /\ pc = "cb" /\ BlockAddr * WordBytes < begin => LineOf(BlockAddr) \notin dirty \ pend
  /\ pc \in {"block_addr", "start"} => LineOf(BlockAddr) \notin dirty \ pend
  /\ pc = "wait" => LineOf(BlockAddr) \notin dirty

(* The engine has not read its block yet, or has copied all but its left   *)
(* last words.                                                             *)
EngineInv ==
  /\ active => pc = "wait"
  /\ pc \in {"cb", "block_addr", "start"} => left = 0
  /\ pc \in {"start", "wait"} => block_addr = BlockAddr
  /\ pc = "wait" => \/ active /\ block = None /\ left = 0
                    \/ /\ block = job /\ left <= Jobs[job].len /\ (active \/ left = 0)
                       /\ \A a \in Dst : a < Jobs[job].dst + Jobs[job].len - left => mem[a] = frame

(* The copy is in memory, and no load of the part the loop has been        *)
(* through finds anything else.                                            *)
DstInv ==
  /\ pc = "dst" =>
       \A a \in Dst : /\ mem[a] = frame
                      /\ a * WordBytes < begin => LineOf(a) \in pend \/ View(a) = frame
  /\ Copied

DmaInv == Coherent /\ WrittenInv /\ LoopInv /\ SrcInv /\ BlockInv /\ EngineInv /\ DstInv
IInv == TypeOK /\ DmaInv

-----------------------------------------------------------------------------
(* The cache. *)
USE DmaAssumption

LEMMA JobIs ==
  ASSUME NEW j \in DOMAIN Jobs
  PROVE  /\ Jobs[j].src \in Nat /\ Jobs[j].dst \in Nat /\ Jobs[j].len \in Nat \ {0}
         /\ Words(Jobs[j].src, Jobs[j].len) \subseteq Addr
         /\ Words(Jobs[j].dst, Jobs[j].len) \subseteq Addr
         /\ \A a \in Words(Jobs[j].src, Jobs[j].len) : ~IsDst(a) /\ a # BlockAddr
         /\ \A a \in Words(Jobs[j].dst, Jobs[j].len) : IsDst(a)
         /\ j \in Nat \ {0}
<1>1. /\ Jobs[j].src \in Nat /\ Jobs[j].dst \in Nat /\ Jobs[j].len \in Nat \ {0}
      /\ Words(Jobs[j].src, Jobs[j].len) \subseteq Addr
      /\ Words(Jobs[j].dst, Jobs[j].len) \subseteq Addr
      /\ j \in Nat \ {0}
      BY DEF DmaAssumption
<1>2. ASSUME NEW a \in Words(Jobs[j].src, Jobs[j].len)
      PROVE  ~IsDst(a) /\ a # BlockAddr
      BY DEF DmaAssumption, IsDst, Lines
<1>3. ASSUME NEW a \in Words(Jobs[j].dst, Jobs[j].len)
      PROVE  IsDst(a)
      BY DEF IsDst, Lines
<1> QED
    BY <1>1, <1>2, <1>3

LEMMA BlockIs == BlockAddr \in Addr /\ BlockAddr \in Nat /\ ~IsDst(BlockAddr)
<1>1. BlockAddr \in Addr
      BY DEF DmaAssumption
<1>2. ~IsDst(BlockAddr)
      BY DEF DmaAssumption, IsDst
<1> QED
    BY <1>1, <1>2 DEF Addr

CacheTypeOK ==
  /\ mem \in [Addr -> Nat] /\ cache \in [Addr -> Nat \union {Nil}]
  /\ dirty \subseteq {l \in Line : InCache(l)} /\ pend \subseteq Line

(* What the cache does by itself, and the end of a maintenance: what the   *)
(* cores wrote is what they read, what the engine wrote is what is left of *)
(* a line that was maintained, and nothing becomes dirty.                  *)
Quiet ==
  /\ \A a \in Addr :
       IF IsDst(a) THEN /\ mem'[a] = mem[a] /\ View(a)' \in {View(a), mem[a]}
                        /\ LineOf(a) \in pend \ pend' => View(a)' = mem[a]
                   ELSE View(a)' = View(a)
  /\ dirty' \subseteq dirty /\ pend' \subseteq pend /\ dirty' \ pend' \subseteq dirty \ pend

LEMMA Cleaned ==
  ASSUME CacheTypeOK, Coherent, NEW l, CleanInvalidate(l)
  PROVE  /\ mem' \in [Addr -> Nat] /\ cache' \in [Addr -> Nat \union {Nil}]
         /\ dirty' \subseteq {k \in Line : InCache(k)'} /\ dirty' = dirty \ {l}
         /\ Coherent'
         /\ \A a \in Addr :
              IF IsDst(a) THEN /\ mem'[a] = mem[a] /\ View(a)' \in {View(a), mem[a]}
                               /\ LineOf(a) = l => View(a)' = mem[a]
                          ELSE View(a)' = View(a)
<1>1. /\ mem' = [a \in Addr |-> IF LineOf(a) = l /\ l \in dirty THEN cache[a] ELSE mem[a]]
      /\ cache' = [a \in Addr |-> IF LineOf(a) = l THEN Nil ELSE cache[a]]
      /\ dirty' = dirty \ {l}
      BY DEF CleanInvalidate
<1>2. \A a \in Addr : LineOf(a) \in dirty => cache[a] \in Nat
      BY DEF CacheTypeOK, InCache
<1>3. mem' \in [Addr -> Nat] /\ cache' \in [Addr -> Nat \union {Nil}]
      BY <1>1, <1>2 DEF CacheTypeOK
<1>4. dirty' \subseteq {k \in Line : InCache(k)'}
      BY <1>1 DEF CacheTypeOK, InCache
<1>5. Coherent'
      BY <1>1 DEF Coherent, CacheTypeOK
<1>6. ASSUME NEW a \in Addr, IsDst(a)
      PROVE  /\ mem'[a] = mem[a] /\ View(a)' \in {View(a), mem[a]}
             /\ LineOf(a) = l => View(a)' = mem[a]
      BY <1>1, <1>6 DEF Coherent, View
<1>7. ASSUME NEW a \in Addr, ~IsDst(a)
      PROVE  View(a)' = View(a)
      BY <1>1, <1>2, <1>7 DEF Coherent, View, Nil
<1> QED
    BY <1>1, <1>3, <1>4, <1>5, <1>6, <1>7

LEMMA CacheMoves ==
  ASSUME CacheTypeOK, Coherent, NEW l \in Line, Evict(l) \/ Fetch(l) \/ Complete(l)
  PROVE  CacheTypeOK' /\ Coherent' /\ Quiet
<1>1. CASE Evict(l)
  <2>1. CleanInvalidate(l) /\ pend' = pend
        BY <1>1 DEF Evict
  <2> QED
      BY <2>1, Cleaned DEF CacheTypeOK, Quiet
<1>2. CASE Complete(l)
  <2>1. CleanInvalidate(l) /\ pend' = pend \ {l}
        BY <1>2 DEF Complete
  <2> QED
      BY <2>1, Cleaned DEF CacheTypeOK, Quiet
<1>3. CASE Fetch(l)
  <2>1. /\ ~InCache(l) /\ mem' = mem /\ dirty' = dirty /\ pend' = pend
        /\ cache' = [a \in Addr |-> IF LineOf(a) = l THEN mem[a] ELSE cache[a]]
        BY <1>3 DEF Fetch
  <2>2. l \notin dirty
        BY <2>1 DEF CacheTypeOK
  <2>3. cache' \in [Addr -> Nat \union {Nil}]
        BY <2>1 DEF CacheTypeOK
  <2>4. dirty' \subseteq {k \in Line : InCache(k)'}
        BY <2>1, <2>2 DEF CacheTypeOK, InCache
  <2>5. Coherent'
        BY <2>1, <2>2 DEF Coherent
  <2>6. ASSUME NEW a \in Addr
        PROVE  /\ View(a)' \in {View(a), mem[a]}
               /\ ~IsDst(a) => View(a)' = View(a)
        BY <2>1, <2>2 DEF Coherent, CacheTypeOK, View, Nil
  <2> QED
      BY <2>1, <2>3, <2>4, <2>5, <2>6 DEF CacheTypeOK, Quiet
<1> QED
    BY <1>1, <1>2, <1>3

(* A store is read back, and everything else is as it was. *)
LEMMA Stored ==
  ASSUME CacheTypeOK, Coherent, NEW ws \in SUBSET Addr, \A a \in ws : ~IsDst(a),
         NEW v \in Nat, Store(ws, v)
  PROVE  /\ CacheTypeOK' /\ Coherent'
         /\ \A a \in Addr : View(a)' = IF a \in ws THEN v ELSE View(a)
         /\ mem' = mem /\ pend' = pend
         /\ \A a \in Addr : IsDst(a) => cache'[a] = cache[a]
<1> DEFINE ls == {LineOf(a) : a \in ws}
<1>1. /\ cache' = [a \in Addr |-> IF a \in ws THEN v ELSE IF LineOf(a) \in ls THEN View(a)
                                                        ELSE cache[a]]
      /\ dirty' = dirty \union ls /\ mem' = mem /\ pend' = pend
      BY DEF Store
<1>2. \A a \in Addr : View(a) \in Nat
      BY DEF View, CacheTypeOK, Nil
<1>3. \A a \in Addr : IsDst(a) => LineOf(a) \notin ls
      BY DEF IsDst
<1>4. ls \subseteq Line /\ \A a \in ws : LineOf(a) \in ls
      BY DEF Line
<1> HIDE DEF ls
<1>5. cache' \in [Addr -> Nat \union {Nil}]
      BY <1>1, <1>2 DEF CacheTypeOK
<1>6. \A a \in Addr : LineOf(a) \in ls => cache'[a] \in Nat
      BY <1>1, <1>2
<1>7. ASSUME NEW k \in dirty'
      PROVE  k \in Line /\ InCache(k)'
  <2>1. CASE k \in ls
        BY <1>4, <1>6, <2>1 DEF InCache, Nil
  <2>2. CASE k \in dirty
    <3>1. k \in Line /\ InCache(k)
          BY <2>2 DEF CacheTypeOK
    <3>2. ASSUME NEW a \in Addr, LineOf(a) = k
          PROVE  cache'[a] # Nil
          BY <1>1, <1>2, <3>1, <3>2 DEF InCache, Nil
    <3> QED
        BY <3>1, <3>2 DEF InCache
  <2> QED
      BY <1>1, <2>1, <2>2
<1>8. CacheTypeOK'
      BY <1>1, <1>5, <1>7 DEF CacheTypeOK
<1>9. Coherent'
  <2>1. ASSUME NEW a \in Addr
        PROVE  /\ IsDst(a) => LineOf(a) \notin dirty'
               /\ ~IsDst(a) /\ LineOf(a) \notin dirty' => cache'[a] \in {Nil, mem'[a]}
        BY <1>1, <1>3, <1>4 DEF Coherent
  <2> QED
      BY <2>1 DEF Coherent
<1>10. ASSUME NEW a \in Addr
       PROVE  View(a)' = IF a \in ws THEN v ELSE View(a)
       BY <1>1, <1>2, <1>4 DEF View, Nil
<1>11. \A a \in Addr : IsDst(a) => cache'[a] = cache[a]
       BY <1>1, <1>3, <1>4
<1> QED
    BY <1>1, <1>8, <1>9, <1>10, <1>11

-----------------------------------------------------------------------------
(* The steps. *)
LEMMA Typed == IInv => CacheTypeOK /\ Coherent
BY DEF IInv, DmaInv, TypeOK, CacheTypeOK

LEMMA CacheStep ==
  ASSUME IInv, NEW l \in Line, Evict(l) \/ Fetch(l) \/ Complete(l)
  PROVE  IInv'
<1>1. CacheTypeOK' /\ Coherent' /\ Quiet
      BY Typed, CacheMoves
<1>2. UNCHANGED <<pc, job, frame, begin, stop, enabled, block_addr, active, block, left>>
      BY DEF Evict, Fetch, Complete, callVars, loopVars, chanVars
<1>3. TypeOK'
      BY <1>1, <1>2 DEF IInv, TypeOK, CacheTypeOK
<1>4. ASSUME NEW a \in Addr
      PROVE  /\ LineOf(a) \notin dirty => LineOf(a) \notin dirty'
             /\ LineOf(a) \notin dirty \ pend => LineOf(a) \notin dirty' \ pend'
             /\ ~IsDst(a) => View(a)' = View(a)
             /\ IsDst(a) => mem'[a] = mem[a]
             /\ IsDst(a) /\ (LineOf(a) \in pend \/ View(a) = mem[a])
                  => LineOf(a) \in pend' \/ View(a)' = mem[a]
      BY <1>1 DEF Quiet
<1>5. ASSUME job \in DOMAIN Jobs
      PROVE  /\ Src \subseteq Addr /\ Dst \subseteq Addr
             /\ \A a \in Src : ~IsDst(a)
             /\ \A a \in Dst : IsDst(a)
      BY <1>5, JobIs DEF Src, Dst
<1>6. Src' = Src /\ Dst' = Dst
      BY <1>2 DEF Src, Dst
<1>7. WrittenInv'
      BY <1>2, <1>4, <1>5, <1>6, BlockIs DEF IInv, DmaInv, WrittenInv
<1>8. LoopInv'
      BY <1>2 DEF IInv, DmaInv, LoopInv, LoopAt
<1>9. SrcInv'
      BY <1>2, <1>4, <1>5, <1>6 DEF IInv, DmaInv, WrittenInv, SrcInv
<1>10. BlockInv'
      BY <1>2, <1>4, BlockIs DEF IInv, DmaInv, BlockInv
<1>11. EngineInv'
      BY <1>2, <1>4, <1>5, <1>6 DEF IInv, DmaInv, WrittenInv, EngineInv
<1>12. DstInv'
  <2>1. CASE pc = "dst"
        BY <1>2, <1>4, <1>5, <1>6, <2>1 DEF IInv, DmaInv, WrittenInv, DstInv, Copied
  <2>2. CASE pc = "idle" /\ job # None
    <3>1. job \in DOMAIN Jobs
          BY <2>2 DEF IInv, TypeOK
    <3>2. \A a \in Dst : mem[a] = frame /\ (LineOf(a) \in pend \/ View(a) = frame)
          BY <2>2 DEF IInv, DmaInv, DstInv, Copied, Dst
    <3>3. \A a \in Dst : mem'[a] = frame /\ (LineOf(a) \in pend' \/ View(a)' = frame)
          BY <3>1, <3>2, <1>4, <1>5
    <3> QED
        BY <1>2, <2>2, <3>3 DEF DstInv, Copied, Dst
  <2>3. CASE pc # "dst" /\ ~(pc = "idle" /\ job # None)
        BY <1>2, <2>3 DEF DstInv, Copied
  <2> QED
      BY <2>1, <2>2, <2>3
<1> QED
    BY <1>1, <1>3, <1>7, <1>8, <1>9, <1>10, <1>11, <1>12 DEF IInv, DmaInv

(* The caller draws the next frame in the source. *)
LEMMA CallStep ==
  ASSUME IInv, NEW j \in DOMAIN Jobs, Call(j)
  PROVE  IInv'
<1>1. /\ pc = "idle" /\ pc' = "block" /\ frame < MaxFrames /\ job' = j /\ frame' = frame + 1
      /\ Store(Words(Jobs[j].src, Jobs[j].len), frame + 1)
      /\ UNCHANGED <<begin, stop, enabled, block_addr, active, block, left>>
      BY DEF Call, loopVars, chanVars
<1>2. frame \in Nat /\ frame' \in 0 .. MaxFrames
      BY <1>1 DEF IInv, TypeOK, DmaAssumption
<1>3. /\ Words(Jobs[j].src, Jobs[j].len) \subseteq Addr
      /\ \A a \in Words(Jobs[j].src, Jobs[j].len) : ~IsDst(a)
      BY JobIs
<1>4. /\ CacheTypeOK' /\ Coherent'
      /\ \A a \in Words(Jobs[j].src, Jobs[j].len) : View(a)' = frame + 1
  <2> DEFINE ws == Words(Jobs[j].src, Jobs[j].len)
             v == frame + 1
  <2>1. /\ CacheTypeOK /\ Coherent /\ v \in Nat /\ ws \in SUBSET Addr
        /\ \A a \in ws : ~IsDst(a)
        /\ Store(ws, v)
        BY <1>1, <1>2, <1>3, Typed
  <2> HIDE DEF ws, v
  <2>2. /\ CacheTypeOK' /\ Coherent'
        /\ \A a \in Addr : View(a)' = IF a \in ws THEN v ELSE View(a)
        BY <2>1, Stored
  <2> QED
      BY <1>3, <2>2 DEF ws, v
<1>5. TypeOK'
      BY <1>1, <1>2, <1>4 DEF IInv, TypeOK, CacheTypeOK
<1>6. WrittenInv'
      BY <1>1, <1>4 DEF WrittenInv, Src
<1>7. LoopInv' /\ SrcInv' /\ BlockInv' /\ DstInv'
      BY <1>1 DEF LoopInv, SrcInv, BlockInv, DstInv, Copied
<1>8. EngineInv'
      BY <1>1 DEF IInv, DmaInv, EngineInv
<1> QED
    BY <1>4, <1>5, <1>6, <1>7, <1>8 DEF IInv, DmaInv

(* The arguments of the call do not change until it returns. *)
LEMMA InCall ==
  ASSUME IInv, pc # "idle"
  PROVE  /\ job \in DOMAIN Jobs /\ job \in Nat \ {0}
         /\ Jobs[job].src \in Nat /\ Jobs[job].dst \in Nat /\ Jobs[job].len \in Nat \ {0}
         /\ Src \subseteq Addr /\ Dst \subseteq Addr
         /\ \A a \in Src : ~IsDst(a) /\ a # BlockAddr /\ View(a) = frame
         /\ \A a \in Dst : IsDst(a)
<1>1. job \in DOMAIN Jobs /\ \A a \in Src : View(a) = frame
      BY DEF IInv, DmaInv, WrittenInv
<1> QED
    BY <1>1, JobIs DEF Src, Dst

LEMMA InitBlockStep ==
  ASSUME IInv, InitBlock
  PROVE  IInv'
<1>1. /\ pc = "block" /\ pc' = "src" /\ Store({BlockAddr}, job)
      /\ begin' = First(Jobs[job].src * WordBytes)
      /\ stop' = End(Jobs[job].src * WordBytes, Jobs[job].len * WordBytes)
      /\ UNCHANGED <<job, frame, enabled, block_addr, active, block, left>>
      BY DEF InitBlock, Range, callVars, chanVars
<1>2. /\ job \in DOMAIN Jobs /\ job \in Nat
      /\ Jobs[job].src \in Nat /\ Jobs[job].len \in Nat \ {0}
      /\ Src \subseteq Addr /\ \A a \in Src : a # BlockAddr /\ View(a) = frame
      BY <1>1, InCall
<1>3. /\ CacheTypeOK' /\ Coherent'
      /\ \A a \in Addr : View(a)' = IF a \in {BlockAddr} THEN job ELSE View(a)
  <2> DEFINE ws == {BlockAddr}
  <2>1. /\ CacheTypeOK /\ Coherent /\ job \in Nat /\ ws \in SUBSET Addr
        /\ \A a \in ws : ~IsDst(a)
        /\ Store(ws, job)
        BY <1>1, <1>2, BlockIs, Typed
  <2> HIDE DEF ws
  <2>2. /\ CacheTypeOK' /\ Coherent'
        /\ \A a \in Addr : View(a)' = IF a \in ws THEN job ELSE View(a)
        BY <2>1, Stored
  <2> QED
      BY <2>2 DEF ws
<1>4. /\ begin' \in Nat /\ begin' % Width = 0 /\ stop' \in Nat
      /\ \A a \in Src : ~(a * WordBytes < begin')
      BY <1>1, <1>2, LoopBegins DEF Src
<1>5. TypeOK'
      BY <1>1, <1>3, <1>4 DEF IInv, TypeOK, CacheTypeOK
<1>6. Src' = Src
      BY <1>1 DEF Src
<1>7. WrittenInv'
      BY <1>1, <1>2, <1>3, <1>6, BlockIs DEF WrittenInv
<1>8. First(Jobs[job].src * WordBytes) \in Nat
      BY <1>1, <1>4
<1>9. LoopInv'
      BY <1>1, <1>4, <1>8 DEF LoopInv, LoopAt
<1>10. SrcInv' /\ BlockInv' /\ DstInv'
      BY <1>1, <1>4, <1>6 DEF SrcInv, BlockInv, DstInv, Copied
<1>11. EngineInv'
      BY <1>1 DEF IInv, DmaInv, EngineInv
<1> QED
    BY <1>3, <1>5, <1>7, <1>9, <1>10, <1>11 DEF IInv, DmaInv

(* An iteration of the maintenance loop: one more line of its range.       *)
LEMMA MaintainLineStep ==
  ASSUME IInv, MaintainLine
  PROVE  IInv'
<1> DEFINE l == LineOf(begin \div WordBytes)
<1>1. /\ pc \in {"src", "cb", "dst"} /\ begin < stop
      /\ pend' = pend \union {l} /\ begin' = begin + Width
      /\ UNCHANGED <<mem, cache, dirty, pc, job, frame, stop, enabled, block_addr, active,
                     block, left>>
      BY DEF MaintainLine, callVars, chanVars
<1>2. /\ job \in DOMAIN Jobs /\ Jobs[job].src \in Nat /\ Jobs[job].dst \in Nat
      /\ Jobs[job].len \in Nat \ {0} /\ Src \subseteq Addr /\ Dst \subseteq Addr
      /\ \A a \in Src : ~IsDst(a)
      BY <1>1, InCall
<1>3. begin \in Nat /\ begin' \in Nat
      BY <1>1 DEF IInv, TypeOK
<1>4. PICK from \in Nat, len \in Nat \ {0} :
        /\ LoopAt(from, len) /\ Words(from, len) \subseteq Addr
        /\ pc = "src" => from = Jobs[job].src /\ len = Jobs[job].len
        /\ pc = "cb"  => from = BlockAddr /\ len = 1
        /\ pc = "dst" => from = Jobs[job].dst /\ len = Jobs[job].len
  <2>1. CASE pc = "src"
        BY <1>2, <2>1 DEF IInv, DmaInv, LoopInv, Src
  <2>2. CASE pc = "cb"
    <3>1. Words(BlockAddr, 1) \subseteq Addr
          BY BlockIs DEF Words
    <3> QED
        BY <2>2, <3>1, BlockIs DEF IInv, DmaInv, LoopInv
  <2>3. CASE pc = "dst"
        BY <1>2, <2>3 DEF IInv, DmaInv, LoopInv, Dst
  <2> QED
      BY <1>1, <2>1, <2>2, <2>3
<1>5. l \in Lines(from, len) /\ begin' % Width = 0
      BY <1>1, <1>3, <1>4, LoopSteps DEF LoopAt
<1>6. ASSUME NEW a \in Nat, a * WordBytes < begin'
      PROVE  a * WordBytes < begin \/ LineOf(a) = l
  <2>1. WordBytes \in Nat
        BY DEF DmaAssumption
  <2>2. a * WordBytes \in Nat
        BY <2>1
  <2>3. CASE a * WordBytes < begin
        BY <2>3
  <2>4. CASE begin <= a * WordBytes
        BY <1>1, <1>3, <1>4, <1>6, <2>4, StepInLine DEF LoopAt
  <2> QED
      BY <1>3, <2>2, <2>3, <2>4
<1> HIDE DEF l
<1>7. Lines(from, len) \subseteq Line
      BY <1>4 DEF Lines, Line
<1>8. TypeOK'
      BY <1>1, <1>3, <1>5, <1>7 DEF IInv, TypeOK, InCache
<1>9. Src' = Src /\ Dst' = Dst /\ \A a \in Addr : View(a)' = View(a)
      BY <1>1 DEF Src, Dst, View
<1>10. Coherent'
       BY <1>1 DEF IInv, DmaInv, Coherent
<1>11. WrittenInv'
       BY <1>1, <1>2, <1>9, BlockIs DEF IInv, DmaInv, WrittenInv
<1>12. LoopInv'
  <2>1. First(from * WordBytes) <= begin'
    <3>1. WordBytes \in Nat
          BY DEF DmaAssumption
    <3>2. First(from * WordBytes) \in Nat
          BY <1>4, LoopBegins
    <3> QED
        BY <1>1, <1>3, <1>4, <3>2, WidthAssumption DEF LoopAt
  <2>2. LoopAt(from, len)'
        BY <1>1, <1>4, <1>5, <2>1 DEF LoopAt
  <2> QED
      BY <1>1, <1>4, <2>2 DEF LoopInv, LoopAt
<1>13. SrcInv'
  <2>1. CASE pc = "src"
    <3>1. \A a \in Src : a \in Nat
          BY <1>2 DEF Addr
    <3>2. \A a \in Src : a * WordBytes < begin => LineOf(a) \notin dirty \ pend
          BY <2>1 DEF IInv, DmaInv, SrcInv
    <3>3. \A a \in Src : a * WordBytes < begin' => LineOf(a) \notin dirty \ pend'
          BY <1>1, <1>6, <3>1, <3>2
    <3> QED
        BY <1>1, <1>9, <2>1, <3>3 DEF SrcInv
  <2>2. CASE pc # "src"
        BY <1>1, <1>9, <2>2 DEF IInv, DmaInv, SrcInv
  <2> QED
      BY <2>1, <2>2
<1>14. BlockInv'
       BY <1>1, <1>6, BlockIs DEF IInv, DmaInv, BlockInv
<1>15. EngineInv'
       BY <1>1 DEF IInv, DmaInv, EngineInv
<1>16. DstInv'
  <2>1. CASE pc = "dst"
    <3>1. \A a \in Dst : a \in Nat /\ a \in Addr
          BY <1>2 DEF Addr
    <3>2. \A a \in Dst : /\ mem[a] = frame
                         /\ a * WordBytes < begin => LineOf(a) \in pend \/ View(a) = frame
          BY <2>1 DEF IInv, DmaInv, DstInv
    <3>3. \A a \in Dst : /\ mem[a] = frame
                         /\ a * WordBytes < begin' => LineOf(a) \in pend' \/ View(a) = frame
          BY <1>1, <1>6, <3>1, <3>2
    <3> QED
        BY <1>1, <1>9, <2>1, <3>1, <3>3 DEF DstInv, Copied
  <2>2. CASE pc # "dst"
        BY <1>1, <2>2 DEF DstInv, Copied
  <2> QED
      BY <2>1, <2>2
<1> QED
    BY <1>8, <1>10, <1>11, <1>12, <1>13, <1>14, <1>15, <1>16 DEF IInv, DmaInv

(* The loop has been through all of its range. *)
LEMMA MaintainDoneStep ==
  ASSUME IInv, MaintainDone
  PROVE  IInv'
<1>1. /\ begin >= stop
      /\ UNCHANGED <<mem, cache, dirty, pend, job, frame, begin, stop, enabled, block_addr,
                     active, block, left>>
      BY DEF MaintainDone, cacheVars, callVars, loopVars, chanVars
<1>2. \/ pc = "src" /\ pc' = "enable"
      \/ pc = "cb" /\ pc' = "block_addr"
      \/ pc = "dst" /\ pc' = "idle"
      BY DEF MaintainDone
<1>3. /\ job \in DOMAIN Jobs /\ Jobs[job].src \in Nat /\ Jobs[job].dst \in Nat
      /\ Jobs[job].len \in Nat \ {0} /\ Src \subseteq Addr /\ Dst \subseteq Addr
      BY <1>2, InCall
<1>4. begin \in Nat /\ stop \in Nat /\ stop <= begin
      BY <1>1 DEF IInv, TypeOK
<1>5. /\ pc = "src" => \A a \in Src : a * WordBytes < begin
      /\ pc = "cb" => BlockAddr * WordBytes < begin
      /\ pc = "dst" => \A a \in Dst : a * WordBytes < begin
  <2>1. CASE pc = "src"
    <3>1. stop = End(Jobs[job].src * WordBytes, Jobs[job].len * WordBytes)
          BY <2>1 DEF IInv, DmaInv, LoopInv, LoopAt
    <3> QED
        BY <1>3, <1>4, <2>1, <3>1, LoopEnds DEF Src
  <2>2. CASE pc = "cb"
    <3>1. stop = End(BlockAddr * WordBytes, 1 * WordBytes)
          BY <2>2 DEF IInv, DmaInv, LoopInv, LoopAt
    <3>2. BlockAddr \in Words(BlockAddr, 1) /\ 1 \in Nat \ {0}
          BY BlockIs DEF Words
    <3>3. BlockAddr * WordBytes < begin
          BY <1>4, <3>1, <3>2, BlockIs, LoopEnds
    <3> QED
        BY <2>2, <3>3
  <2>3. CASE pc = "dst"
    <3>1. stop = End(Jobs[job].dst * WordBytes, Jobs[job].len * WordBytes)
          BY <2>3 DEF IInv, DmaInv, LoopInv, LoopAt
    <3> QED
        BY <1>3, <1>4, <2>3, <3>1, LoopEnds DEF Dst
  <2> QED
      BY <1>2, <2>1, <2>2, <2>3
<1>6. TypeOK'
      BY <1>1, <1>2 DEF IInv, TypeOK, InCache
<1>7. Src' = Src /\ Dst' = Dst /\ \A a \in Addr : View(a)' = View(a)
      BY <1>1 DEF Src, Dst, View
<1>8. Coherent'
      BY <1>1 DEF IInv, DmaInv, Coherent
<1>9. WrittenInv'
      BY <1>1, <1>2, <1>3, <1>7, BlockIs DEF IInv, DmaInv, WrittenInv
<1>10. LoopInv'
       BY <1>2 DEF LoopInv
<1>11. SrcInv'
       BY <1>1, <1>2, <1>5, <1>7 DEF IInv, DmaInv, SrcInv
<1>12. BlockInv'
       BY <1>1, <1>2, <1>5 DEF IInv, DmaInv, BlockInv
<1>13. EngineInv'
       BY <1>1, <1>2 DEF IInv, DmaInv, EngineInv
<1>14. DstInv'
  <2>1. CASE pc = "dst"
    <3>1. \A a \in Dst : mem[a] = frame /\ (LineOf(a) \in pend \/ View(a) = frame)
          BY <1>5, <2>1 DEF IInv, DmaInv, DstInv
    <3>2. \A a \in Dst : mem'[a] = frame /\ (LineOf(a) \in pend' \/ View(a)' = frame)
          BY <1>1, <1>3, <1>7, <3>1
    <3> QED
        BY <1>1, <1>2, <2>1, <3>2 DEF DstInv, Copied, Dst
  <2>2. CASE pc # "dst"
        BY <1>2, <2>2 DEF DstInv, Copied
  <2> QED
      BY <2>1, <2>2
<1> QED
    BY <1>6, <1>8, <1>9, <1>10, <1>11, <1>12, <1>13, <1>14 DEF IInv, DmaInv

(* What follows touches neither the caches nor what was asked for. *)
LEMMA Calm ==
  ASSUME IInv, UNCHANGED <<mem, cache, dirty, pend, job, frame>>
  PROVE  /\ Src' = Src /\ Dst' = Dst /\ \A a \in Addr : View(a)' = View(a)
         /\ Coherent' /\ CacheTypeOK'
         /\ pc # "idle" => \A a \in Src : View(a)' = frame
         /\ pc \notin {"idle", "block"} => View(BlockAddr)' = job
<1>1. Src' = Src /\ Dst' = Dst /\ \A a \in Addr : View(a)' = View(a)
      BY DEF Src, Dst, View
<1>2. Coherent' /\ CacheTypeOK'
      BY DEF IInv, DmaInv, TypeOK, CacheTypeOK, Coherent, InCache
<1>3. pc # "idle" => \A a \in Src : View(a)' = frame
      BY <1>1, InCall
<1>4. pc \notin {"idle", "block"} => View(BlockAddr)' = job
      BY <1>1, BlockIs DEF IInv, DmaInv, WrittenInv
<1> QED
    BY <1>1, <1>2, <1>3, <1>4

LEMMA EnableStep ==
  ASSUME IInv, Enable
  PROVE  IInv'
<1>1. /\ pc = "enable" /\ pc' = "reset" /\ enabled' = TRUE
      /\ UNCHANGED <<mem, cache, dirty, pend, job, frame, begin, stop, block_addr, active,
                     block, left>>
      BY DEF Enable, cacheVars, callVars, loopVars
<1>2. /\ Src' = Src /\ Coherent' /\ CacheTypeOK'
      /\ \A a \in Src : View(a)' = frame
      /\ View(BlockAddr)' = job
      BY <1>1, Calm
<1>3. TypeOK'
      BY <1>1, <1>2 DEF IInv, TypeOK, CacheTypeOK
<1>4. WrittenInv'
      BY <1>1, <1>2 DEF IInv, DmaInv, WrittenInv
<1>5. SrcInv'
      BY <1>1, <1>2 DEF IInv, DmaInv, SrcInv
<1>6. LoopInv' /\ BlockInv' /\ EngineInv' /\ DstInv'
      BY <1>1 DEF IInv, DmaInv, LoopInv, BlockInv, EngineInv, DstInv, Copied
<1> QED
    BY <1>2, <1>3, <1>4, <1>5, <1>6 DEF IInv, DmaInv

(* The first barrier: nothing of the source is dirty any more. *)
LEMMA ResetStep ==
  ASSUME IInv, Reset
  PROVE  IInv'
<1>1. /\ pc = "reset" /\ pc' = "cb" /\ pend = {} /\ active' = FALSE /\ left' = 0
      /\ begin' = First(BlockAddr * WordBytes)
      /\ stop' = End(BlockAddr * WordBytes, 1 * WordBytes)
      /\ UNCHANGED <<mem, cache, dirty, pend, job, frame, enabled, block_addr, block>>
      BY DEF Reset, Range, MemoryBarrier, cacheVars, callVars
<1>2. /\ Src' = Src /\ Coherent' /\ CacheTypeOK'
      /\ \A a \in Src : View(a)' = frame
      /\ View(BlockAddr)' = job
      BY <1>1, Calm
<1>3. 1 \in Nat \ {0} /\ BlockAddr \in Words(BlockAddr, 1)
      BY BlockIs DEF Words
<1>4. /\ begin' \in Nat /\ begin' % Width = 0 /\ stop' \in Nat
      /\ ~(BlockAddr * WordBytes < begin')
      BY <1>1, <1>3, BlockIs, LoopBegins
<1>5. TypeOK'
      BY <1>1, <1>2, <1>4 DEF IInv, TypeOK, CacheTypeOK
<1>6. WrittenInv'
      BY <1>1, <1>2 DEF IInv, DmaInv, WrittenInv
<1>7. LoopInv'
      BY <1>1, <1>4 DEF LoopInv, LoopAt
<1>8. SrcInv'
      BY <1>1, <1>2 DEF IInv, DmaInv, SrcInv
<1>9. BlockInv' /\ EngineInv' /\ DstInv'
      BY <1>1, <1>4 DEF IInv, DmaInv, BlockInv, EngineInv, DstInv, Copied
<1> QED
    BY <1>2, <1>5, <1>6, <1>7, <1>8, <1>9 DEF IInv, DmaInv

LEMMA SetBlockAddrStep ==
  ASSUME IInv, SetBlockAddr
  PROVE  IInv'
<1>1. /\ pc = "block_addr" /\ pc' = "start" /\ block_addr' = BlockAddr
      /\ UNCHANGED <<mem, cache, dirty, pend, job, frame, begin, stop, enabled, active,
                     block, left>>
      BY DEF SetBlockAddr, cacheVars, callVars, loopVars
<1>2. /\ Src' = Src /\ Coherent' /\ CacheTypeOK'
      /\ \A a \in Src : View(a)' = frame
      /\ View(BlockAddr)' = job
      BY <1>1, Calm
<1>3. TypeOK'
      BY <1>1, <1>2, BlockIs DEF IInv, TypeOK, CacheTypeOK
<1>4. WrittenInv'
      BY <1>1, <1>2 DEF IInv, DmaInv, WrittenInv
<1>5. SrcInv'
      BY <1>1, <1>2 DEF IInv, DmaInv, SrcInv
<1>6. LoopInv' /\ BlockInv' /\ EngineInv' /\ DstInv'
      BY <1>1 DEF IInv, DmaInv, LoopInv, BlockInv, EngineInv, DstInv, Copied
<1> QED
    BY <1>2, <1>3, <1>4, <1>5, <1>6 DEF IInv, DmaInv

(* The second barrier: the block is in memory too. *)
LEMMA StartStep ==
  ASSUME IInv, Start
  PROVE  IInv'
<1>1. /\ pc = "start" /\ pc' = "wait" /\ pend = {} /\ active' = TRUE /\ block' = None
      /\ UNCHANGED <<mem, cache, dirty, pend, job, frame, begin, stop, enabled, block_addr,
                     left>>
      BY DEF Start, MemoryBarrier, cacheVars, callVars, loopVars
<1>2. /\ Src' = Src /\ Coherent' /\ CacheTypeOK'
      /\ \A a \in Src : View(a)' = frame
      /\ View(BlockAddr)' = job
      BY <1>1, Calm
<1>3. TypeOK'
      BY <1>1, <1>2 DEF IInv, TypeOK, CacheTypeOK
<1>4. WrittenInv'
      BY <1>1, <1>2 DEF IInv, DmaInv, WrittenInv
<1>5. SrcInv'
      BY <1>1, <1>2 DEF IInv, DmaInv, SrcInv
<1>6. LoopInv' /\ BlockInv' /\ EngineInv' /\ DstInv'
      BY <1>1 DEF IInv, DmaInv, LoopInv, BlockInv, EngineInv, DstInv, Copied
<1> QED
    BY <1>2, <1>3, <1>4, <1>5, <1>6 DEF IInv, DmaInv

(* The channel is done: all of the copy is in memory. *)
LEMMA WaitDoneStep ==
  ASSUME IInv, WaitDone
  PROVE  IInv'
<1>1. /\ pc = "wait" /\ pc' = "dst" /\ ~active /\ left' = 0
      /\ begin' = First(Jobs[job].dst * WordBytes)
      /\ stop' = End(Jobs[job].dst * WordBytes, Jobs[job].len * WordBytes)
      /\ UNCHANGED <<mem, cache, dirty, pend, job, frame, enabled, block_addr, active, block>>
      BY DEF WaitDone, Range, cacheVars, callVars
<1>2. /\ Src' = Src /\ Dst' = Dst /\ Coherent' /\ CacheTypeOK'
      /\ \A a \in Src : View(a)' = frame
      /\ View(BlockAddr)' = job
      BY <1>1, Calm
<1>3. job \in DOMAIN Jobs /\ Jobs[job].dst \in Nat /\ Jobs[job].len \in Nat \ {0}
      BY <1>1, InCall
<1>4. /\ begin' \in Nat /\ begin' % Width = 0 /\ stop' \in Nat
      /\ \A a \in Dst : ~(a * WordBytes < begin')
      BY <1>1, <1>3, LoopBegins DEF Dst
<1>5. \A a \in Dst : mem[a] = frame
  <2>1. left = 0 /\ \A a \in Dst : a < Jobs[job].dst + Jobs[job].len - left => mem[a] = frame
        BY <1>1 DEF IInv, DmaInv, EngineInv
  <2>2. \A a \in Dst : a < Jobs[job].dst + Jobs[job].len - 0
        BY <1>3 DEF Dst, Words
  <2> QED
      BY <2>1, <2>2
<1>6. TypeOK'
      BY <1>1, <1>2, <1>4 DEF IInv, TypeOK, CacheTypeOK
<1>7. WrittenInv'
      BY <1>1, <1>2 DEF IInv, DmaInv, WrittenInv
<1>8. LoopInv'
      BY <1>1, <1>4 DEF LoopInv, LoopAt
<1>9. SrcInv' /\ BlockInv' /\ EngineInv'
      BY <1>1 DEF IInv, DmaInv, SrcInv, BlockInv, EngineInv
<1>10. DstInv'
       BY <1>1, <1>2, <1>4, <1>5 DEF DstInv, Copied
<1> QED
    BY <1>2, <1>6, <1>7, <1>8, <1>9, <1>10 DEF IInv, DmaInv

(* Memory holds what the cores see of a line that is not dirty.            *)
LEMMA InMemory ==
  ASSUME IInv, NEW a \in Addr, ~IsDst(a), LineOf(a) \notin dirty
  PROVE  mem[a] = View(a)
BY DEF IInv, DmaInv, Coherent, View

LEMMA ReadBlockStep ==
  ASSUME IInv, ReadBlock
  PROVE  IInv'
<1>1. /\ active /\ block = None
      /\ block' = mem[block_addr] /\ left' = Jobs[mem[block_addr]].len
      /\ UNCHANGED <<mem, cache, dirty, pend, pc, job, frame, begin, stop, enabled,
                     block_addr, active>>
      BY DEF ReadBlock, cacheVars, callVars, loopVars
<1>2. pc = "wait" /\ block_addr = BlockAddr
      BY <1>1 DEF IInv, DmaInv, EngineInv
<1>3. /\ Src' = Src /\ Dst' = Dst /\ Coherent' /\ CacheTypeOK'
      /\ \A a \in Src : View(a)' = frame
      /\ View(BlockAddr)' = job
      BY <1>1, <1>2, Calm
<1>4. /\ job \in DOMAIN Jobs /\ job \in Nat \ {0} /\ Jobs[job].dst \in Nat
      /\ Jobs[job].len \in Nat \ {0}
      BY <1>2, InCall
<1>5. mem[BlockAddr] = job
  <2>1. LineOf(BlockAddr) \notin dirty /\ View(BlockAddr) = job
        BY <1>2 DEF IInv, DmaInv, BlockInv, WrittenInv
  <2> QED
      BY <2>1, BlockIs, InMemory
<1>6. block' = job /\ left' = Jobs[job].len
      BY <1>1, <1>2, <1>5
<1>7. TypeOK'
      BY <1>1, <1>3, <1>4, <1>6 DEF IInv, TypeOK, CacheTypeOK
<1>8. WrittenInv'
      BY <1>1, <1>2, <1>3 DEF IInv, DmaInv, WrittenInv
<1>9. SrcInv'
      BY <1>1, <1>3 DEF IInv, DmaInv, SrcInv
<1>10. LoopInv' /\ BlockInv' /\ DstInv'
       BY <1>1, <1>2 DEF IInv, DmaInv, LoopInv, BlockInv, DstInv, Copied
<1>11. EngineInv'
  <2>1. \A a \in Dst : ~(a < Jobs[job].dst + Jobs[job].len - Jobs[job].len)
        BY <1>4 DEF Dst, Words
  <2>2. Jobs[job].len <= Jobs[job].len
        BY <1>4
  <2> QED
      BY <1>1, <1>2, <1>3, <1>6, <2>1, <2>2 DEF EngineInv
<1> QED
    BY <1>3, <1>7, <1>8, <1>9, <1>10, <1>11 DEF IInv, DmaInv

LEMMA FinishStep ==
  ASSUME IInv, Finish
  PROVE  IInv'
<1>1. /\ active /\ block # None /\ left = 0 /\ active' = FALSE
      /\ UNCHANGED <<mem, cache, dirty, pend, pc, job, frame, begin, stop, enabled,
                     block_addr, block, left>>
      BY DEF Finish, cacheVars, callVars, loopVars
<1>2. pc = "wait"
      BY <1>1 DEF IInv, DmaInv, EngineInv
<1>3. /\ Src' = Src /\ Dst' = Dst /\ Coherent' /\ CacheTypeOK'
      /\ \A a \in Src : View(a)' = frame
      /\ View(BlockAddr)' = job
      BY <1>1, <1>2, Calm
<1>4. TypeOK'
      BY <1>1, <1>3 DEF IInv, TypeOK, CacheTypeOK
<1>5. WrittenInv'
      BY <1>1, <1>2, <1>3 DEF IInv, DmaInv, WrittenInv
<1>6. SrcInv'
      BY <1>1, <1>3 DEF IInv, DmaInv, SrcInv
<1>7. LoopInv' /\ BlockInv' /\ DstInv'
      BY <1>1, <1>2 DEF IInv, DmaInv, LoopInv, BlockInv, DstInv, Copied
<1>8. EngineInv'
      BY <1>1, <1>2, <1>3 DEF IInv, DmaInv, EngineInv
<1> QED
    BY <1>3, <1>4, <1>5, <1>6, <1>7, <1>8 DEF IInv, DmaInv

(* A word read from memory is a word the core drew.                        *)
LEMMA CopyWordStep ==
  ASSUME IInv, CopyWord
  PROVE  IInv'
<1> DEFINE j == Jobs[job]
           i == j.len - left
<1>1. /\ active /\ left > 0 /\ left' = left - 1
      /\ UNCHANGED <<cache, dirty, pend, pc, job, frame, begin, stop, enabled, block_addr,
                     active, block>>
      BY DEF CopyWord, callVars, loopVars
<1>2. pc = "wait" /\ left \in Nat \ {0}
      BY <1>1 DEF IInv, TypeOK, DmaInv, EngineInv
<1>3. /\ block = job /\ left <= j.len
      /\ \A a \in Dst : a < j.dst + i => mem[a] = frame
  <2>1. \/ active /\ block = None /\ left = 0
        \/ /\ block = job /\ left <= Jobs[job].len /\ (active \/ left = 0)
           /\ \A a \in Dst : a < Jobs[job].dst + Jobs[job].len - left => mem[a] = frame
        BY <1>2 DEF IInv, DmaInv, EngineInv
  <2>2. /\ block = job /\ left <= Jobs[job].len
        /\ \A a \in Dst : a < Jobs[job].dst + Jobs[job].len - left => mem[a] = frame
        BY <1>2, <2>1
  <2>3. Jobs[job].dst \in Nat /\ Jobs[job].len \in Nat
        BY <1>2, InCall
  <2>4. j.dst + i = Jobs[job].dst + Jobs[job].len - left
        BY <1>2, <2>3
  <2> QED
      BY <2>2, <2>4
<1>4. mem' = [mem EXCEPT ![j.dst + i] = mem[j.src + i]]
      BY <1>3 DEF CopyWord
<1>5. /\ job \in DOMAIN Jobs /\ j.src \in Nat /\ j.dst \in Nat /\ j.len \in Nat \ {0}
      /\ Src \subseteq Addr /\ Dst \subseteq Addr
      /\ \A a \in Src : ~IsDst(a) /\ View(a) = frame
      /\ \A a \in Dst : IsDst(a)
      BY <1>2, InCall
<1>6. i \in Nat /\ i < j.len /\ j.len - left' = i + 1 /\ left' \in Nat /\ left' <= j.len
      BY <1>1, <1>2, <1>3, <1>5
<1>7. j.src + i \in Src /\ j.dst + i \in Dst
  <2>1. j.src + i \in j.src .. j.src + j.len - 1 /\ j.dst + i \in j.dst .. j.dst + j.len - 1
        BY <1>5, <1>6
  <2> QED
      BY <2>1 DEF Src, Dst, Words
<1>8. mem[j.src + i] = frame
  <2>1. LineOf(j.src + i) \notin dirty
        BY <1>2, <1>7 DEF IInv, DmaInv, SrcInv
  <2> QED
      BY <1>5, <1>7, <2>1, InMemory
<1> HIDE DEF i
<1>9. /\ mem' \in [Addr -> Nat]
      /\ \A a \in Addr : mem'[a] = IF a = j.dst + i THEN frame ELSE mem[a]
  <2>1. frame \in Nat /\ mem \in [Addr -> Nat]
        BY DEF IInv, TypeOK
  <2> QED
      BY <1>4, <1>5, <1>7, <1>8, <2>1
<1>10. \A a \in Addr : ~IsDst(a) => mem'[a] = mem[a] /\ View(a)' = View(a)
       BY <1>1, <1>5, <1>7, <1>9 DEF View
<1>11. Src' = Src /\ Dst' = Dst
       BY <1>1 DEF Src, Dst
<1>12. TypeOK'
       BY <1>1, <1>6, <1>9 DEF IInv, TypeOK, InCache
<1>13. Coherent'
       BY <1>1, <1>10 DEF IInv, DmaInv, Coherent
<1>14. WrittenInv'
       BY <1>1, <1>2, <1>5, <1>10, <1>11, BlockIs DEF IInv, DmaInv, WrittenInv
<1>15. SrcInv'
       BY <1>1, <1>11 DEF IInv, DmaInv, SrcInv
<1>16. LoopInv' /\ BlockInv' /\ DstInv'
       BY <1>1, <1>2 DEF IInv, DmaInv, LoopInv, BlockInv, DstInv, Copied
<1>17. EngineInv'
  <2>1. \A a \in Dst : a < j.dst + i + 1 => mem'[a] = frame
    <3>1. ASSUME NEW a \in Dst, a < j.dst + i + 1
          PROVE  mem'[a] = frame
      <4>1. a \in Nat /\ a \in Addr
            BY <1>5 DEF Addr
      <4>2. a < j.dst + i \/ a = j.dst + i
            BY <1>5, <1>6, <3>1, <4>1
      <4> QED
          BY <1>3, <1>9, <4>1, <4>2
    <3> QED
        BY <3>1
  <2>2. Jobs[job].dst + Jobs[job].len - left' = j.dst + i + 1
        BY <1>5, <1>6
  <2> QED
      BY <1>1, <1>2, <1>3, <1>6, <1>11, <2>1, <2>2 DEF IInv, DmaInv, EngineInv
<1> QED
    BY <1>12, <1>13, <1>14, <1>15, <1>16, <1>17 DEF IInv, DmaInv

-----------------------------------------------------------------------------
LEMMA Invariant == Spec => []IInv
<1>1. Init => IInv
  <2> SUFFICES ASSUME Init PROVE IInv
      OBVIOUS
  <2>1. TypeOK
    <3>1. 0 \in Addr
          BY DEF DmaAssumption, Addr
    <3>2. frame \in 0 .. MaxFrames
          BY DEF Init, DmaAssumption
    <3> QED
        BY <3>1, <3>2 DEF Init, TypeOK, Nil, None
  <2>2. Coherent /\ WrittenInv /\ LoopInv /\ SrcInv /\ BlockInv /\ EngineInv /\ DstInv
        BY DEF Init, Coherent, WrittenInv, LoopInv, SrcInv, BlockInv, EngineInv, DstInv, Copied
  <2> QED
      BY <2>1, <2>2 DEF IInv, DmaInv
<1>2. ASSUME IInv, [Next]_vars
      PROVE  IInv'
  <2>1. ASSUME NEW j \in DOMAIN Jobs, Call(j)
        PROVE  IInv'
        BY <1>2, <2>1, CallStep
  <2>2. CASE CpuStep
        BY <1>2, <2>2, InitBlockStep, MaintainLineStep, MaintainDoneStep, EnableStep, ResetStep,
           SetBlockAddrStep, StartStep, WaitDoneStep DEF CpuStep
  <2>3. CASE EngineStep
        BY <1>2, <2>3, ReadBlockStep, CopyWordStep, FinishStep DEF EngineStep
  <2>4. ASSUME NEW l \in Line, Evict(l) \/ Fetch(l) \/ Complete(l)
        PROVE  IInv'
        BY <1>2, <2>4, CacheStep
  <2>5. CASE UNCHANGED vars
    <3>1. UNCHANGED <<mem, cache, dirty, pend, pc, job, frame, begin, stop, enabled, block_addr,
                      active, block, left>>
          BY <2>5 DEF vars
    <3>2. /\ Src' = Src /\ Dst' = Dst /\ \A a \in Addr : View(a)' = View(a)
          /\ Coherent' /\ CacheTypeOK'
          BY <1>2, <3>1, Calm
    <3>3. TypeOK'
          BY <1>2, <3>1, <3>2 DEF IInv, TypeOK, CacheTypeOK
    <3>4. WrittenInv' /\ LoopInv' /\ SrcInv' /\ BlockInv' /\ EngineInv' /\ DstInv'
          BY <1>2, <3>1 DEF IInv, DmaInv, WrittenInv, LoopInv, LoopAt, SrcInv, BlockInv,
                            EngineInv, DstInv, Copied, Src, Dst, View
    <3> QED
        BY <3>2, <3>3, <3>4 DEF IInv, DmaInv
  <2> QED
      BY <1>2, <2>1, <2>2, <2>3, <2>4, <2>5 DEF Next
<1> QED
    BY <1>1, <1>2, PTL DEF Spec, SafeSpec

(* The variables keep their types: what is dirty is in the cache, and only *)
(* lines of memory are ever maintained.                                    *)
THEOREM TypeCorrect == Spec => []TypeOK
<1>1. IInv => TypeOK
      BY DEF IInv
<1> QED
    BY <1>1, Invariant, PTL

(* For any copies that share no line with what the cores write, and any    *)
(* doings of the cache: when dma_memcpy32 returns, the destination holds   *)
(* the frame that was drawn, in memory and for the loads of the cores.     *)
THEOREM CopyIsThere == Spec => []Copied
<1>1. IInv => Copied
      BY DEF IInv, DmaInv, DstInv
<1> QED
    BY <1>1, Invariant, PTL

(* The two barriers of dma_run_async are where they have to be: the engine *)
(* never works on the block of an earlier call, nor on a source of which   *)
(* a line is still in the cache only.                                      *)
THEOREM EngineSees == Spec => []EngineSeesTheCall
<1>1. ASSUME IInv
      PROVE  EngineSeesTheCall
  <2>1. SUFFICES ASSUME active, block # None
                 PROVE  /\ block = job
                        /\ Lines(Jobs[job].src, Jobs[job].len) \intersect dirty = {}
        BY DEF EngineSeesTheCall
  <2>2. pc = "wait"
        BY <1>1, <2>1 DEF IInv, DmaInv, EngineInv
  <2>3. block = job
        BY <1>1, <2>1, <2>2 DEF IInv, DmaInv, EngineInv
  <2>4. \A a \in Src : LineOf(a) \notin dirty
        BY <1>1, <2>2 DEF IInv, DmaInv, SrcInv
  <2> QED
      BY <2>3, <2>4 DEF Lines, Src
<1> QED
    BY <1>1, Invariant, PTL
=============================================================================
