----------------------------- MODULE Mmu32_proof -----------------------------
(***************************************************************************)
(* What the run of MCMmu32 checks on four sections of four pages, proved   *)
(* for sections and a boundary of any size, any room for coarse tables and *)
(* any served calls: every descriptor maps its section to itself, the      *)
(* tables implement AddressMap, and a call takes two coarse tables at most *)
(* and none of TTBR1's.                                                    *)
(***************************************************************************)
EXTENDS Mmu32, TLAPS

-----------------------------------------------------------------------------
(* The arithmetic of pages: page p is the one of offset Off(p) of section  *)
(* Sec(p).                                                                 *)
LEMMA Divided ==
  ASSUME NEW n \in Nat, NEW k \in Nat \ {0}
  PROVE  /\ n \div k \in Nat /\ n % k \in 0 .. k - 1
         /\ n = k * (n \div k) + (n % k)
<1> DEFINE q == n \div k
           r == n % k
<1>1. q \in Int
      OBVIOUS
<1>2. r \in 0 .. k - 1
      OBVIOUS
<1>3. n = k * q + r
      OBVIOUS
<1> HIDE DEF q, r
<1>4. ASSUME q <= -1
      PROVE  FALSE
  <2>1. k * q <= k * (-1)
        BY <1>1, <1>4
  <2> QED
      BY <1>1, <1>2, <1>3, <2>1
<1> QED
    BY <1>1, <1>2, <1>3, <1>4 DEF q, r

LEMMA Distinct ==
  ASSUME NEW k \in Nat \ {0}, NEW q \in Nat, NEW u \in Nat, q < u,
         NEW r \in 0 .. k - 1, NEW v \in 0 .. k - 1
  PROVE  k * q + r < k * u + v
<1> DEFINE d == u - q - 1
<1>1. d \in Nat /\ u = q + 1 + d
      OBVIOUS
<1> HIDE DEF d
<1>2. k * u = k * q + k + k * d
      BY <1>1
<1>3. k * d \in Nat
      BY <1>1
<1>4. k * q \in Nat
      OBVIOUS
<1> QED
    BY <1>2, <1>3, <1>4

LEMMA Unique ==
  ASSUME NEW k \in Nat \ {0}, NEW u \in Nat, NEW v \in 0 .. k - 1
  PROVE  (k * u + v) \div k = u /\ (k * u + v) % k = v
<1> DEFINE n == k * u + v
           q == n \div k
           r == n % k
<1>1. n \in Nat
  <2>1. k * u \in Nat
        OBVIOUS
  <2> QED
      BY <2>1
<1>2. q \in Nat /\ r \in 0 .. k - 1 /\ k * q + r = k * u + v
      BY <1>1, Divided
<1> HIDE DEF n, q, r
<1>3. ~(q < u) /\ ~(u < q)
      BY <1>2, Distinct
<1>4. q = u
      BY <1>2, <1>3
<1>5. r = v
      BY <1>2, <1>4
<1> QED
    BY <1>4, <1>5 DEF n, q, r

Sec(p) == p \div SectionPages
Off(p) == p % SectionPages

LEMMA Sizes ==
  /\ SectionPages \in Nat \ {0} /\ PageBytes \in Nat \ {0} /\ Granule \in Nat \ {0}
  /\ Sections \in Nat \ {0} /\ Boundary \in Nat \ {0} /\ Boundary < Sections
  /\ Tables0 \in Nat /\ Tables1 \in Nat /\ MaxCalls \in Nat
  /\ SectionPages % Granule = 0
  BY MmuAssumption

LEMMA Place ==
  ASSUME NEW p \in Nat
  PROVE  /\ Sec(p) \in Nat /\ Off(p) \in 0 .. SectionPages - 1
         /\ p = SectionPages * Sec(p) + Off(p)
  BY Sizes, Divided DEF Sec, Off

LEMMA PlaceOf ==
  ASSUME NEW s \in Nat, NEW i \in 0 .. SectionPages - 1
  PROVE  /\ Sec(SectionPages * s + i) = s /\ Off(SectionPages * s + i) = i
         /\ SectionPages * s + i \in Nat
<1>1. SectionPages \in Nat \ {0}
      BY Sizes
<1>2. SectionPages * s \in Nat
      BY <1>1
<1> QED
    BY <1>1, <1>2, Unique DEF Sec, Off

(* The page of a place in the address space, and the place of a page. *)
LEMMA InSpace ==
  ASSUME NEW n \in Nat, NEW s \in Nat, NEW i \in 0 .. SectionPages - 1
  PROVE  (SectionPages * s + i < n * SectionPages) <=> (s < n)
<1>1. SectionPages \in Nat \ {0}
      BY Sizes
<1>2. ASSUME s < n
      PROVE  SectionPages * s + i < SectionPages * n + 0
  <2>1. 0 \in 0 .. SectionPages - 1
        BY <1>1
  <2> QED
      BY <1>1, <1>2, <2>1, Distinct
<1>3. ASSUME n < s
      PROVE  SectionPages * n + 0 < SectionPages * s + i
  <2>1. 0 \in 0 .. SectionPages - 1
        BY <1>1
  <2> QED
      BY <1>1, <1>3, <2>1, Distinct
<1>4. SectionPages * s \in Nat /\ SectionPages * n \in Nat /\ n * SectionPages = SectionPages * n
      BY <1>1
<1>5. CASE s = n
      BY <1>4, <1>5
<1>6. CASE s # n
  <2>1. s < n \/ n < s
        BY <1>6
  <2> QED
      BY <1>2, <1>3, <1>4, <2>1
<1> QED
    BY <1>5, <1>6

LEMMA Within ==
  ASSUME NEW n \in Nat, NEW p \in Nat
  PROVE  (p < n * SectionPages) <=> (Sec(p) < n)
<1>1. /\ Sec(p) \in Nat /\ Off(p) \in 0 .. SectionPages - 1
      /\ p = SectionPages * Sec(p) + Off(p)
      BY Place
<1>2. (SectionPages * Sec(p) + Off(p) < n * SectionPages) <=> (Sec(p) < n)
      BY <1>1, InSpace
<1> QED
    BY <1>1, <1>2

LEMMA Pages ==
  ASSUME NEW p \in Page
  PROVE  p \in Nat /\ Sec(p) \in 0 .. Sections - 1
<1>1. Sections * SectionPages \in Nat
      BY Sizes
<1>2. p \in Nat /\ p < Sections * SectionPages
      BY <1>1 DEF Page
<1>3. Sec(p) < Sections
      BY <1>2, Sizes, Within
<1> QED
    BY <1>2, <1>3, Sizes, Place

LEMMA PageOf ==
  ASSUME NEW s \in 0 .. Sections - 1, NEW i \in 0 .. SectionPages - 1
  PROVE  SectionPages * s + i \in Page
<1>1. Sections * SectionPages \in Nat /\ SectionPages * s + i \in Nat
      BY Sizes, PlaceOf
<1>2. SectionPages * s + i < Sections * SectionPages
      BY Sizes, InSpace
<1> QED
    BY <1>1, <1>2 DEF Page

LEMMA BelowBoundary ==
  ASSUME NEW p \in Nat
  PROVE  Ttbr0(p) <=> Sec(p) < Boundary
  BY Sizes, Within DEF Ttbr0

(* The next page, and the next section. *)
LEMMA NextPage ==
  ASSUME NEW p \in Nat
  PROVE  \/ Off(p + 1) = 0 /\ Sec(p + 1) = Sec(p) + 1 /\ Off(p) = SectionPages - 1
         \/ Off(p + 1) = Off(p) + 1 /\ Sec(p + 1) = Sec(p) /\ Off(p) < SectionPages - 1
<1> DEFINE k == SectionPages
           s == Sec(p)
           i == Off(p)
<1>1. k \in Nat \ {0} /\ s \in Nat /\ i \in 0 .. k - 1 /\ p = k * s + i
      BY Sizes, Place
<1>2. CASE i = k - 1
  <2>1. p + 1 = k * (s + 1) + 0 /\ 0 \in 0 .. k - 1 /\ s + 1 \in Nat
    <3> HIDE DEF k, s, i
    <3>1. k * (s + 1) = k * s + k /\ k * s \in Nat
          BY <1>1
    <3> QED
        BY <1>1, <1>2, <3>1
  <2>2. Sec(k * (s + 1) + 0) = s + 1 /\ Off(k * (s + 1) + 0) = 0
        BY <2>1, PlaceOf
  <2> QED
      BY <1>2, <2>1, <2>2
<1>3. CASE i # k - 1
  <2>1. p + 1 = k * s + (i + 1) /\ i + 1 \in 0 .. k - 1 /\ i < k - 1
    <3>1. k * s \in Nat
          BY <1>1
    <3> HIDE DEF k, s, i
    <3> QED
        BY <1>1, <1>3, <3>1
  <2>2. Sec(k * s + (i + 1)) = s /\ Off(k * s + (i + 1)) = i + 1
        BY <1>1, <2>1, PlaceOf
  <2> QED
      BY <2>1, <2>2
<1> QED
    BY <1>2, <1>3

LEMMA NextSection ==
  ASSUME NEW p \in Nat, Off(p) = 0
  PROVE  Off(p + SectionPages) = 0 /\ Sec(p + SectionPages) = Sec(p) + 1
<1>1. /\ SectionPages \in Nat \ {0} /\ Sec(p) \in Nat /\ p = SectionPages * Sec(p)
      BY Sizes, Place
<1>2. p + SectionPages = SectionPages * (Sec(p) + 1) + 0
      BY <1>1
<1>3. Sec(p) + 1 \in Nat /\ 0 \in 0 .. SectionPages - 1
      BY <1>1
<1> QED
    BY <1>2, <1>3, PlaceOf

LEMMA Apart ==
  ASSUME NEW p \in Nat, NEW q \in Nat, Off(p) = 0, Off(q) = 0, p < q
  PROVE  p + SectionPages <= q
<1> DEFINE k == SectionPages
           s == Sec(p)
           u == Sec(q)
<1>1. k \in Nat \ {0} /\ s \in Nat /\ u \in Nat /\ p = k * s /\ q = k * u
      BY Sizes, Place
<1> HIDE DEF k, s, u
<1>2. s < u
  <2> SUFFICES ASSUME u <= s
               PROVE  FALSE
      BY <1>1
  <2>1. CASE u = s
        BY <1>1, <2>1
  <2>2. CASE u < s
    <3>1. k * u + 0 < k * s + 0
          BY <1>1, <2>2, Distinct
    <3> QED
        BY <1>1, <3>1
  <2> QED
      BY <1>1, <2>1, <2>2
<1>3. PICK d \in Nat : u = s + 1 + d
  <2>1. u - s - 1 \in Nat /\ u = s + 1 + (u - s - 1)
        BY <1>1, <1>2
  <2> QED
      BY <2>1
<1>4. k * u = k * s + k + k * d /\ k * d \in Nat /\ k * s \in Nat
      BY <1>1, <1>3
<1>5. p + k <= q
      BY <1>1, <1>4
<1> QED
    BY <1>5 DEF k

(* A section is a whole number of the granules of TTBR1, so a page that    *)
(* begins a section begins a granule, and one that is rounded down to the  *)
(* start of a section is in its first granule.                             *)
LEMMA GranuleOf ==
  ASSUME NEW p \in Nat
  PROVE  /\ Off(p) = 0 => Align(p, Granule) = p
         /\ Align(p, Granule) \in Nat
         /\ Off(Align(p, Granule)) = 0 => Off(p) < Granule
<1> DEFINE g == Granule
           k == SectionPages
           m == k \div g
<1>1. g \in Nat \ {0} /\ k \in Nat \ {0} /\ m \in Nat /\ k = g * m
  <2>1. g \in Nat \ {0} /\ k \in Nat \ {0} /\ k % g = 0
        BY Sizes
  <2>2. m \in Nat /\ k = g * m + (k % g)
        BY <2>1, Divided
  <2> HIDE DEF m
  <2>3. g * m \in Nat
        BY <2>1, <2>2
  <2> QED
      BY <2>1, <2>2, <2>3
<1> HIDE DEF g, k, m
<1>2. g <= k
  <2>1. m # 0
        BY <1>1
  <2>2. m - 1 \in Nat /\ g * m = g + g * (m - 1)
        BY <1>1, <2>1
  <2>3. g * (m - 1) \in Nat
        BY <1>1, <2>2
  <2> QED
      BY <1>1, <2>2, <2>3
<1>3. Off(p) = 0 => p % g = 0
  <2> SUFFICES ASSUME Off(p) = 0
               PROVE  p % g = 0
      OBVIOUS
  <2>1. Sec(p) \in Nat /\ p = k * Sec(p)
        BY Sizes, Place DEF k
  <2>2. p = g * (m * Sec(p)) + 0 /\ m * Sec(p) \in Nat /\ 0 \in 0 .. g - 1
        BY <1>1, <2>1
  <2> QED
      BY <1>1, <2>2, Unique
<1>4. /\ p % g \in 0 .. g - 1 /\ Align(p, g) = p - (p % g)
      /\ p = g * (p \div g) + (p % g) /\ p \div g \in Nat
      BY <1>1, Divided DEF Align
<1>5. Align(p, g) \in Nat
  <2>1. g * (p \div g) \in Nat
        BY <1>1, <1>4
  <2> QED
      BY <1>4, <2>1
<1>6. Off(Align(p, g)) = 0 => Off(p) < g
  <2> SUFFICES ASSUME Off(Align(p, g)) = 0
               PROVE  Off(p) < g
      OBVIOUS
  <2> DEFINE b == Align(p, g)
  <2>5. Sec(b) \in Nat /\ Off(b) = 0 /\ b = SectionPages * Sec(b) + Off(b)
        BY <1>5, Place
  <2>6. b = k * Sec(b)
    <3>1. k * Sec(b) \in Nat
          BY <1>1, <2>5
    <3> QED
        BY <2>5, <3>1 DEF k
  <2>1. PICK s \in Nat : Align(p, g) = k * s
        BY <2>5, <2>6
  <2>2. p = k * s + (p % g)
        BY <1>4, <1>5, <2>1
  <2>3. p % g \in 0 .. k - 1 /\ p % g < g
        BY <1>1, <1>2, <1>4
  <2>4. Off(k * s + (p % g)) = p % g
        BY <2>3, PlaceOf DEF k
  <2> QED
      BY <2>2, <2>3, <2>4
<1>7. Off(p) = 0 => Align(p, g) = p
      BY <1>3, <1>4
<1> QED
    BY <1>5, <1>6, <1>7 DEF g

-----------------------------------------------------------------------------
(* The bits of the descriptors: the fields put in a section are those read *)
(* from it, and from the small pages it is moved to.                       *)
Fields == DOMAIN SectionBit

LEMMA FieldNames ==
  Fields = {"B", "C", "XN", "AP0", "AP1", "TEX0", "TEX1", "TEX2", "APX", "S"}
  BY DEF Fields, SectionBit

LEMMA Injective ==
  ASSUME NEW f \in Fields, NEW g \in Fields, SectionBit[f] = SectionBit[g]
  PROVE  f = g
  BY FieldNames DEF SectionBit

LEMMA BitsOf ==
  ASSUME NEW f \in Fields
  PROVE  SectionBit[f] \in {2, 3, 4} \union 10 .. 16
  BY FieldNames DEF SectionBit

LEMMA Sets ==
  ASSUME NEW F \in SUBSET Fields
  PROVE  DescriptorSection(F) \subseteq {2, 3, 4} \union 10 .. 16
  BY BitsOf DEF DescriptorSection

LEMMA ReadsSection ==
  ASSUME NEW F \in SUBSET Fields
  PROVE  ReadSection(DescriptorSection(F)) = F
<1>1. ASSUME NEW f \in Fields
      PROVE  (SectionBit[f] \in DescriptorSection(F)) <=> (f \in F)
      BY Injective DEF DescriptorSection
<1> QED
    BY <1>1 DEF ReadSection, Fields

(* Where descriptor_section_to_small puts a bit is where a small page has  *)
(* the field.                                                              *)
LEMMA Moved ==
  ASSUME NEW D, D \subseteq {2, 3, 4} \union 10 .. 16, NEW f \in Fields
  PROVE  (SmallBit[f] \in ToSmall(D)) <=> (SectionBit[f] \in D)
<1> DEFINE Same(x, y) == x \in ToSmall(D) <=> y \in D
<1>1. ASSUME NEW x
      PROVE  x \in ToSmall(D) <=> \/ x \in D /\ x \in 2 .. 3
                                  \/ x = 4 - 4 /\ 4 \in D
                                  \/ \E b \in D : b \in 10 .. 16 /\ x = b - 6
      BY DEF ToSmall
<1>2. ASSUME NEW b \in 10 .. 16
      PROVE  Same(b - 6, b)
  <2>1. b - 6 \notin 2 .. 3 /\ b - 6 # 4 - 4
        BY <1>2
  <2>2. \A c \in 10 .. 16 : b - 6 = c - 6 => b = c
        BY <1>2
  <2> QED
      BY <1>1, <1>2, <2>1, <2>2
<1>3. Same(0, 4) /\ Same(2, 2) /\ Same(3, 3)
      BY <1>1
<1> HIDE DEF Same
<1>4. \A b \in 10 .. 16 : Same(b - 6, b)
      BY <1>2
<1>5. /\ Same(10 - 6, 10) /\ Same(11 - 6, 11) /\ Same(12 - 6, 12) /\ Same(13 - 6, 13)
      /\ Same(14 - 6, 14) /\ Same(15 - 6, 15) /\ Same(16 - 6, 16)
      BY <1>4
<1>6. /\ Same(4, 10) /\ Same(5, 11) /\ Same(6, 12) /\ Same(7, 13)
      /\ Same(8, 14) /\ Same(9, 15) /\ Same(10, 16)
      BY <1>5
<1>7. Same(SmallBit[f], SectionBit[f])
  <2>1. CASE f \in {"B", "C", "XN", "AP0", "AP1"}
        BY <1>3, <1>6, <2>1 DEF SmallBit, SectionBit
  <2>2. CASE f \in {"TEX0", "TEX1", "TEX2", "APX", "S"}
        BY <1>3, <1>6, <2>2 DEF SmallBit, SectionBit
  <2> QED
      BY <2>1, <2>2, FieldNames
<1> QED
    BY <1>7 DEF Same

LEMMA ReadsSmall ==
  ASSUME NEW F \in SUBSET Fields
  PROVE  /\ ReadSmall(ToSmall(DescriptorSection(F))) = F
         /\ ToSmall(DescriptorSection(F)) \subseteq 0 .. 10
<1> DEFINE D == DescriptorSection(F)
<1>1. D \subseteq {2, 3, 4} \union 10 .. 16
      BY Sets
<1>2. DOMAIN SmallBit = Fields
      BY FieldNames DEF SmallBit
<1>3. ReadSection(D) = F
      BY ReadsSection
<1> HIDE DEF D
<1>4. ReadSmall(ToSmall(D)) = ReadSection(D)
      BY <1>1, <1>2, Moved DEF ReadSmall, ReadSection, Fields
<1>5. ToSmall(D) \subseteq 0 .. 10
      BY <1>1 DEF ToSmall
<1> QED
    BY <1>3, <1>4, <1>5 DEF D

-----------------------------------------------------------------------------
(* A descriptor that maps section s to itself, by a section or by a coarse *)
(* table whose entries map each page to itself.                            *)
SmallIs(e, a) == \E F \in SUBSET Fields : e = SmallDesc(a, ToSmall(DescriptorSection(F)))

SectionIs(d, s) ==
  \E F \in SUBSET Fields : d = SectionDesc(s * SectionPages, DescriptorSection(F))

CoarseIs(d, s) ==
  \E t \in [0 .. SectionPages - 1 -> SmallPage] :
     /\ d = CoarseDesc(t)
     /\ \A i \in 0 .. SectionPages - 1 : SmallIs(t[i], SectionPages * s + i)

DescIs(d, s) == SectionIs(d, s) \/ CoarseIs(d, s)

End == start + size

(* A call has only whole sections left above the boundary, and is not in   *)
(* the first granule of a section, but at its start or too short for it.   *)
CallInv ==
  pc \in {"loop", "gave_up"} /\ size > 0 =>
    /\ End - 1 \in Page
    /\ Ttbr0(start) \/ Off(start) = 0
    /\ Ttbr0(End - 1) \/ Off(End) = 0
    /\ Off(start) = 0 \/ Off(start) >= Granule \/ size < SectionPages

KindInv ==
  /\ left0 \in 0 .. Tables0 /\ left1 = Tables1
  /\ pc \in {"boot", "idle", "loop", "gave_up"}
  /\ start \in Nat /\ size \in Nat
  /\ attributes \in Attributes \union {Normal} /\ calls \in 0 .. MaxCalls

DescInv ==
  /\ DOMAIN lvl0 = 0 .. Sections - 1
  /\ \A s \in 0 .. Sections - 1 :
       IF pc = "boot" THEN lvl0[s] = SectionDesc(0, {}) ELSE DescIs(lvl0[s], s)

IInv == KindInv /\ DescInv /\ CallInv

LEMMA FieldSets == Normal \in SUBSET Fields /\ Attributes \subseteq SUBSET Fields
  BY MmuAssumption DEF Fields

LEMMA NewSmall ==
  ASSUME NEW F \in SUBSET Fields, NEW a \in Page
  PROVE  /\ SmallIs(SmallDesc(a, ToSmall(DescriptorSection(F))), a)
         /\ SmallDesc(a, ToSmall(DescriptorSection(F))) \in SmallPage
<1>1. ToSmall(DescriptorSection(F)) \subseteq 0 .. 10
      BY ReadsSmall
<1> QED
    BY <1>1 DEF SmallIs, SmallDesc, SmallPage

LEMMA Typed == IInv => TypeOK
<1> SUFFICES ASSUME IInv
             PROVE  TypeOK
    OBVIOUS
<1>1. ASSUME NEW s \in 0 .. Sections - 1
      PROVE  \/ lvl0[s].type = "section" /\ lvl0[s].to \in Page /\ lvl0[s].bits \subseteq 2 .. 16
             \/ lvl0[s].type = "coarse" /\ lvl0[s].table \in [0 .. SectionPages - 1 -> SmallPage]
  <2>1. CASE lvl0[s] = SectionDesc(0, {})
    <3>1. 0 \in Page
      <4>1. 0 \in 0 .. Sections - 1 /\ 0 \in 0 .. SectionPages - 1 /\ SectionPages * 0 + 0 = 0
            BY Sizes
      <4> QED
          BY <4>1, PageOf
    <3> QED
        BY <2>1, <3>1 DEF SectionDesc
  <2>2. CASE SectionIs(lvl0[s], s)
    <3>1. PICK F \in SUBSET Fields : lvl0[s] = SectionDesc(s * SectionPages, DescriptorSection(F))
          BY <2>2 DEF SectionIs
    <3>2. s * SectionPages \in Page
      <4>1. 0 \in 0 .. SectionPages - 1 /\ SectionPages * s + 0 = s * SectionPages
            BY Sizes
      <4> QED
          BY <4>1, PageOf
    <3>3. DescriptorSection(F) \subseteq 2 .. 16
          BY Sets
    <3> QED
        BY <3>1, <3>2, <3>3 DEF SectionDesc
  <2>3. CASE CoarseIs(lvl0[s], s)
        BY <2>3 DEF CoarseIs, CoarseDesc
  <2> QED
      BY <2>1, <2>2, <2>3 DEF IInv, DescInv, DescIs
<1>2. left1 \in 0 .. Tables1
      BY Sizes DEF IInv, KindInv
<1> QED
    BY <1>1, <1>2 DEF IInv, KindInv, DescInv, TypeOK

LEMMA InitInv == Init => IInv
<1> SUFFICES ASSUME Init
             PROVE  IInv
    OBVIOUS
<1>1. KindInv
      BY Sizes DEF Init, KindInv
<1>2. DescInv
      BY DEF Init, DescInv
<1>3. CallInv
      BY DEF Init, CallInv
<1> QED
    BY <1>1, <1>2, <1>3 DEF IInv

LEMMA InitDescriptorsStep == IInv /\ InitDescriptors => IInv'
<1> SUFFICES ASSUME IInv, InitDescriptors
             PROVE  IInv'
    OBVIOUS
<1>1. /\ pc' = "idle" /\ lvl0' = [s \in 0 .. Sections - 1 |-> IdentitySection(s)]
      /\ UNCHANGED <<left0, left1, start, size, attributes, calls>>
      BY DEF IInv, DescInv, InitDescriptors
<1>2. KindInv'
      BY <1>1 DEF IInv, KindInv
<1>3. ASSUME NEW s \in 0 .. Sections - 1
      PROVE  DescIs(lvl0'[s], s)
      BY <1>1, FieldSets DEF IdentitySection, DescIs, SectionIs
<1>4. DescInv'
      BY <1>1, <1>3 DEF DescInv
<1>5. CallInv'
      BY <1>1 DEF CallInv
<1> QED
    BY <1>2, <1>4, <1>5 DEF IInv

-----------------------------------------------------------------------------
(* add_pages rounds its range to the pages that have a byte in it.         *)
First(r) == r.start \div PageBytes
Last(r)  == (r.end - 1) \div PageBytes

LEMMA Rounded ==
  ASSUME NEW k \in Nat \ {0}, NEW q \in Nat, NEW x \in 0 .. k - 1
  PROVE  /\ Align(k * q + x, k) = k * q
         /\ (k * q) \div k = q
<1>1. (k * q + x) % k = x
      BY Unique
<1>2. k * q \in Nat
      OBVIOUS
<1>3. 0 \in 0 .. k - 1 /\ (k * q + 0) \div k = q
  <2>1. 0 \in 0 .. k - 1
        OBVIOUS
  <2> QED
      BY <2>1, Unique
<1> QED
    BY <1>1, <1>2, <1>3 DEF Align

LEMMA Bytes ==
  ASSUME NEW r \in Ranges
  PROVE  /\ r.start \in Nat /\ r.end \in Nat /\ r.start < r.end
         /\ First(r) \in Nat /\ Last(r) \in Nat /\ Last(r) \in Page
         /\ \E x \in 0 .. PageBytes - 1 : r.start = PageBytes * First(r) + x
         /\ \E x \in 0 .. PageBytes - 1 : r.end - 1 = PageBytes * Last(r) + x
         /\ First(r) <= Last(r)
         /\ Ttbr0(First(r)) \/ Off(First(r)) = 0
         /\ Ttbr0(Last(r)) \/ Off(Last(r) + 1) = 0
         /\ \/ Off(First(r)) = 0 \/ Off(First(r)) >= Granule
            \/ Last(r) - First(r) + 1 < SectionPages
<1> DEFINE k == PageBytes
           f == First(r)
           l == Last(r)
<1>1. /\ r.start \in Nat /\ r.end \in Nat /\ r.start < r.end /\ l \in Page
      /\ Served(r)
      BY MmuAssumption DEF Last
<1>2. k \in Nat \ {0} /\ r.end - 1 \in Nat
      BY <1>1, Sizes
<1>3. /\ f \in Nat /\ r.start % k \in 0 .. k - 1 /\ r.start = k * f + (r.start % k)
      /\ l \in Nat /\ (r.end - 1) % k \in 0 .. k - 1 /\ r.end - 1 = k * l + ((r.end - 1) % k)
      BY <1>1, <1>2, Divided DEF First, Last
<1>4. f <= l
  <2> SUFFICES ASSUME l < f
               PROVE  FALSE
      BY <1>3
  <2> DEFINE x == r.start % k
             y == (r.end - 1) % k
  <2>1. x \in 0 .. k - 1 /\ y \in 0 .. k - 1 /\ r.start = k * f + x /\ r.end - 1 = k * l + y
        BY <1>3
  <2> HIDE DEF k, f, l, x, y
  <2>2. k * l + y < k * f + x
        BY <1>2, <1>3, <2>1, Distinct
  <2>3. r.end - 1 < r.start
        BY <2>1, <2>2
  <2> QED
      BY <1>1, <2>3
<1> QED
    BY <1>1, <1>3, <1>4 DEF Served, First, Last, Off

LEMMA StartsAt ==
  ASSUME NEW r \in Ranges
  PROVE  StartPage(r.start) = First(r)
<1> DEFINE f == First(r)
<1>1. f \in Nat /\ (Ttbr0(f) \/ Off(f) = 0)
      BY Bytes
<1>2. StartPage(r.start) = Align(f, LevelSize(Ttbr0(f), 1))
      BY DEF StartPage, First
<1> HIDE DEF f
<1>3. CASE Ttbr0(f)
  <2>1. 1 \in Nat \ {0} /\ 0 \in 0 .. 1 - 1 /\ 1 * f + 0 = f /\ 1 * f = f
        BY <1>1
  <2>2. Align(1 * f + 0, 1) = 1 * f
        BY <1>1, <2>1, Rounded
  <2>3. LevelSize(Ttbr0(f), 1) = 1
        BY <1>3 DEF LevelSize
  <2> QED
      BY <1>2, <2>1, <2>2, <2>3 DEF f
<1>4. CASE ~Ttbr0(f)
  <2>1. LevelSize(Ttbr0(f), 1) = Granule
        BY <1>4 DEF LevelSize
  <2>2. Align(f, Granule) = f
        BY <1>1, <1>4, GranuleOf
  <2> QED
      BY <1>2, <2>1, <2>2 DEF f
<1> QED
    BY <1>3, <1>4

LEMMA EndsAt ==
  ASSUME NEW r \in Ranges
  PROVE  EndPage(r.end, Ttbr0(First(r))) = Last(r) + 1
<1> DEFINE k == PageBytes
           f == First(r)
           l == Last(r)
<1>1. PICK x \in 0 .. k - 1 : r.end - 1 = k * l + x
      BY Bytes
<1>2. /\ k \in Nat \ {0} /\ f \in Nat /\ l \in Nat /\ f <= l /\ r.end \in Nat
      /\ Ttbr0(l) \/ Off(l + 1) = 0
      BY Sizes, Bytes
<1>3. ASSUME NEW b \in Nat
      PROVE  EndPage(r.end, Ttbr0(f)) =
               Align(r.end + LevelSize(Ttbr0(f), 1) * k - 1, LevelSize(Ttbr0(f), 1) * k) \div k
      BY DEF EndPage
<1> HIDE DEF k, f, l
<1>4. CASE Ttbr0(f)
  <2>1. LevelSize(Ttbr0(f), 1) * k = k
        BY <1>2, <1>4 DEF LevelSize
  <2>2. r.end + k - 1 = k * (l + 1) + x /\ l + 1 \in Nat
    <3>1. k * (l + 1) = k * l + k /\ k * l \in Nat
          BY <1>2
    <3> QED
        BY <1>1, <1>2, <3>1
  <2>3. Align(k * (l + 1) + x, k) = k * (l + 1) /\ (k * (l + 1)) \div k = l + 1
        BY <1>2, <2>2, Rounded
  <2> QED
      BY <1>3, <2>1, <2>2, <2>3 DEF f, l
<1>5. CASE ~Ttbr0(f)
  <2> DEFINE g == Granule
             b == g * k
  <2>1. g \in Nat \ {0} /\ b \in Nat \ {0}
        BY <1>2, Sizes
  <2>2. LevelSize(Ttbr0(f), 1) * k = b
        BY <1>5 DEF LevelSize
  <2>3. ~Ttbr0(l)
    <3>1. Boundary * SectionPages \in Nat
          BY Sizes
    <3> QED
        BY <1>2, <1>5, <3>1 DEF Ttbr0
  <2>4. Align(l + 1, g) = l + 1
        BY <1>2, <2>3, GranuleOf
  <2>5. PICK m \in Nat : l + 1 = g * m
    <3>1. (l + 1) \div g \in Nat /\ (l + 1) % g \in 0 .. g - 1
          /\ l + 1 = g * ((l + 1) \div g) + ((l + 1) % g)
      <4>1. l + 1 \in Nat
            BY <1>2
      <4> QED
          BY <2>1, <4>1, Divided
    <3>2. (l + 1) % g = 0
          BY <1>2, <2>4, <3>1 DEF Align
    <3>3. g * ((l + 1) \div g) \in Nat
          BY <2>1, <3>1
    <3> QED
        BY <1>2, <3>1, <3>2, <3>3
  <2>6. k * (l + 1) = b * m /\ k * (l + 1) = k * l + k /\ b * m \in Nat
        BY <1>2, <2>1, <2>5
  <2>7. b - k + x \in 0 .. b - 1
    <3>1. k * (g - 1) \in Nat /\ k * (g - 1) = b - k
          BY <1>2, <2>1
    <3> QED
        BY <1>1, <1>2, <2>1, <3>1
  <2>8. r.end + b - 1 = b * m + (b - k + x)
    <3>1. k * l \in Nat
          BY <1>2
    <3> HIDE DEF b, g
    <3> DEFINE z == b * m
               w == k * l
    <3>2. z = w + k /\ w \in Nat /\ z \in Nat /\ r.end - 1 = w + x
          BY <1>1, <2>6, <3>1
    <3> HIDE DEF z, w
    <3>3. r.end + b - 1 = z + (b - k + x)
          BY <1>2, <2>1, <3>2
    <3> QED
        BY <3>3 DEF z
  <2> HIDE DEF b, g
  <2>9. Align(b * m + (b - k + x), b) = b * m
        BY <2>1, <2>7, Rounded
  <2>10. (k * (l + 1)) \div k = l + 1
    <3>1. 0 \in 0 .. k - 1 /\ l + 1 \in Nat
          BY <1>2
    <3> QED
        BY <1>2, <3>1, Rounded
  <2> QED
      BY <1>3, <2>2, <2>6, <2>8, <2>9, <2>10 DEF f, l
<1> QED
    BY <1>4, <1>5

LEMMA AskedPages ==
  ASSUME NEW r \in Ranges
  PROVE  PagesOf(r) = First(r) .. Last(r)
<1> DEFINE k == PageBytes
           f == First(r)
           l == Last(r)
<1>1. PICK x \in 0 .. k - 1 : r.start = k * f + x
      BY Bytes
<1>2. PICK y \in 0 .. k - 1 : r.end - 1 = k * l + y
      BY Bytes
<1>3. /\ k \in Nat \ {0} /\ f \in Nat /\ l \in Nat /\ l \in Page
      /\ r.start \in Nat /\ r.end \in Nat
      BY Sizes, Bytes
<1> HIDE DEF k, f, l
<1>4. ASSUME NEW p \in Nat
      PROVE  (p * k < r.end) <=> (p <= l)
  <2>1. p * k = k * p + 0 /\ 0 \in 0 .. k - 1 /\ p * k \in Nat /\ k * l \in Nat
        BY <1>3
  <2>2. p < l => k * p + 0 < k * l + y
        BY <1>2, <1>3, <2>1, Distinct
  <2>3. l < p => k * l + y < k * p + 0
        BY <1>2, <1>3, <2>1, Distinct
  <2>4. p = l => p * k = k * l
        BY <1>3
  <2> QED
      BY <1>2, <1>3, <2>1, <2>2, <2>3, <2>4
<1>5. ASSUME NEW p \in Nat
      PROVE  (r.start < (p + 1) * k) <=> (f <= p)
  <2>1. (p + 1) * k = k * (p + 1) + 0 /\ 0 \in 0 .. k - 1 /\ (p + 1) * k \in Nat /\ p + 1 \in Nat
        BY <1>3
  <2>2. f < p + 1 => k * f + x < k * (p + 1) + 0
        BY <1>1, <1>3, <2>1, Distinct
  <2>3. p + 1 < f => k * (p + 1) + 0 < k * f + x
        BY <1>1, <1>3, <2>1, Distinct
  <2>4. p + 1 = f => (p + 1) * k = k * f
        BY <1>3
  <2>5. k * f \in Nat
        BY <1>3
  <2> QED
      BY <1>1, <1>3, <2>1, <2>2, <2>3, <2>4, <2>5
<1>6. Page \subseteq Nat
      BY Pages
<1>7. ASSUME NEW p \in Nat, p <= l
      PROVE  p \in Page
  <2>1. Sections * SectionPages \in Nat
        BY Sizes
  <2> QED
      BY <1>3, <1>7, <2>1 DEF Page
<1>8. PagesOf(r) = f .. l
  <2>1. ASSUME NEW p \in Nat
        PROVE  p \in PagesOf(r) <=> p \in f .. l
    <3>1. p \in PagesOf(r) <=> p \in Page /\ p * k < r.end /\ r.start < (p + 1) * k
          BY DEF PagesOf, k
    <3>2. p \in PagesOf(r) <=> p \in Page /\ p <= l /\ f <= p
          BY <1>4, <1>5, <3>1
    <3> QED
        BY <1>3, <1>7, <3>2
  <2>2. PagesOf(r) \subseteq Nat
        BY <1>6 DEF PagesOf
  <2>3. f .. l \subseteq Nat
        BY <1>3
  <2> QED
      BY <2>1, <2>2, <2>3
<1> QED
    BY <1>8 DEF f, l

LEMMA AddPagesStep ==
  ASSUME IInv, NEW r \in Ranges, NEW a \in Attributes, AddPages(r, a)
  PROVE  IInv' /\ Left' = PagesOf(r)
<1> DEFINE f == First(r)
           l == Last(r)
<1>1. /\ f \in Nat /\ l \in Nat /\ l \in Page /\ f <= l
      /\ Ttbr0(f) \/ Off(f) = 0
      /\ Ttbr0(l) \/ Off(l + 1) = 0
      /\ Off(f) = 0 \/ Off(f) >= Granule \/ l - f + 1 < SectionPages
      BY Bytes
<1>2. EndPage(r.end, Ttbr0(r.start \div PageBytes)) = l + 1
      BY EndsAt DEF First
<1>3. /\ pc = "idle" /\ pc' = "loop" /\ start' = f /\ size' = (l + 1) - f /\ attributes' = a
      /\ calls < MaxCalls /\ calls' = calls + 1 /\ UNCHANGED <<lvl0, left0, left1>>
      BY <1>2, StartsAt DEF AddPages
<1>4. PagesOf(r) = f .. l
      BY AskedPages
<1> HIDE DEF f, l
<1>5. /\ size' \in Nat /\ size' = l - f + 1
      /\ f + ((l + 1) - f) = l + 1 /\ (l + 1) - 1 = l
      BY <1>1, <1>3
<1>6. KindInv'
  <2>1. calls' \in 0 .. MaxCalls
        BY <1>3, Sizes DEF IInv, KindInv
  <2> QED
      BY <1>1, <1>3, <1>5, <2>1 DEF IInv, KindInv
<1>7. DescInv'
      BY <1>3 DEF IInv, DescInv
<1>8. End' = l + 1
      BY <1>3, <1>5 DEF End
<1>9. CallInv'
  <2>1. Ttbr0(start') <=> Ttbr0(f)
        BY <1>3
  <2> QED
      BY <1>1, <1>3, <1>5, <1>8 DEF CallInv, Ttbr0, Off
<1>10. Left' = f .. l
  <2>1. f + size' - 1 = l
        BY <1>1, <1>5
  <2> QED
      BY <1>3, <2>1 DEF Left
<1> QED
    BY <1>4, <1>6, <1>7, <1>9, <1>10 DEF IInv

-----------------------------------------------------------------------------
(* What an iteration of the loop writes: a whole section at the start of   *)
(* one, or one page below the boundary.                                    *)
LEMMA Going ==
  IInv /\ pc \in {"loop", "gave_up"} /\ size > 0 =>
    /\ start \in Nat /\ size \in Nat /\ start \in Page /\ Sec(start) \in 0 .. Sections - 1
    /\ Off(start) \in 0 .. SectionPages - 1
    /\ ~Ttbr0(start) => Off(start) = 0 /\ SectionPages <= size
    /\ Off(start) = 0 \/ Off(start) >= Granule \/ size < SectionPages
<1> SUFFICES ASSUME IInv, pc \in {"loop", "gave_up"}, size > 0
             PROVE  /\ start \in Nat /\ size \in Nat /\ start \in Page
                    /\ Sec(start) \in 0 .. Sections - 1
                    /\ Off(start) \in 0 .. SectionPages - 1
                    /\ ~Ttbr0(start) => Off(start) = 0 /\ SectionPages <= size
                    /\ Off(start) = 0 \/ Off(start) >= Granule \/ size < SectionPages
    OBVIOUS
<1>1. start \in Nat /\ size \in Nat /\ End = start + size
      BY DEF IInv, KindInv, End
<1>2. /\ End - 1 \in Page
      /\ Ttbr0(start) \/ Off(start) = 0
      /\ Ttbr0(End - 1) \/ Off(End) = 0
      /\ Off(start) = 0 \/ Off(start) >= Granule \/ size < SectionPages
      BY DEF IInv, CallInv
<1>3. start \in Page
  <2>1. Sections * SectionPages \in Nat
        BY Sizes
  <2> QED
      BY <1>1, <1>2, <2>1 DEF Page
<1>4. ASSUME ~Ttbr0(start)
      PROVE  SectionPages <= size
  <2>1. ~Ttbr0(End - 1)
    <3>1. Boundary * SectionPages \in Nat
          BY Sizes
    <3> QED
        BY <1>1, <1>4, <3>1 DEF Ttbr0
  <2>2. start + SectionPages <= End
        BY <1>1, <1>2, <1>4, <2>1, Apart
  <2> QED
      BY <1>1, <2>2, Sizes
<1> QED
    BY <1>1, <1>2, <1>3, <1>4, Pages, Place

LEMMA Chosen ==
  ASSUME IInv, pc = "loop", size > 0
  PROVE  /\ LevelFor(start, size) \in {0, 1}
         /\ LevelFor(start, size) = 0 =>
              /\ Off(start) = 0 /\ SectionPages <= size
              /\ Address(0) = start /\ LevelSize(Ttbr0(start), 0) = SectionPages
         /\ LevelFor(start, size) = 1 =>
              /\ Ttbr0(start) /\ ~(Off(start) = 0 /\ SectionPages <= size)
              /\ Address(1) = start /\ LevelSize(Ttbr0(start), 1) = 1
<1> DEFINE b == IF Ttbr0(start) THEN Align(start, Granule) ELSE start
<1>1. /\ start \in Nat /\ size \in Nat
      /\ ~Ttbr0(start) => Off(start) = 0 /\ SectionPages <= size
      /\ Off(start) = 0 \/ Off(start) >= Granule \/ size < SectionPages
      /\ SectionPages \in Nat \ {0} /\ Granule \in Nat \ {0}
      /\ Off(start) \in 0 .. SectionPages - 1
      BY Going, Sizes
<1>2. /\ Off(start) = 0 => Align(start, Granule) = start
      /\ Off(Align(start, Granule)) = 0 => Off(start) < Granule
      BY <1>1, GranuleOf
<1>3. Off(b) = 0 /\ SectionPages <= size => Off(start) = 0
      BY <1>1, <1>2
<1>4. Off(start) = 0 => Off(b) = 0
      BY <1>2
<1>5. LevelFor(start, size) = IF Off(b) = 0 /\ SectionPages <= size THEN 0 ELSE 1
      BY DEF LevelFor, Off
<1> HIDE DEF b
<1>6. Off(start) = 0 => Align(start, SectionPages) = start
      BY <1>1 DEF Align, Off
<1>7. Align(start, 1) = start
  <2>1. start % 1 \in 0 .. 1 - 1
        BY <1>1, Divided
  <2> QED
      BY <1>1, <2>1 DEF Align
<1> QED
    BY <1>1, <1>3, <1>4, <1>5, <1>6, <1>7 DEF Address, LevelSize

(* The tables of the other sections stay as they are. *)
LEMMA Rewritten ==
  ASSUME DescInv, pc # "boot", pc' # "boot", NEW d, NEW s \in 0 .. Sections - 1,
         DescIs(d, s), lvl0' = [lvl0 EXCEPT ![s] = d]
  PROVE  /\ DescInv' /\ lvl0'[s] = d
         /\ \A u \in 0 .. Sections - 1 : u # s => lvl0'[u] = lvl0[u]
<1>1. DOMAIN lvl0 = 0 .. Sections - 1
      /\ \A u \in 0 .. Sections - 1 : DescIs(lvl0[u], u)
      BY DEF DescInv
<1>2. DOMAIN lvl0' = 0 .. Sections - 1
      BY <1>1
<1>3. lvl0'[s] = d
      BY <1>1
<1>4. ASSUME NEW u \in 0 .. Sections - 1, u # s
      PROVE  lvl0'[u] = lvl0[u]
      BY <1>1, <1>4
<1>5. ASSUME NEW u \in 0 .. Sections - 1
      PROVE  DescIs(lvl0'[u], u)
      BY <1>1, <1>3, <1>4
<1> QED
    BY <1>2, <1>3, <1>4, <1>5 DEF DescInv

LEMMA MapSectionStep ==
  ASSUME IInv, MapSection
  PROVE  /\ IInv' /\ pc = "loop" /\ size > 0 /\ Off(start) = 0 /\ SectionPages <= size
         /\ start' = start + SectionPages /\ size' = size - SectionPages
         /\ UNCHANGED <<left0, left1, pc, attributes, calls>>
         /\ \A u \in 0 .. Sections - 1 :
              lvl0'[u] = IF u = Sec(start)
                         THEN SectionDesc(u * SectionPages, DescriptorSection(attributes))
                         ELSE lvl0[u]
<1> DEFINE k == SectionPages
           s == Sec(start)
           d == SectionDesc(s * SectionPages, DescriptorSection(attributes))
<1>1. pc = "loop" /\ size > 0 /\ LevelFor(start, size) = 0
      BY DEF MapSection, Iteration
<1>2. /\ Off(start) = 0 /\ k <= size /\ Address(0) = start
      /\ LevelSize(Ttbr0(start), 0) = k
      BY <1>1, Chosen
<1>3. /\ start \in Nat /\ size \in Nat /\ k \in Nat \ {0}
      /\ s \in 0 .. Sections - 1 /\ start = s * k
  <2>1. /\ start \in Nat /\ size \in Nat /\ k \in Nat \ {0} /\ s \in 0 .. Sections - 1
        BY <1>1, Going, Sizes
  <2>2. start = k * s + Off(start) /\ s \in Nat
        BY <2>1, Place
  <2>3. k * s \in Nat /\ k * s = s * k
        BY <2>1, <2>2
  <2> QED
      BY <1>2, <2>1, <2>2, <2>3
<1>4. /\ start' = start + k /\ size' = size - k
      /\ UNCHANGED <<left0, left1, pc, attributes, calls>>
      BY <1>2 DEF MapSection, Advance
<1>5. lvl0' = [lvl0 EXCEPT ![s] = d]
      BY <1>2, <1>3 DEF MapSection, Sec
<1>6. DescIs(d, s)
  <2>1. attributes \in SUBSET Fields
        BY FieldSets DEF IInv, KindInv
  <2> QED
      BY <2>1 DEF DescIs, SectionIs
<1>7. /\ DescInv' /\ lvl0'[s] = d
      /\ \A u \in 0 .. Sections - 1 : u # s => lvl0'[u] = lvl0[u]
  <2>1. DescInv /\ pc # "boot" /\ pc' # "boot"
        BY <1>1, <1>4 DEF IInv
  <2> HIDE DEF d, s
  <2> QED
      BY <1>3, <1>5, <1>6, <2>1, Rewritten
<1>8. KindInv'
  <2>1. start + k \in Nat /\ size - k \in Nat
        BY <1>2, <1>3
  <2> QED
      BY <1>4, <2>1 DEF IInv, KindInv
<1>9. End' = End
  <2>1. (start + k) + (size - k) = start + size
        BY <1>3
  <2> QED
      BY <1>4, <2>1 DEF End
<1>10. Off(start') = 0
      BY <1>2, <1>3, <1>4, NextSection
<1>11. CallInv'
  <2>1. /\ End - 1 \in Page
        /\ Ttbr0(End - 1) \/ Off(End) = 0
        BY <1>1 DEF IInv, CallInv
  <2>2. /\ End' - 1 \in Page
        /\ Ttbr0(End' - 1) \/ Off(End') = 0
        BY <1>9, <2>1
  <2> QED
      BY <1>10, <2>2 DEF CallInv, Ttbr0, Off
<1> QED
    BY <1>1, <1>2, <1>4, <1>7, <1>8, <1>11 DEF IInv

(* The fields the MMU finds for the page of offset i through descriptor d. *)
Found(d, i) ==
  IF d.type = "section" THEN ReadSection(d.bits) ELSE ReadSmall(d.table[i].bits)

(* The coarse table that takes the place of a section maps as it did.      *)
LEMMA Replaced ==
  ASSUME NEW s \in 0 .. Sections - 1, DescIs(lvl0[s], s)
  PROVE  /\ CoarseTable(s) \in [0 .. SectionPages - 1 -> SmallPage]
         /\ \A i \in 0 .. SectionPages - 1 :
              /\ SmallIs(CoarseTable(s)[i], SectionPages * s + i)
              /\ ReadSmall(CoarseTable(s)[i].bits) = Found(lvl0[s], i)
         /\ lvl0[s].type \in {"section", "coarse"}
<1>1. CASE CoarseIs(lvl0[s], s)
  <2>1. PICK t \in [0 .. SectionPages - 1 -> SmallPage] :
           /\ lvl0[s] = CoarseDesc(t)
           /\ \A i \in 0 .. SectionPages - 1 : SmallIs(t[i], SectionPages * s + i)
        BY <1>1 DEF CoarseIs
  <2>2. lvl0[s].type = "coarse" /\ lvl0[s].table = t
        BY <2>1 DEF CoarseDesc
  <2>3. CoarseTable(s) = t
        BY <2>2 DEF CoarseTable
  <2>4. \A i : Found(lvl0[s], i) = ReadSmall(t[i].bits)
        BY <2>2 DEF Found
  <2> QED
      BY <2>1, <2>2, <2>3, <2>4
<1>2. CASE SectionIs(lvl0[s], s)
  <2>1. PICK F \in SUBSET Fields : lvl0[s] = SectionDesc(s * SectionPages, DescriptorSection(F))
        BY <1>2 DEF SectionIs
  <2> DEFINE D == DescriptorSection(F)
  <2>2. lvl0[s].type = "section" /\ lvl0[s].bits = D
        BY <2>1 DEF SectionDesc
  <2>3. ReadSection(D) = F /\ ReadSmall(ToSmall(D)) = F
        BY ReadsSection, ReadsSmall
  <2>4. CoarseTable(s) = [i \in 0 .. SectionPages - 1 |->
                            SmallDesc(s * SectionPages + i, ToSmall(D))]
        BY <2>2 DEF CoarseTable
  <2>5. ASSUME NEW i \in 0 .. SectionPages - 1
        PROVE  /\ SmallDesc(s * SectionPages + i, ToSmall(D)) \in SmallPage
               /\ SmallIs(SmallDesc(s * SectionPages + i, ToSmall(D)), SectionPages * s + i)
               /\ SmallDesc(s * SectionPages + i, ToSmall(D)).bits = ToSmall(D)
    <3>1. SectionPages * s + i \in Page /\ s * SectionPages = SectionPages * s
          BY PageOf, Sizes
    <3>2. /\ SmallIs(SmallDesc(SectionPages * s + i, ToSmall(D)), SectionPages * s + i)
          /\ SmallDesc(SectionPages * s + i, ToSmall(D)) \in SmallPage
          BY <3>1, NewSmall
    <3> QED
        BY <3>1, <3>2 DEF SmallDesc
  <2>6. \A i : Found(lvl0[s], i) = F
        BY <2>2, <2>3 DEF Found
  <2> HIDE DEF D
  <2> QED
      BY <2>2, <2>3, <2>4, <2>5, <2>6
<1> QED
    BY <1>1, <1>2 DEF DescIs

LEMMA MapPageStep ==
  ASSUME IInv, MapPage
  PROVE  /\ IInv' /\ pc = "loop" /\ size > 0 /\ Ttbr0(start)
         /\ ~(Off(start) = 0 /\ SectionPages <= size)
         /\ start' = start + 1 /\ size' = size - 1
         /\ UNCHANGED <<left1, pc, attributes, calls>>
         /\ IF NeedsTable(Sec(start)) THEN left0 # 0 /\ left0' = left0 - 1 ELSE left0' = left0
         /\ \A u \in 0 .. Sections - 1 : u # Sec(start) => lvl0'[u] = lvl0[u]
         /\ lvl0'[Sec(start)].type = "coarse"
         /\ \A i \in 0 .. SectionPages - 1 :
              Found(lvl0'[Sec(start)], i) =
                IF i = Off(start) THEN attributes ELSE Found(lvl0[Sec(start)], i)
<1> DEFINE k == SectionPages
           s == Sec(start)
           j == Off(start)
           e == SmallDesc(start, ToSmall(DescriptorSection(attributes)))
           t == [CoarseTable(s) EXCEPT ![j] = e]
           d == CoarseDesc(t)
<1>1. pc = "loop" /\ size > 0 /\ LevelFor(start, size) = 1
      BY DEF MapPage, Iteration
<1>2. /\ Ttbr0(start) /\ ~(j = 0 /\ k <= size) /\ Address(1) = start
      /\ LevelSize(Ttbr0(start), 1) = 1
      BY <1>1, Chosen
<1>3. /\ start \in Nat /\ size \in Nat /\ k \in Nat \ {0} /\ start \in Page
      /\ s \in 0 .. Sections - 1 /\ j \in 0 .. k - 1 /\ start = k * s + j
      /\ j = 0 \/ j >= Granule \/ size < k
  <2>1. /\ start \in Nat /\ size \in Nat /\ k \in Nat \ {0} /\ s \in 0 .. Sections - 1
        /\ j \in 0 .. k - 1 /\ start \in Page
        /\ j = 0 \/ j >= Granule \/ size < k
        BY <1>1, Going, Sizes
  <2> QED
      BY <2>1, Place
<1>4. /\ start' = start + 1 /\ size' = size - 1
      /\ UNCHANGED <<pc, attributes, calls>>
      BY <1>2 DEF MapPage, Advance
<1>5. lvl0' = [lvl0 EXCEPT ![s] = d]
      BY <1>2 DEF MapPage, Sec, Off
<1>6. /\ IF NeedsTable(s) THEN left0 # 0 /\ left0' = left0 - 1 ELSE left0' = left0
      /\ UNCHANGED left1
      BY <1>2 DEF MapPage, AllocDescriptors, NoRoom, Sec
<1>7. /\ DescInv /\ pc # "boot" /\ pc' # "boot" /\ DescIs(lvl0[s], s)
  <2>1. DescInv /\ pc # "boot" /\ pc' # "boot"
        BY <1>1, <1>4 DEF IInv
  <2> QED
      BY <1>3, <2>1 DEF DescInv
<1>8. attributes \in SUBSET Fields
      BY FieldSets DEF IInv, KindInv
<1>9. /\ CoarseTable(s) \in [0 .. k - 1 -> SmallPage]
      /\ \A i \in 0 .. k - 1 :
           /\ SmallIs(CoarseTable(s)[i], k * s + i)
           /\ ReadSmall(CoarseTable(s)[i].bits) = Found(lvl0[s], i)
      BY <1>3, <1>7, Replaced
<1>10. e \in SmallPage /\ SmallIs(e, k * s + j) /\ ReadSmall(e.bits) = attributes
  <2>1. SmallIs(e, start) /\ e \in SmallPage
        BY <1>3, <1>8, NewSmall
  <2>2. e.bits = ToSmall(DescriptorSection(attributes))
        BY DEF SmallDesc
  <2>3. ReadSmall(ToSmall(DescriptorSection(attributes))) = attributes
        BY <1>8, ReadsSmall
  <2> HIDE DEF e
  <2> QED
      BY <1>3, <2>1, <2>2, <2>3
<1> HIDE DEF e
<1>11. /\ t \in [0 .. k - 1 -> SmallPage]
       /\ t[j] = e /\ \A i \in 0 .. k - 1 : i # j => t[i] = CoarseTable(s)[i]
      BY <1>3, <1>9, <1>10
<1> HIDE DEF t
<1>12. DescIs(d, s)
  <2>1. \A i \in 0 .. k - 1 : SmallIs(t[i], k * s + i)
        BY <1>9, <1>10, <1>11
  <2> QED
      BY <1>11, <2>1 DEF DescIs, CoarseIs
<1>13. d.type = "coarse" /\ d.table = t
      BY DEF CoarseDesc
<1> HIDE DEF d
<1>14. /\ DescInv' /\ lvl0'[s] = d
       /\ \A u \in 0 .. Sections - 1 : u # s => lvl0'[u] = lvl0[u]
  <2> HIDE DEF s
  <2> QED
      BY <1>3, <1>5, <1>7, <1>12, Rewritten
<1>15. ASSUME NEW i \in 0 .. k - 1
       PROVE  Found(lvl0'[s], i) = IF i = j THEN attributes ELSE Found(lvl0[s], i)
  <2>1. Found(lvl0'[s], i) = ReadSmall(t[i].bits)
        BY <1>13, <1>14 DEF Found
  <2> QED
      BY <1>9, <1>10, <1>11, <2>1
<1>16. KindInv'
  <2>1. start + 1 \in Nat /\ size - 1 \in Nat
        BY <1>1, <1>3
  <2>2. left0' \in 0 .. Tables0
        BY <1>6, Sizes DEF IInv, KindInv
  <2> QED
      BY <1>4, <1>6, <2>1, <2>2 DEF IInv, KindInv
<1>17. End' = End
  <2>1. (start + 1) + (size - 1) = start + size
        BY <1>3
  <2> QED
      BY <1>4, <2>1 DEF End
<1>18. \/ Off(start + 1) = 0
       \/ Off(start + 1) = j + 1
      BY <1>3, NextPage
<1>19. ~Ttbr0(start + 1) => Off(start + 1) = 0
  <2> SUFFICES ASSUME ~Ttbr0(start + 1)
               PROVE  Off(start + 1) = 0
      OBVIOUS
  <2>1. start + 1 = Boundary * SectionPages /\ Boundary \in Nat
    <3>1. Boundary * SectionPages \in Nat /\ Boundary \in Nat
          BY Sizes
    <3> QED
        BY <1>2, <1>3, <3>1 DEF Ttbr0
  <2>2. start + 1 = k * Boundary + 0 /\ 0 \in 0 .. k - 1
        BY <1>3, <2>1
  <2> QED
      BY <2>1, <2>2, PlaceOf
<1>20. CallInv'
  <2>1. /\ End - 1 \in Page
        /\ Ttbr0(End - 1) \/ Off(End) = 0
        BY <1>1 DEF IInv, CallInv
  <2>2. /\ End' - 1 \in Page
        /\ Ttbr0(End' - 1) \/ Off(End') = 0
        BY <1>17, <2>1
  <2>3. Off(start + 1) = 0 \/ Off(start + 1) >= Granule \/ size - 1 < k
        BY <1>2, <1>3, <1>18, Sizes
  <2> QED
      BY <1>4, <1>19, <2>2, <2>3 DEF CallInv, Ttbr0, Off
<1> QED
    BY <1>1, <1>2, <1>4, <1>6, <1>13, <1>14, <1>15, <1>16, <1>20 DEF IInv

LEMMA StopStep == IInv /\ (GiveUp \/ AddPagesDone) => IInv'
<1> SUFFICES ASSUME IInv, GiveUp \/ AddPagesDone
             PROVE  IInv'
    OBVIOUS
<1>1. /\ \/ pc = "loop" /\ pc' = "gave_up"
         \/ pc = "loop" /\ pc' = "idle" /\ size = 0
      /\ UNCHANGED <<lvl0, left0, left1, start, size, attributes, calls>>
      BY DEF GiveUp, Iteration, AddPagesDone
<1>2. KindInv'
      BY <1>1 DEF IInv, KindInv
<1>3. DescInv'
      BY <1>1 DEF IInv, DescInv
<1>4. CallInv'
      BY <1>1 DEF IInv, CallInv, End, Ttbr0, Off
<1> QED
    BY <1>2, <1>3, <1>4 DEF IInv

LEMMA StutterStep == IInv /\ UNCHANGED vars => IInv'
<1> SUFFICES ASSUME IInv, UNCHANGED vars
             PROVE  IInv'
    OBVIOUS
<1>1. UNCHANGED <<lvl0, left0, left1, pc, start, size, attributes, calls>>
      BY DEF vars
<1>2. KindInv'
      BY <1>1 DEF IInv, KindInv
<1>3. DescInv'
      BY <1>1 DEF IInv, DescInv
<1>4. CallInv'
      BY <1>1 DEF IInv, CallInv, End, Ttbr0, Off
<1> QED
    BY <1>2, <1>3, <1>4 DEF IInv

LEMMA StepInv == IInv /\ [Next]_vars => IInv'
<1>1. ASSUME IInv, NEW r \in Ranges, NEW a \in Attributes, AddPages(r, a)
      PROVE  IInv'
      BY <1>1, AddPagesStep
<1>2. ASSUME IInv, MapSection
      PROVE  IInv'
      BY <1>2, MapSectionStep
<1>3. ASSUME IInv, MapPage
      PROVE  IInv'
      BY <1>3, MapPageStep
<1> QED
    BY <1>1, <1>2, <1>3, InitDescriptorsStep, StopStep, StutterStep DEF Next

(* The invariant of mmu_init_descriptors and add_pages.                    *)
THEOREM Invariant == Spec => []IInv
  BY InitInv, StepInv, PTL DEF Spec

(* The descriptors of level 0, the small pages and the pool of coarse      *)
(* tables always have the values add_pages is written for.                 *)
THEOREM TypeCorrect == Spec => []TypeOK
  BY Invariant, Typed, PTL

-----------------------------------------------------------------------------
(* The refinement of AddressMap.                                           *)
MapInv ==
  \A p \in Page : MapOf(p) = IF pc = "boot" THEN Normal ELSE Found(lvl0[Sec(p)], Off(p))

LEMMA MapIs == IInv => MapInv
<1> SUFFICES ASSUME IInv, NEW p \in Page, pc # "boot"
             PROVE  MapOf(p) = Found(lvl0[Sec(p)], Off(p))
    BY DEF MapInv, MapOf
<1> DEFINE k == SectionPages
           s == Sec(p)
           i == Off(p)
           d == lvl0[s]
<1>1. /\ s \in 0 .. Sections - 1 /\ i \in 0 .. k - 1 /\ p = k * s + i /\ k \in Nat \ {0}
      BY Pages, Place, Sizes
<1>2. DescIs(d, s)
      BY <1>1 DEF IInv, DescInv
<1>3. Translation(p) = IF d.type = "section"
                       THEN [to |-> d.to + i, fields |-> ReadSection(d.bits)]
                       ELSE [to |-> d.table[i].to, fields |-> ReadSmall(d.table[i].bits)]
      BY DEF Translation, Sec, Off
<1> HIDE DEF d, s, i
<1>4. CASE SectionIs(d, s)
  <2>1. d.type = "section" /\ d.to = s * k
        BY <1>4 DEF SectionIs, SectionDesc
  <2>2. d.to + i = p
        BY <1>1, <2>1
  <2> QED
      BY <1>3, <2>1, <2>2 DEF MapOf, Found, d, s, i
<1>5. CASE CoarseIs(d, s)
  <2>1. d.type = "coarse" /\ SmallIs(d.table[i], k * s + i)
        BY <1>1, <1>5 DEF CoarseIs, CoarseDesc
  <2>2. d.table[i].to = p
        BY <1>1, <2>1 DEF SmallIs, SmallDesc
  <2> QED
      BY <1>3, <2>1, <2>2 DEF MapOf, Found, d, s, i
<1> QED
    BY <1>2, <1>4, <1>5 DEF DescIs

LEMMA MapIsNext == IInv' => MapInv'
  BY MapIs, PTL

(* The pages of the section an iteration writes are the first ones left.   *)
LEMMA LeftSection ==
  ASSUME NEW a \in Nat, NEW n \in Nat, NEW p \in Nat, Off(a) = 0, SectionPages <= n
  PROVE  (Sec(p) = Sec(a)) <=>
           (p \in a .. a + n - 1 /\ p \notin a + SectionPages .. a + SectionPages + (n - SectionPages) - 1)
<1> DEFINE k == SectionPages
           s == Sec(a)
<1>1. /\ k \in Nat \ {0} /\ s \in Nat /\ a = k * s
      BY Sizes, Place
<1>2. (p < a + k) <=> (Sec(p) < s + 1)
  <2>1. (s + 1) * k = a + k /\ s + 1 \in Nat
        BY <1>1
  <2> QED
      BY <2>1, Within
<1>3. (p < a) <=> (Sec(p) < s)
  <2>1. s * k = a
        BY <1>1
  <2> QED
      BY <1>1, <2>1, Within
<1>4. Sec(p) \in Nat
      BY Place
<1> HIDE DEF k, s
<1>5. (Sec(p) = s) <=> (a <= p /\ p < a + k)
      BY <1>1, <1>2, <1>3, <1>4
<1>6. (p \in a .. a + n - 1 /\ p \notin a + k .. a + k + (n - k) - 1) <=> (a <= p /\ p < a + k)
  <2>1. k <= n
        BY DEF k
  <2> QED
      BY <1>1, <2>1
<1> QED
    BY <1>5, <1>6 DEF k, s

(* add_pages implements AddressMap: AddPages is Ask, MapSection and        *)
(* MapPage are Set, and no other step changes a page, that of the fields   *)
(* from a section to its coarse table least of all.                        *)
THEOREM Implementation == Spec => ImplementsAddressMap
<1>1. Init => Abstract!Init
      BY DEF Init, Abstract!Init, MapOf, Left
<1>2. ASSUME IInv, IInv', [Next]_vars
      PROVE  [Abstract!Next]_(Abstract!vars)
  <2>1. MapInv /\ MapInv'
        BY <1>2, MapIs, MapIsNext
  <2>2. ASSUME NEW p \in Page
        PROVE  p \in Nat /\ Sec(p) \in 0 .. Sections - 1 /\ Off(p) \in 0 .. SectionPages - 1
        BY Pages, Place
  <2>3. CASE InitDescriptors
    <3>1. /\ pc = "boot" /\ pc' = "idle" /\ attributes' = attributes
          /\ \A s \in 0 .. Sections - 1 : lvl0'[s] = IdentitySection(s)
          BY <1>2, <2>3 DEF InitDescriptors, IInv, DescInv
    <3>2. ASSUME NEW s \in 0 .. Sections - 1, NEW i
          PROVE  Found(lvl0'[s], i) = Normal
      <4>1. ReadSection(DescriptorSection(Normal)) = Normal
            BY FieldSets, ReadsSection
      <4>2. lvl0'[s].type = "section" /\ lvl0'[s].bits = DescriptorSection(Normal)
        <5> DEFINE D == DescriptorSection(Normal)
        <5>1. lvl0'[s] = SectionDesc(s * SectionPages, D)
              BY <3>1 DEF IdentitySection
        <5> HIDE DEF D
        <5>2. lvl0'[s].type = "section" /\ lvl0'[s].bits = D
              BY <5>1 DEF SectionDesc
        <5> QED
            BY <5>2 DEF D
      <4> QED
          BY <4>1, <4>2 DEF Found
    <3>3. \A p \in Page : MapOf(p)' = MapOf(p)
          BY <2>1, <2>2, <3>1, <3>2 DEF MapInv
    <3>4. Left' = Left
          BY <3>1 DEF Left
    <3> QED
        BY <3>1, <3>3, <3>4 DEF Abstract!vars
  <2>4. ASSUME NEW r \in Ranges, NEW a \in Attributes, AddPages(r, a)
        PROVE  Abstract!Next
    <3>1. /\ Left = {} /\ Left' = PagesOf(r) /\ attributes' = a
          /\ UNCHANGED lvl0 /\ pc # "boot" /\ pc' # "boot"
          BY <1>2, <2>4, AddPagesStep DEF AddPages, Left
    <3>2. \A p \in Page : MapOf(p)' = MapOf(p)
          BY <2>1, <3>1 DEF MapInv
    <3>3. Abstract!Ask(PagesOf(r), a)
          BY <3>1, <3>2 DEF Abstract!Ask
    <3> QED
        BY <3>3 DEF Abstract!Next
  <2>5. ASSUME pc = "loop", pc' = "loop", attributes' = attributes,
               Left' \subseteq Left, Left' # Left,
               \A p \in Page : Found(lvl0'[Sec(p)], Off(p)) =
                 IF p \in Left \ Left' THEN attributes ELSE Found(lvl0[Sec(p)], Off(p))
        PROVE  Abstract!Next
    <3>1. \A p \in Page : MapOf(p)' = IF p \in Left \ Left' THEN attributes ELSE MapOf(p)
          BY <2>1, <2>5 DEF MapInv
    <3>2. Abstract!Set
          BY <2>5, <3>1 DEF Abstract!Set
    <3> QED
        BY <3>2 DEF Abstract!Next
  <2>6. CASE MapSection
    <3> DEFINE k == SectionPages
    <3>1. /\ pc = "loop" /\ pc' = "loop" /\ size > 0 /\ Off(start) = 0 /\ k <= size
          /\ start' = start + k /\ size' = size - k /\ attributes' = attributes
          /\ \A u \in 0 .. Sections - 1 :
               lvl0'[u] = IF u = Sec(start)
                          THEN SectionDesc(u * k, DescriptorSection(attributes)) ELSE lvl0[u]
          BY <1>2, <2>6, MapSectionStep
    <3>2. start \in Nat /\ size \in Nat /\ k \in Nat \ {0}
          BY <1>2, Sizes DEF IInv, KindInv
    <3>3. Left = start .. start + size - 1 /\ Left' = start + k .. start + k + (size - k) - 1
          BY <3>1 DEF Left
    <3>4. ASSUME NEW p \in Page
          PROVE  Sec(p) = Sec(start) <=> p \in Left \ Left'
          BY <2>2, <3>1, <3>2, <3>3, LeftSection
    <3>5. attributes \in SUBSET Fields
          BY <1>2, FieldSets DEF IInv, KindInv
    <3>6. ASSUME NEW p \in Page
          PROVE  Found(lvl0'[Sec(p)], Off(p)) =
                   IF p \in Left \ Left' THEN attributes ELSE Found(lvl0[Sec(p)], Off(p))
      <4>1. CASE Sec(p) = Sec(start)
        <5>1. /\ lvl0'[Sec(p)].type = "section"
              /\ lvl0'[Sec(p)].bits = DescriptorSection(attributes)
          <6> DEFINE D == DescriptorSection(attributes)
          <6>1. lvl0'[Sec(p)] = SectionDesc(Sec(p) * k, D)
                BY <2>2, <3>1, <4>1
          <6> HIDE DEF D
          <6>2. lvl0'[Sec(p)].type = "section" /\ lvl0'[Sec(p)].bits = D
                BY <6>1 DEF SectionDesc
          <6> QED
              BY <6>2 DEF D
        <5>2. Found(lvl0'[Sec(p)], Off(p)) = attributes
              BY <3>5, <5>1, ReadsSection DEF Found
        <5> QED
            BY <3>4, <4>1, <5>2
      <4>2. CASE Sec(p) # Sec(start)
            BY <2>2, <3>1, <3>4, <4>2
      <4> QED
          BY <4>1, <4>2
    <3>7. Left' \subseteq Left /\ start \in Left /\ start \notin Left'
          BY <3>1, <3>2, <3>3
    <3> QED
        BY <2>5, <3>1, <3>6, <3>7
  <2>7. CASE MapPage
    <3>1. /\ pc = "loop" /\ pc' = "loop" /\ size > 0
          /\ start' = start + 1 /\ size' = size - 1 /\ attributes' = attributes
          /\ \A u \in 0 .. Sections - 1 : u # Sec(start) => lvl0'[u] = lvl0[u]
          /\ \A i \in 0 .. SectionPages - 1 :
               Found(lvl0'[Sec(start)], i) =
                 IF i = Off(start) THEN attributes ELSE Found(lvl0[Sec(start)], i)
          BY <1>2, <2>7, MapPageStep
    <3>2. start \in Nat /\ size \in Nat
          BY <1>2 DEF IInv, KindInv
    <3>3. Left = start .. start + size - 1 /\ Left' = start + 1 .. start + 1 + (size - 1) - 1
          BY <3>1 DEF Left
    <3>4. Left \ Left' = {start} /\ Left' \subseteq Left /\ Left' # Left
          BY <3>1, <3>2, <3>3
    <3>5. ASSUME NEW p \in Page
          PROVE  Found(lvl0'[Sec(p)], Off(p)) =
                   IF p \in Left \ Left' THEN attributes ELSE Found(lvl0[Sec(p)], Off(p))
      <4>1. CASE p = start
            BY <2>2, <3>1, <3>4, <4>1
      <4>2. CASE p # start /\ Sec(p) = Sec(start)
        <5>1. Off(p) # Off(start)
              BY <2>2, <3>2, <4>2, Place
        <5> QED
            BY <2>2, <3>1, <3>4, <4>2, <5>1
      <4>3. CASE Sec(p) # Sec(start)
        <5>1. p # start
              BY <4>3
        <5> QED
            BY <2>2, <3>1, <3>4, <4>3, <5>1
      <4> QED
          BY <4>1, <4>2, <4>3
    <3> QED
        BY <2>5, <3>1, <3>4, <3>5
  <2>8. CASE GiveUp
    <3>1. /\ pc = "loop" /\ pc' = "gave_up"
          /\ UNCHANGED <<lvl0, start, size, attributes>>
          BY <2>8 DEF GiveUp, Iteration
    <3>2. Left' = Left /\ \A p \in Page : MapOf(p)' = MapOf(p)
          BY <2>1, <3>1 DEF MapInv, Left
    <3> QED
        BY <3>1, <3>2 DEF Abstract!vars
  <2>9. CASE AddPagesDone
    <3>1. /\ pc = "loop" /\ pc' = "idle" /\ size = 0
          /\ UNCHANGED <<lvl0, start, attributes>>
          BY <2>9 DEF AddPagesDone
    <3>2. Left = {} /\ Left' = {}
      <4>1. start \in Nat
            BY <1>2 DEF IInv, KindInv
      <4> QED
          BY <3>1, <4>1 DEF Left
    <3>3. \A p \in Page : MapOf(p)' = MapOf(p)
          BY <2>1, <3>1 DEF MapInv
    <3> QED
        BY <3>1, <3>2, <3>3 DEF Abstract!vars
  <2>10. CASE UNCHANGED vars
    <3>1. UNCHANGED <<lvl0, pc, start, size, attributes>>
          BY <2>10 DEF vars
    <3>2. Left' = Left /\ \A p \in Page : MapOf(p)' = MapOf(p)
          BY <2>1, <3>1 DEF MapInv, Left
    <3> QED
        BY <3>1, <3>2 DEF Abstract!vars
  <2> QED
      BY <1>2, <2>3, <2>4, <2>6, <2>7, <2>8, <2>9, <2>10 DEF Next
<1> QED
    BY <1>1, <1>2, Invariant, PTL DEF Spec, ImplementsAddressMap, Abstract!Spec

-----------------------------------------------------------------------------
(* The coarse tables a call takes: one where it begins, inside a section,  *)
(* and one where it ends.  A call that took two is in the last section of  *)
(* its range, which has its coarse table.                                  *)
Taken == Tables0 - left0 - 2 * (calls - 1)

Coarse(p) == lvl0[Sec(p)].type = "coarse"

TablesInv ==
  /\ pc \in {"boot", "idle"} => Tables0 - left0 <= 2 * calls
  /\ pc = "loop" =>
       \/ Taken <= 0
       \/ Taken <= 1 /\ (size > 0 => Off(start) = 0 \/ Coarse(start))
       \/ /\ Taken <= 2
          /\ size > 0 => /\ Off(start) # 0 /\ Coarse(start)
                         /\ size < SectionPages - Off(start)
  /\ pc = "gave_up" => Tables0 < 2 * calls

LEMMA Kinds ==
  IInv => /\ left0 \in Nat /\ calls \in Nat /\ start \in Nat /\ size \in Nat /\ Taken \in Int
          /\ Tables0 \in Nat /\ SectionPages \in Nat \ {0}
          /\ Off(start) \in 0 .. SectionPages - 1
<1> SUFFICES ASSUME IInv
             PROVE  /\ left0 \in Nat /\ calls \in Nat /\ start \in Nat /\ size \in Nat
                    /\ Taken \in Int /\ Tables0 \in Nat /\ SectionPages \in Nat \ {0}
                    /\ Off(start) \in 0 .. SectionPages - 1
    OBVIOUS
<1>1. /\ left0 \in Nat /\ calls \in Nat /\ start \in Nat /\ size \in Nat
      /\ Tables0 \in Nat /\ SectionPages \in Nat \ {0}
      BY Sizes DEF IInv, KindInv
<1> QED
    BY <1>1, Place DEF Taken

LEMMA TablesMapSection == IInv /\ TablesInv /\ MapSection => TablesInv'
<1> SUFFICES ASSUME IInv, TablesInv, MapSection
             PROVE  TablesInv'
    OBVIOUS
<1>1. /\ pc = "loop" /\ pc' = "loop" /\ size > 0 /\ Off(start) = 0
      /\ start' = start + SectionPages /\ UNCHANGED <<left0, calls>>
      BY MapSectionStep
<1>2. Taken' = Taken
      BY <1>1 DEF Taken
<1>3. Off(start') = 0
      BY <1>1, Kinds, NextSection
<1>4. Taken <= 0 \/ Taken <= 1
      BY <1>1 DEF TablesInv
<1> QED
    BY <1>1, <1>2, <1>3, <1>4 DEF TablesInv, Off

LEMMA TablesMapPage == IInv /\ TablesInv /\ MapPage => TablesInv'
<1> SUFFICES ASSUME IInv, TablesInv, MapPage
             PROVE  TablesInv'
    OBVIOUS
<1> DEFINE k == SectionPages
           s == Sec(start)
           j == Off(start)
           b == start + 1
<1>1. /\ pc = "loop" /\ pc' = "loop" /\ size > 0
      /\ ~(j = 0 /\ k <= size)
      /\ start' = b /\ size' = size - 1 /\ calls' = calls
      /\ IF NeedsTable(s) THEN left0 # 0 /\ left0' = left0 - 1 ELSE left0' = left0
      /\ lvl0'[s].type = "coarse"
      BY MapPageStep
<1>2. /\ start \in Nat /\ size \in Nat /\ left0 \in Nat /\ calls \in Nat /\ Taken \in Int
      /\ Tables0 \in Nat /\ k \in Nat \ {0} /\ j \in 0 .. k - 1
      BY Kinds
<1>3. NeedsTable(s) <=> ~Coarse(start)
      BY DEF NeedsTable, Coarse
<1>4. /\ Coarse(start) => Taken' = Taken
      /\ Taken' <= Taken + 1
      BY <1>1, <1>2, <1>3 DEF Taken
<1>5. \/ Off(b) = 0 /\ j = k - 1
      \/ Off(b) = j + 1 /\ Sec(b) = s
      BY <1>2, NextPage
<1>6. Off(b) = 0 \/ lvl0'[Sec(b)].type = "coarse"
      BY <1>1, <1>5
<1>7. Taken' \in Int
  <2>1. left0' \in Int
        BY <1>1, <1>2
  <2> QED
      BY <1>1, <1>2, <2>1 DEF Taken
<1> HIDE DEF k, s, j, b
<1>8. CASE Taken <= 0
  <2>1. Taken' <= 1
        BY <1>2, <1>4, <1>7, <1>8
  <2> QED
      BY <1>1, <1>6, <2>1 DEF TablesInv, Coarse, Sec, Off
<1>9. CASE Taken <= 1 /\ Coarse(start)
      BY <1>1, <1>4, <1>6, <1>9 DEF TablesInv, Coarse, Sec, Off
<1>10. CASE Taken <= 1 /\ j = 0
  <2>1. Taken' <= 2
        BY <1>2, <1>4, <1>7, <1>10
  <2>2. size - 1 > 0 => /\ Off(b) # 0 /\ lvl0'[Sec(b)].type = "coarse"
                        /\ size - 1 < k - Off(b)
        BY <1>1, <1>2, <1>5, <1>6, <1>10
  <2> QED
      BY <1>1, <2>1, <2>2 DEF TablesInv, Coarse, Sec, Off, k
<1>11. CASE Taken <= 2 /\ j # 0 /\ Coarse(start) /\ size < k - j
  <2>1. Taken' <= 2
        BY <1>4, <1>11
  <2>2. size - 1 > 0 => /\ Off(b) # 0 /\ lvl0'[Sec(b)].type = "coarse"
                        /\ size - 1 < k - Off(b)
        BY <1>1, <1>2, <1>5, <1>6, <1>11
  <2> QED
      BY <1>1, <2>1, <2>2 DEF TablesInv, Coarse, Sec, Off, k
<1> QED
    BY <1>1, <1>8, <1>9, <1>10, <1>11 DEF TablesInv, j, k

LEMMA TablesGiveUp == IInv /\ TablesInv /\ GiveUp => TablesInv'
<1> SUFFICES ASSUME IInv, TablesInv, GiveUp
             PROVE  TablesInv'
    OBVIOUS
<1>1. /\ pc = "loop" /\ pc' = "gave_up" /\ size > 0 /\ LevelFor(start, size) = 1
      /\ NeedsTable(Address(1) \div SectionPages) /\ NoRoom /\ UNCHANGED <<left0, calls>>
      BY DEF GiveUp, Iteration
<1>2. Ttbr0(start) /\ Address(1) = start
      BY <1>1, Chosen
<1>3. ~Coarse(start) /\ left0 = 0
      BY <1>1, <1>2 DEF NeedsTable, Coarse, Sec, NoRoom
<1>4. Taken <= 0 \/ Taken <= 1
      BY <1>1, <1>3 DEF TablesInv
<1>5. Tables0 < 2 * calls
      BY <1>3, <1>4, Kinds DEF Taken
<1> QED
    BY <1>1, <1>5 DEF TablesInv

(* Two tables at most were taken, whatever was being done. *)
LEMMA AtMostTwo == IInv /\ TablesInv => Tables0 - left0 <= 2 * calls
<1> SUFFICES ASSUME IInv, TablesInv
             PROVE  Tables0 - left0 <= 2 * calls
    OBVIOUS
<1>1. pc \in {"boot", "idle", "loop", "gave_up"}
      BY DEF IInv, KindInv
<1>2. CASE pc = "loop"
  <2>1. Taken <= 0 \/ Taken <= 1 \/ Taken <= 2
        BY <1>2 DEF TablesInv
  <2> QED
      BY <2>1, Kinds DEF Taken
<1>3. CASE pc = "gave_up"
      BY <1>3, Kinds DEF TablesInv
<1> QED
    BY <1>1, <1>2, <1>3 DEF TablesInv

LEMMA TablesStep == IInv /\ TablesInv /\ [Next]_vars => TablesInv'
<1> SUFFICES ASSUME IInv, TablesInv, [Next]_vars
             PROVE  TablesInv'
    OBVIOUS
<1>1. CASE InitDescriptors
      BY <1>1 DEF InitDescriptors, TablesInv
<1>2. ASSUME NEW r \in Ranges, NEW a \in Attributes, AddPages(r, a)
      PROVE  TablesInv'
  <2>1. pc = "idle" /\ pc' = "loop" /\ left0' = left0 /\ calls' = calls + 1
        BY <1>2 DEF AddPages
  <2>2. Tables0 - left0 <= 2 * calls
        BY <2>1 DEF TablesInv
  <2>3. Taken' <= 0
        BY <2>1, <2>2, Kinds DEF Taken
  <2> QED
      BY <2>1, <2>3 DEF TablesInv
<1>3. CASE MapSection
      BY <1>3, TablesMapSection
<1>4. CASE MapPage
      BY <1>4, TablesMapPage
<1>5. CASE GiveUp
      BY <1>5, TablesGiveUp
<1>6. CASE AddPagesDone
  <2>1. pc' = "idle" /\ UNCHANGED <<left0, calls>>
        BY <1>6 DEF AddPagesDone
  <2>2. Tables0 - left0' <= 2 * calls'
        BY <2>1, AtMostTwo
  <2> QED
      BY <2>1, <2>2 DEF TablesInv
<1>7. CASE UNCHANGED vars
  <2>1. UNCHANGED <<lvl0, left0, pc, start, size, calls>>
        BY <1>7 DEF vars
  <2>2. Taken' = Taken /\ Coarse(start)' = Coarse(start) /\ Off(start)' = Off(start)
        BY <2>1 DEF Taken, Coarse, Sec, Off
  <2> QED
      BY <2>1, <2>2 DEF TablesInv
<1> QED
    BY <1>1, <1>2, <1>3, <1>4, <1>5, <1>6, <1>7 DEF Next

(* A call of add_pages takes two coarse tables at most, one at each end of *)
(* its range and none of TTBR1's, and comes to smc0 only when there were   *)
(* fewer.                                                                  *)
THEOREM TablesAreFew == Spec => []FewTables
<1>1. Init => TablesInv
      BY Sizes DEF Init, TablesInv
<1>2. IInv /\ TablesInv => FewTables
      BY AtMostTwo DEF IInv, KindInv, TablesInv, FewTables
<1> QED
    BY <1>1, <1>2, InitInv, StepInv, TablesStep, PTL DEF Spec

=============================================================================
