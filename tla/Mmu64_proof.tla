----------------------------- MODULE Mmu64_proof -----------------------------
(***************************************************************************)
(* What the run of MCMmu64 checks on tables of two entries, proved for any *)
(* number of entries, any pool and any calls that have no page in common:  *)
(* the tables are always a tree whose leaves map every page to itself,     *)
(* add_pages implements AddressMap, and a call takes four tables at most.  *)
(***************************************************************************)
EXTENDS Mmu64, TLAPS

-----------------------------------------------------------------------------
(* The arithmetic of an address: its block of level l has a number, whose  *)
(* last digit in base Fan is the offset in the table of level l.           *)
USE MmuAssumption

LEMMA Divided ==
  ASSUME NEW n \in Nat, NEW k \in Nat \ {0}
  PROVE  /\ n \div k \in Nat /\ n % k \in 0 .. k - 1
         /\ n = k * (n \div k) + (n % k)
<1> DEFINE q == n \div k
           r == n % k
<1>1. q \in Int
      OBVIOUS
<1>2. r \in 0 .. k - 1
      OBVIOUS
<1>3. n = k * q + r
      OBVIOUS
<1> HIDE DEF q, r
<1>4. ASSUME q <= -1
      PROVE  FALSE
  <2>1. k * q <= k * (-1)
        BY <1>1, <1>4
  <2> QED
      BY <1>1, <1>2, <1>3, <2>1
<1> QED
    BY <1>1, <1>2, <1>3, <1>4 DEF q, r

LEMMA Distinct ==
  ASSUME NEW k \in Nat \ {0}, NEW q \in Nat, NEW u \in Nat, q < u,
         NEW r \in 0 .. k - 1, NEW v \in 0 .. k - 1
  PROVE  k * q + r < k * u + v
<1> DEFINE d == u - q - 1
<1>1. d \in Nat /\ u = q + 1 + d
      OBVIOUS
<1> HIDE DEF d
<1>2. k * u = k * q + k + k * d
      BY <1>1
<1>3. k * d \in Nat
      BY <1>1
<1>4. k * q \in Nat
      OBVIOUS
<1> QED
    BY <1>2, <1>3, <1>4

LEMMA Unique ==
  ASSUME NEW k \in Nat \ {0}, NEW u \in Nat, NEW v \in 0 .. k - 1
  PROVE  (k * u + v) \div k = u /\ (k * u + v) % k = v
<1> DEFINE n == k * u + v
           q == n \div k
           r == n % k
<1>1. n \in Nat
  <2>1. k * u \in Nat
        OBVIOUS
  <2> QED
      BY <2>1
<1>2. q \in Nat /\ r \in 0 .. k - 1 /\ k * q + r = k * u + v
      BY <1>1, Divided
<1> HIDE DEF n, q, r
<1>3. ~(q < u) /\ ~(u < q)
      BY <1>2, Distinct
<1>4. q = u
      BY <1>2, <1>3
<1>5. r = v
      BY <1>2, <1>4
<1> QED
    BY <1>4, <1>5 DEF n, q, r

LEMMA Nested ==
  ASSUME NEW k \in Nat \ {0}, NEW f \in Nat \ {0}, NEW n \in Nat
  PROVE  n \div (f * k) = (n \div k) \div f
<1> DEFINE q == n \div k
           r == n % k
           u == q \div f
           v == q % f
<1>1. q \in Nat /\ r \in 0 .. k - 1 /\ n = k * q + r
      BY Divided
<1> HIDE DEF q, r
<1>2. u \in Nat /\ v \in 0 .. f - 1 /\ q = f * u + v
      BY <1>1, Divided
<1> HIDE DEF u, v
<1>3. n = (f * k) * u + (k * v + r)
  <2>1. k * q = (f * k) * u + k * v
        BY <1>2
  <2> QED
      BY <1>1, <1>2, <2>1
<1>4. f * k \in Nat \ {0}
      OBVIOUS
<1>5. k * v + r \in 0 .. f * k - 1
  <2> DEFINE w == f - 1 - v
  <2>1. w \in Nat /\ f = w + 1 + v
        BY <1>2
  <2> HIDE DEF w
  <2>2. f * k = k * w + k + k * v
        BY <1>2, <2>1
  <2>3. k * w \in Nat /\ k * v \in Nat
        BY <1>2, <2>1
  <2> QED
      BY <1>1, <2>2, <2>3
<1>6. n \div (f * k) = u
      BY <1>2, <1>3, <1>4, <1>5, Unique
<1> QED
    BY <1>6 DEF u, q

LEMMA Sizes ==
  /\ Fan \in Nat \ {0, 1} /\ FirstFree \in Nat /\ Pool \in Nat /\ FirstFree <= Pool
  /\ \A l \in 0 .. 3 : LevelSize(l) \in Nat \ {0}
  /\ LevelSize(0) = Fan * LevelSize(1) /\ LevelSize(1) = Fan * LevelSize(2)
  /\ LevelSize(2) = Fan * LevelSize(3) /\ LevelSize(3) = 1
<1>1. Fan \in Nat \ {0, 1}
      OBVIOUS
<1>2. /\ LevelSize(0) = Fan * Fan * Fan /\ LevelSize(1) = Fan * Fan
      /\ LevelSize(2) = Fan /\ LevelSize(3) = 1
      BY SMT DEF LevelSize
<1>3. Fan * Fan \in Nat \ {0}
      BY <1>1
<1>4. Fan * Fan * Fan \in Nat \ {0}
      BY <1>1, <1>3
<1>5. Fan * Fan * Fan = Fan * (Fan * Fan)
      BY <1>1
<1> QED
    BY <1>1, <1>2, <1>3, <1>4, <1>5 DEF FirstFree

LEMMA Coarser ==
  ASSUME NEW l \in 0 .. 2
  PROVE  /\ l + 1 \in 0 .. 3
         /\ LevelSize(l) = Fan * LevelSize(l + 1)
         /\ LevelSize(l) \in Nat \ {0} /\ LevelSize(l + 1) \in Nat \ {0}
<1>1. l = 0 \/ l = 1 \/ l = 2
      OBVIOUS
<1>2. LevelSize(0) = Fan * LevelSize(0 + 1) /\ LevelSize(1) = Fan * LevelSize(1 + 1)
      /\ LevelSize(2) = Fan * LevelSize(2 + 1)
      BY Sizes
<1>3. l + 1 \in 0 .. 3 /\ l \in 0 .. 3
      OBVIOUS
<1>4. LevelSize(l) \in Nat \ {0} /\ LevelSize(l + 1) \in Nat \ {0}
      BY <1>3, Sizes
<1> QED
    BY <1>1, <1>2, <1>3, <1>4

(* The number of the block of level l an address is in. *)
Number(a, l) == a \div LevelSize(l)

LEMMA Numbers ==
  ASSUME NEW a \in Nat, NEW l \in 0 .. 3
  PROVE  /\ Number(a, l) \in Nat /\ LevelOffset(a, l) \in 0 .. Fan - 1
         /\ Align(a, l) = LevelSize(l) * Number(a, l)
         /\ a % LevelSize(l) \in 0 .. LevelSize(l) - 1
         /\ a = LevelSize(l) * Number(a, l) + (a % LevelSize(l))
<1>1. LevelSize(l) \in Nat \ {0} /\ Fan \in Nat \ {0}
      BY Sizes
<1>2. /\ Number(a, l) \in Nat /\ a % LevelSize(l) \in 0 .. LevelSize(l) - 1
      /\ a = LevelSize(l) * Number(a, l) + (a % LevelSize(l))
      BY <1>1, Divided DEF Number
<1>3. LevelOffset(a, l) \in 0 .. Fan - 1
      BY <1>1, <1>2, Divided DEF LevelOffset, Number
<1>4. Align(a, l) = a - (a % LevelSize(l))
      BY DEF Align
<1> DEFINE r == a % LevelSize(l)
           m == LevelSize(l) * Number(a, l)
<1>5. m \in Nat /\ r \in Nat /\ a = m + r
      BY <1>1, <1>2
<1> HIDE DEF r, m
<1>6. a - r = m
      BY <1>5
<1> QED
    BY <1>2, <1>3, <1>4, <1>6 DEF r, m

LEMMA Digits ==
  ASSUME NEW a \in Nat, NEW l \in 0 .. 2
  PROVE  /\ Number(a, l) = Number(a, l + 1) \div Fan
         /\ Number(a, l + 1) = Fan * Number(a, l) + LevelOffset(a, l + 1)
<1>1. /\ LevelSize(l) = Fan * LevelSize(l + 1) /\ LevelSize(l + 1) \in Nat \ {0}
      /\ Fan \in Nat \ {0} /\ l + 1 \in 0 .. 3
      BY Coarser, Sizes
<1>2. Number(a, l) = Number(a, l + 1) \div Fan
      BY <1>1, Nested DEF Number
<1>3. Number(a, l + 1) \in Nat
      BY <1>1, Numbers
<1>4. Number(a, l + 1) = Fan * (Number(a, l + 1) \div Fan) + (Number(a, l + 1) % Fan)
      BY <1>1, <1>3, Divided
<1>5. LevelOffset(a, l + 1) = Number(a, l + 1) % Fan
      BY DEF LevelOffset, Number
<1> QED
    BY <1>2, <1>4, <1>5

(* A whole number of blocks of each level make the address space. *)
Space == Fan * Fan * Fan * Fan

LEMMA Whole ==
  /\ Space \in Nat /\ Page = 0 .. Space - 1
  /\ Space = LevelSize(0) * Fan
  /\ \A l \in 0 .. 3 : \E m \in Nat : Space = LevelSize(l) * m
<1>1. Fan \in Nat \ {0}
      OBVIOUS
<1> DEFINE F2 == Fan * Fan
           F3 == Fan * Fan * Fan
<1>2. F2 \in Nat /\ F3 \in Nat /\ F3 = F2 * Fan /\ F2 = Fan * Fan
      BY <1>1
<1>3. Space = F3 * Fan
      BY DEF Space
<1>4. LevelSize(0) = F3 /\ LevelSize(1) = F2 /\ LevelSize(2) = Fan /\ LevelSize(3) = 1
      BY SMT DEF LevelSize
<1> HIDE DEF F2, F3
<1>5. Space \in Nat /\ Space = F2 * F2 /\ Space = Fan * F3 /\ Space = 1 * Space
      BY <1>1, <1>2, <1>3
<1>6. ASSUME NEW l \in 0 .. 3
      PROVE  \E m \in Nat : Space = LevelSize(l) * m
  <2>1. l = 0 \/ l = 1 \/ l = 2 \/ l = 3
        OBVIOUS
  <2> QED
      BY <1>1, <1>2, <1>3, <1>4, <1>5, <2>1
<1> QED
    BY <1>3, <1>4, <1>5, <1>6 DEF Page, Space

LEMMA PageIsNat == Page \subseteq Nat
  BY Whole

(* Every address of the block of a page is that of a page. *)
LEMMA InSpace ==
  ASSUME NEW p \in Page, NEW l \in 0 .. 3, NEW x \in 0 .. LevelSize(l) - 1
  PROVE  LevelSize(l) * Number(p, l) + x \in Page
<1> DEFINE k == LevelSize(l)
           q == Number(p, l)
           r == p % k
<1>1. PICK m \in Nat : Space = k * m
      BY Whole
<1>2. /\ k \in Nat \ {0} /\ q \in Nat /\ r \in 0 .. k - 1 /\ p = k * q + r
      /\ Space \in Nat /\ p \in Nat /\ p < Space /\ x \in 0 .. k - 1
  <2>1. p \in Nat /\ p < Space /\ Space \in Nat
        BY Whole
  <2> QED
      BY <2>1, Sizes, Numbers
<1> HIDE DEF k, q, r
<1>3. q < m
  <2> SUFFICES ASSUME m <= q PROVE FALSE
      BY <1>1, <1>2
  <2>1. CASE m = q
        BY <1>1, <1>2, <2>1
  <2>2. CASE m < q
    <3>1. k * m + 0 < k * q + r
          BY <1>1, <1>2, <2>2, Distinct
    <3> QED
        BY <1>1, <1>2, <3>1
  <2> QED
      BY <1>1, <1>2, <2>1, <2>2
<1>4. k * q + x < k * m + 0
      BY <1>1, <1>2, <1>3, Distinct
<1>5. k * q + x \in Nat
  <2>1. k * q \in Nat
        BY <1>2
  <2> QED
      BY <1>2, <2>1
<1>6. k * q + x \in 0 .. Space - 1
      BY <1>1, <1>2, <1>4, <1>5
<1> QED
    BY <1>6, Whole DEF k, q

(* The number of a block of level 0 is its offset. *)
LEMMA Top ==
  ASSUME NEW p \in Page
  PROVE  Number(p, 0) = LevelOffset(p, 0)
<1>1. p \in Nat /\ p < LevelSize(0) * Fan
      BY Whole
<1> DEFINE k == LevelSize(0)
           q == Number(p, 0)
           r == p % k
<1>2. /\ k \in Nat \ {0} /\ q \in Nat /\ r \in 0 .. k - 1 /\ p = k * q + r
      /\ Fan \in Nat \ {0} /\ p < k * Fan
      BY <1>1, Sizes, Numbers
<1> HIDE DEF k, q, r
<1>3. q < Fan
  <2> SUFFICES ASSUME Fan <= q PROVE FALSE
      BY <1>2
  <2>1. CASE Fan = q
        BY <1>2, <2>1
  <2>2. CASE Fan < q
    <3>1. k * Fan + 0 < k * q + r
          BY <1>2, <2>2, Distinct
    <3> QED
        BY <1>1, <1>2, <3>1
  <2> QED
      BY <1>2, <2>1, <2>2
<1>4. q % Fan = q
  <2>1. Fan * 0 + q = q
        BY <1>2
  <2>2. (Fan * 0 + q) % Fan = q
    <3>1. Fan \in Nat \ {0} /\ 0 \in Nat /\ q \in 0 .. Fan - 1
          BY <1>2, <1>3
    <3> QED
        BY ONLY <3>1, Unique
  <2> QED
      BY <2>1, <2>2
<1> QED
    BY <1>4 DEF LevelOffset, Number, q

(* Addresses of one block of level l are in one block of every level above *)
(* and at one offset in each.                                              *)
LEMMA SameBlocks ==
  ASSUME NEW a \in Nat, NEW b \in Nat, NEW l \in 0 .. 3, Number(a, l) = Number(b, l),
         NEW k \in 0 .. l
  PROVE  Number(a, k) = Number(b, k) /\ LevelOffset(a, k) = LevelOffset(b, k)
<1>1. ASSUME NEW j \in 0 .. 2, Number(a, j + 1) = Number(b, j + 1)
      PROVE  Number(a, j) = Number(b, j)
      BY <1>1, Digits
<1>2. Number(a, k) = Number(b, k)
  <2>1. l = 3 => Number(a, 2) = Number(b, 2)
    <3>1. 2 \in 0 .. 2 /\ 2 + 1 = 3
          OBVIOUS
    <3> QED
        BY <1>1, <3>1
  <2>2. l \in {2, 3} => Number(a, 1) = Number(b, 1)
    <3>1. 1 \in 0 .. 2 /\ 1 + 1 = 2
          OBVIOUS
    <3> QED
        BY <1>1, <2>1, <3>1
  <2>3. l \in {1, 2, 3} => Number(a, 0) = Number(b, 0)
    <3>1. 0 \in 0 .. 2 /\ 0 + 1 = 1
          OBVIOUS
    <3> QED
        BY <1>1, <2>2, <3>1
  <2>4. k = l \/ (k = 2 /\ l = 3) \/ (k = 1 /\ l \in {2, 3}) \/ (k = 0 /\ l \in {1, 2, 3})
        OBVIOUS
  <2> QED
      BY <2>1, <2>2, <2>3, <2>4
<1> QED
    BY <1>2 DEF LevelOffset, Number

-----------------------------------------------------------------------------
(* The tables are a tree: lev and num are functions that give a table its  *)
(* level and the number of the block it covers, in the level above.  T is  *)
(* the tables, of which those below c are in use.                          *)
HIDE MmuAssumption

EntryIs(T, c, lev, num, t, i) ==
  IF IsTable(T[t][i], lev[t])
  THEN /\ T[t][i].to \in FirstFree .. c - 1
       /\ lev[T[t][i].to] = lev[t] + 1
       /\ num[T[t][i].to] = Fan * num[t] + i
  ELSE /\ T[t][i].type = LeafType(lev[t])
       /\ T[t][i].to = LevelSize(lev[t]) * (Fan * num[t] + i)
       /\ T[t][i].attr \in Attributes \union {Normal}

Tree(T, c, lev, num) ==
  /\ c \in FirstFree .. Pool
  /\ \A i \in 0 .. Fan - 1 : T[0][i].to = i + 1
  /\ \A t \in 1 .. Fan : lev[t] = 1 /\ num[t] = t - 1
  /\ \A t \in 1 .. c - 1 :
       /\ lev[t] \in 1 .. 3 /\ num[t] \in Nat
       /\ \A i \in 0 .. Fan - 1 : EntryIs(T, c, lev, num, t, i)

(* The walk of get_leaf_for, on any tables. *)
At1(T, a) == T[0][LevelOffset(a, 0)].to
At2(T, a) == T[At1(T, a)][LevelOffset(a, 1)].to
At3(T, a) == T[At2(T, a)][LevelOffset(a, 2)].to

Table1(T, a) == IsTable(T[At1(T, a)][LevelOffset(a, 1)], 1)
Table2(T, a) == IsTable(T[At2(T, a)][LevelOffset(a, 2)], 2)

LevelOf(T, a) == IF ~Table1(T, a) THEN 1 ELSE IF ~Table2(T, a) THEN 2 ELSE 3
TableOf(T, a) == IF ~Table1(T, a) THEN At1(T, a)
                 ELSE IF ~Table2(T, a) THEN At2(T, a) ELSE At3(T, a)
IndexOf(T, a) == LevelOffset(a, LevelOf(T, a))
LeafOf(T, a)  == T[TableOf(T, a)][IndexOf(T, a)]

LEMMA LeafForIs ==
  ASSUME NEW a
  PROVE  /\ LeafFor(a).level = LevelOf(tables, a)
         /\ LeafFor(a).place = <<TableOf(tables, a), IndexOf(tables, a)>>
         /\ At(LeafFor(a).place) = LeafOf(tables, a)
  BY DEF LeafFor, Entry, At, At1, At2, At3, Table1, Table2, LevelOf, TableOf, IndexOf, LeafOf

(* Table t is the one of level l that the walk for a goes through. *)
OnPath(c, lev, num, t, a, l) ==
  t \in 1 .. c - 1 /\ lev[t] = l /\ num[t] = Number(a, l - 1)

LEMMA Down ==
  ASSUME NEW T, NEW c, NEW lev, NEW num, Tree(T, c, lev, num),
         NEW a \in Nat, NEW l \in 1 .. 2, NEW t, OnPath(c, lev, num, t, a, l),
         IsTable(T[t][LevelOffset(a, l)], l)
  PROVE  /\ OnPath(c, lev, num, T[t][LevelOffset(a, l)].to, a, l + 1)
         /\ T[t][LevelOffset(a, l)].to >= FirstFree
<1> DEFINE i == LevelOffset(a, l)
           u == T[t][i].to
<1>1. i \in 0 .. Fan - 1
      BY Numbers
<1>2. t \in 1 .. c - 1 /\ lev[t] = l /\ num[t] = Number(a, l - 1) /\ IsTable(T[t][i], lev[t])
      BY DEF OnPath
<1>3. u \in FirstFree .. c - 1 /\ lev[u] = l + 1 /\ num[u] = Fan * num[t] + i
  <2>1. EntryIs(T, c, lev, num, t, i)
        BY <1>1, <1>2 DEF Tree
  <2> QED
      BY <1>2, <2>1 DEF EntryIs
<1>4. Number(a, l) = Fan * Number(a, l - 1) + i
  <2>1. l - 1 \in 0 .. 2 /\ (l - 1) + 1 = l
        OBVIOUS
  <2> QED
      BY <2>1, Digits
<1>5. FirstFree \in Nat \ {0} /\ c \in Nat
      BY Sizes DEF Tree, FirstFree
<1>6. u \in 1 .. c - 1 /\ u >= FirstFree
      BY <1>3, <1>5
<1>7. (l + 1) - 1 = l
      OBVIOUS
<1> QED
    BY <1>2, <1>3, <1>4, <1>6, <1>7 DEF OnPath

LEMMA Walk ==
  ASSUME NEW T, NEW c, NEW lev, NEW num, Tree(T, c, lev, num), NEW p \in Page
  PROVE  /\ OnPath(c, lev, num, At1(T, p), p, 1)
         /\ Table1(T, p) => /\ OnPath(c, lev, num, At2(T, p), p, 2)
                            /\ At2(T, p) >= FirstFree
         /\ Table1(T, p) /\ Table2(T, p) => /\ OnPath(c, lev, num, At3(T, p), p, 3)
                                            /\ At3(T, p) >= FirstFree
<1>0. p \in Nat
      BY PageIsNat
<1>1. OnPath(c, lev, num, At1(T, p), p, 1)
  <2>1. Number(p, 0) = LevelOffset(p, 0) /\ LevelOffset(p, 0) \in 0 .. Fan - 1
        BY <1>0, Top, Numbers
  <2>2. At1(T, p) = LevelOffset(p, 0) + 1
        BY <2>1 DEF Tree, At1
  <2>3. At1(T, p) \in 1 .. Fan /\ Number(p, 1 - 1) = At1(T, p) - 1
        BY <2>1, <2>2, Sizes
  <2>4. At1(T, p) \in 1 .. c - 1
        BY <2>3, Sizes DEF Tree, FirstFree
  <2> QED
      BY <2>3, <2>4 DEF Tree, OnPath
<1>2. Table1(T, p) => OnPath(c, lev, num, At2(T, p), p, 2) /\ At2(T, p) >= FirstFree
  <2>1. 1 \in 1 .. 2 /\ 1 + 1 = 2
        OBVIOUS
  <2> QED
      BY <1>0, <1>1, <2>1, Down DEF Table1, At2
<1>3. Table1(T, p) /\ Table2(T, p) => OnPath(c, lev, num, At3(T, p), p, 3) /\ At3(T, p) >= FirstFree
  <2>1. 2 \in 1 .. 2 /\ 2 + 1 = 3
        OBVIOUS
  <2> QED
      BY <1>0, <1>2, <2>1, Down DEF Table2, At3
<1> QED
    BY <1>1, <1>2, <1>3

(* The walk ends at a leaf that maps the page to itself. *)
LEMMA WalkEnds ==
  ASSUME NEW T, NEW c, NEW lev, NEW num, Tree(T, c, lev, num), NEW p \in Page
  PROVE  /\ LevelOf(T, p) \in 1 .. 3 /\ IndexOf(T, p) \in 0 .. Fan - 1
         /\ OnPath(c, lev, num, TableOf(T, p), p, LevelOf(T, p))
         /\ ~IsTable(LeafOf(T, p), LevelOf(T, p))
         /\ LeafOf(T, p).type = LeafType(LevelOf(T, p))
         /\ LeafOf(T, p).to = LevelSize(LevelOf(T, p)) * Number(p, LevelOf(T, p))
         /\ LeafOf(T, p).attr \in Attributes \union {Normal}
         /\ LevelOf(T, p) > 1 => TableOf(T, p) >= FirstFree
<1> DEFINE l == LevelOf(T, p)
           t == TableOf(T, p)
           i == IndexOf(T, p)
<1>1. /\ l \in 1 .. 3 /\ OnPath(c, lev, num, t, p, l) /\ ~IsTable(T[t][i], l)
      /\ l > 1 => t >= FirstFree
  <2>1. CASE ~Table1(T, p)
        BY <2>1, Walk DEF LevelOf, TableOf, IndexOf, Table1
  <2>2. CASE Table1(T, p) /\ ~Table2(T, p)
        BY <2>2, Walk DEF LevelOf, TableOf, IndexOf, Table2
  <2>3. CASE Table1(T, p) /\ Table2(T, p)
        BY <2>3, Walk DEF LevelOf, TableOf, IndexOf, IsTable
  <2> QED
      BY <2>1, <2>2, <2>3
<1>2. i = LevelOffset(p, l)
      BY DEF IndexOf
<1>3. LeafOf(T, p) = T[t][i]
      BY DEF LeafOf
<1> HIDE DEF l, t, i
<1>4. i \in 0 .. Fan - 1
  <2>1. l \in 0 .. 3 /\ p \in Nat
        BY <1>1, PageIsNat
  <2> QED
      BY <1>2, <2>1, Numbers
<1>5. /\ T[t][i].type = LeafType(l)
      /\ T[t][i].to = LevelSize(l) * (Fan * num[t] + i)
      /\ T[t][i].attr \in Attributes \union {Normal}
  <2>1. EntryIs(T, c, lev, num, t, i) /\ lev[t] = l
        BY <1>1, <1>4 DEF Tree, OnPath
  <2> QED
      BY <1>1, <2>1 DEF EntryIs
<1>6. Fan * num[t] + i = Number(p, l)
  <2>1. l - 1 \in 0 .. 2 /\ (l - 1) + 1 = l
        BY <1>1
  <2> QED
      BY <1>1, <1>2, <2>1, PageIsNat, Digits DEF OnPath
<1> QED
    BY <1>1, <1>3, <1>4, <1>5, <1>6 DEF l, t, i

(* The pages of one block of the level the walk ends at share the walk.    *)
LEMMA SameWalk ==
  ASSUME NEW T, NEW a \in Page, NEW p \in Page,
         Number(p, LevelOf(T, a)) = Number(a, LevelOf(T, a))
  PROVE  /\ LevelOf(T, p) = LevelOf(T, a) /\ TableOf(T, p) = TableOf(T, a)
         /\ IndexOf(T, p) = IndexOf(T, a)
<1>0. a \in Nat /\ p \in Nat
      BY PageIsNat
<1>1. ASSUME NEW l \in 0 .. 3, Number(p, l) = Number(a, l), NEW k \in 0 .. l
      PROVE  LevelOffset(p, k) = LevelOffset(a, k)
      BY <1>0, <1>1, SameBlocks
<1>2. CASE ~Table1(T, a)
  <2>1. Number(p, 1) = Number(a, 1)
        BY <1>2 DEF LevelOf
  <2>2. LevelOffset(p, 0) = LevelOffset(a, 0) /\ LevelOffset(p, 1) = LevelOffset(a, 1)
        BY <1>1, <2>1
  <2> QED
      BY <1>2, <2>2 DEF LevelOf, TableOf, IndexOf, Table1, At1
<1>3. CASE Table1(T, a) /\ ~Table2(T, a)
  <2>1. Number(p, 2) = Number(a, 2)
        BY <1>3 DEF LevelOf
  <2>2. /\ LevelOffset(p, 0) = LevelOffset(a, 0) /\ LevelOffset(p, 1) = LevelOffset(a, 1)
        /\ LevelOffset(p, 2) = LevelOffset(a, 2)
        BY <1>1, <2>1
  <2> QED
      BY <1>3, <2>2 DEF LevelOf, TableOf, IndexOf, Table1, Table2, At1, At2
<1>4. CASE Table1(T, a) /\ Table2(T, a)
  <2>1. Number(p, 3) = Number(a, 3)
        BY <1>4 DEF LevelOf
  <2>2. /\ LevelOffset(p, 0) = LevelOffset(a, 0) /\ LevelOffset(p, 1) = LevelOffset(a, 1)
        /\ LevelOffset(p, 2) = LevelOffset(a, 2) /\ LevelOffset(p, 3) = LevelOffset(a, 3)
        BY <1>1, <2>1
  <2> QED
      BY <1>4, <2>2 DEF LevelOf, TableOf, IndexOf, Table1, Table2, At1, At2, At3
<1> QED
    BY <1>2, <1>3, <1>4

(* U is T with another entry i0 in table t0, where T has a leaf.           *)
OtherEntry(T, U, c, t0, i0) ==
  \A t \in 0 .. c - 1, i \in 0 .. Fan - 1 : t # t0 \/ i # i0 => U[t][i] = T[t][i]

Replaced(T, U, c, lev, num, t0, i0) ==
  /\ Tree(T, c, lev, num)
  /\ t0 \in 1 .. c - 1 /\ ~IsTable(T[t0][i0], lev[t0])
  /\ OtherEntry(T, U, c, t0, i0)

(* A walk that does not end at that leaf is the same in both. *)
LEMMA Elsewhere ==
  ASSUME NEW T, NEW U, NEW c, NEW lev, NEW num, NEW t0, NEW i0,
         Replaced(T, U, c, lev, num, t0, i0), NEW p \in Page,
         TableOf(T, p) # t0 \/ IndexOf(T, p) # i0
  PROVE  LevelOf(U, p) = LevelOf(T, p) /\ LeafOf(U, p) = LeafOf(T, p)
<1>r. /\ Tree(T, c, lev, num) /\ t0 \in 1 .. c - 1 /\ ~IsTable(T[t0][i0], lev[t0])
      /\ OtherEntry(T, U, c, t0, i0)
      BY DEF Replaced
<1> USE <1>r
<1>0. /\ p \in Nat /\ c \in Nat /\ Fan \in Nat \ {0}
      /\ \A l \in 0 .. 3 : LevelOffset(p, l) \in 0 .. Fan - 1
      BY PageIsNat, Numbers, Sizes DEF Tree
<1>1. ASSUME NEW t \in 1 .. c - 1, NEW l \in 1 .. 3,
             t # t0 \/ LevelOffset(p, l) # i0
      PROVE  U[t][LevelOffset(p, l)] = T[t][LevelOffset(p, l)]
  <2>1. t \in 0 .. c - 1 /\ LevelOffset(p, l) \in 0 .. Fan - 1
        BY <1>0
  <2> QED
      BY <1>1, <2>1 DEF OtherEntry
<1>2. At1(U, p) = At1(T, p)
  <2>1. 0 \in 0 .. c - 1 /\ LevelOffset(p, 0) \in 0 .. Fan - 1 /\ 0 # t0
        BY <1>0
  <2> QED
      BY <2>1 DEF OtherEntry, At1
<1>3. OnPath(c, lev, num, At1(T, p), p, 1)
      BY Walk
<1>4. CASE ~Table1(T, p)
  <2>1. U[At1(T, p)][LevelOffset(p, 1)] = T[At1(T, p)][LevelOffset(p, 1)]
        BY <1>1, <1>3, <1>4 DEF OnPath, TableOf, IndexOf, LevelOf
  <2> QED
      BY <1>2, <1>4, <2>1 DEF LevelOf, TableOf, IndexOf, LeafOf, Table1
<1>5. ASSUME Table1(T, p)
      PROVE  /\ Table1(U, p) /\ At2(U, p) = At2(T, p)
             /\ OnPath(c, lev, num, At2(T, p), p, 2)
  <2>1. At1(T, p) # t0 \/ LevelOffset(p, 1) # i0
        BY <1>3, <1>5 DEF OnPath, Table1
  <2>2. U[At1(T, p)][LevelOffset(p, 1)] = T[At1(T, p)][LevelOffset(p, 1)]
        BY <1>1, <1>3, <2>1 DEF OnPath
  <2> QED
      BY <1>2, <1>5, <2>2, Walk DEF Table1, At2
<1>6. CASE Table1(T, p) /\ ~Table2(T, p)
  <2>1. U[At2(T, p)][LevelOffset(p, 2)] = T[At2(T, p)][LevelOffset(p, 2)]
        BY <1>1, <1>5, <1>6 DEF OnPath, TableOf, IndexOf, LevelOf
  <2> QED
      BY <1>5, <1>6, <2>1 DEF LevelOf, TableOf, IndexOf, LeafOf, Table2
<1>7. CASE Table1(T, p) /\ Table2(T, p)
  <2>1. At2(T, p) # t0 \/ LevelOffset(p, 2) # i0
        BY <1>5, <1>7 DEF OnPath, Table2
  <2>2. U[At2(T, p)][LevelOffset(p, 2)] = T[At2(T, p)][LevelOffset(p, 2)]
        BY <1>1, <1>5, <1>7, <2>1 DEF OnPath
  <2>3. Table2(U, p) /\ At3(U, p) = At3(T, p) /\ OnPath(c, lev, num, At3(T, p), p, 3)
        BY <1>5, <1>7, <2>2, Walk DEF Table2, At3
  <2>4. U[At3(T, p)][LevelOffset(p, 3)] = T[At3(T, p)][LevelOffset(p, 3)]
        BY <1>1, <1>7, <2>3 DEF OnPath, TableOf, IndexOf, LevelOf
  <2> QED
      BY <1>5, <1>7, <2>3, <2>4 DEF LevelOf, TableOf, IndexOf, LeafOf
<1> QED
    BY <1>4, <1>6, <1>7

Leaves(U, t, l) == \A i \in 0 .. Fan - 1 : ~IsTable(U[t][i], l)

(* A walk that ends there finds the other entry, and the end of the walk   *)
(* if it is a leaf, or the entry of the table it points to.                *)
LEMMA Reached ==
  ASSUME NEW T, NEW U, NEW c, NEW lev, NEW num, NEW t0, NEW i0,
         Replaced(T, U, c, lev, num, t0, i0), NEW p \in Page,
         TableOf(T, p) = t0, IndexOf(T, p) = i0
  PROVE  /\ ~IsTable(U[t0][i0], lev[t0]) =>
              LevelOf(U, p) = LevelOf(T, p) /\ LeafOf(U, p) = U[t0][i0]
         /\ /\ IsTable(U[t0][i0], lev[t0])
            /\ Leaves(U, U[t0][i0].to, lev[t0] + 1)
            => /\ LevelOf(T, p) \in 1 .. 2 /\ LevelOf(U, p) = LevelOf(T, p) + 1
               /\ TableOf(U, p) = U[t0][i0].to
               /\ LeafOf(U, p) = U[U[t0][i0].to][LevelOffset(p, LevelOf(T, p) + 1)]
<1>r. /\ Tree(T, c, lev, num) /\ t0 \in 1 .. c - 1 /\ ~IsTable(T[t0][i0], lev[t0])
      /\ OtherEntry(T, U, c, t0, i0)
      BY DEF Replaced
<1> USE <1>r
<1>0. /\ p \in Nat /\ c \in Nat /\ Fan \in Nat \ {0}
      /\ \A l \in 0 .. 3 : LevelOffset(p, l) \in 0 .. Fan - 1
      BY PageIsNat, Numbers, Sizes DEF Tree
<1>1. At1(U, p) = At1(T, p)
  <2>1. 0 \in 0 .. c - 1 /\ LevelOffset(p, 0) \in 0 .. Fan - 1 /\ 0 # t0
        BY <1>0
  <2> QED
      BY <2>1 DEF OtherEntry, At1
<1>2. OnPath(c, lev, num, At1(T, p), p, 1)
      BY Walk
<1>3. lev[t0] = LevelOf(T, p) /\ i0 = LevelOffset(p, LevelOf(T, p))
      BY WalkEnds DEF OnPath, IndexOf
<1>4. CASE ~Table1(T, p)
  <2>1. LevelOf(T, p) = 1 /\ t0 = At1(T, p) /\ i0 = LevelOffset(p, 1) /\ lev[t0] = 1
        BY <1>3, <1>4 DEF LevelOf, TableOf
  <2>2. Table1(U, p) <=> IsTable(U[t0][i0], 1)
        BY <1>1, <2>1 DEF Table1
  <2>3. At2(U, p) = U[t0][i0].to
        BY <1>1, <2>1 DEF At2
  <2>4. Table2(U, p) <=> IsTable(U[U[t0][i0].to][LevelOffset(p, 2)], 2)
        BY <2>3 DEF Table2
  <2>5. LevelOffset(p, 2) \in 0 .. Fan - 1 /\ lev[t0] + 1 = 2
        BY <1>0, <2>1
  <2> QED
      BY <1>1, <2>1, <2>2, <2>3, <2>4, <2>5 DEF LevelOf, TableOf, IndexOf, LeafOf, Leaves
<1>5. ASSUME Table1(T, p)
      PROVE  Table1(U, p) /\ At2(U, p) = At2(T, p)
  <2>1. At1(T, p) # t0 \/ LevelOffset(p, 1) # i0
        BY <1>2, <1>5 DEF OnPath, Table1
  <2>2. U[At1(T, p)][LevelOffset(p, 1)] = T[At1(T, p)][LevelOffset(p, 1)]
    <3>1. At1(T, p) \in 0 .. c - 1 /\ LevelOffset(p, 1) \in 0 .. Fan - 1
          BY <1>0, <1>2 DEF OnPath
    <3> QED
        BY <2>1, <3>1 DEF OtherEntry
  <2> QED
      BY <1>1, <1>5, <2>2 DEF Table1, At2
<1>6. CASE Table1(T, p) /\ ~Table2(T, p)
  <2>1. LevelOf(T, p) = 2 /\ t0 = At2(T, p) /\ i0 = LevelOffset(p, 2) /\ lev[t0] = 2
        BY <1>3, <1>6 DEF LevelOf, TableOf
  <2>2. Table2(U, p) <=> IsTable(U[t0][i0], 2)
        BY <1>5, <1>6, <2>1 DEF Table2
  <2>3. At3(U, p) = U[t0][i0].to
        BY <1>5, <1>6, <2>1 DEF At3
  <2>5. LevelOffset(p, 3) \in 0 .. Fan - 1 /\ lev[t0] + 1 = 3
        BY <1>0, <2>1
  <2> QED
      BY <1>5, <1>6, <2>1, <2>2, <2>3, <2>5 DEF LevelOf, TableOf, IndexOf, LeafOf, Leaves
<1>7. CASE Table1(T, p) /\ Table2(T, p)
  <2>1. LevelOf(T, p) = 3 /\ t0 = At3(T, p) /\ i0 = LevelOffset(p, 3) /\ lev[t0] = 3
        BY <1>3, <1>7 DEF LevelOf, TableOf
  <2>2. ~IsTable(U[t0][i0], lev[t0])
        BY <2>1 DEF IsTable
  <2>3. OnPath(c, lev, num, At2(T, p), p, 2)
        BY <1>7, Walk
  <2>4. At2(T, p) # t0
        BY <2>1, <2>3 DEF OnPath
  <2>5. U[At2(T, p)][LevelOffset(p, 2)] = T[At2(T, p)][LevelOffset(p, 2)]
    <3>1. At2(T, p) \in 0 .. c - 1 /\ LevelOffset(p, 2) \in 0 .. Fan - 1
          BY <1>0, <2>3 DEF OnPath
    <3> QED
        BY <2>4, <3>1 DEF OtherEntry
  <2>6. Table2(U, p) /\ At3(U, p) = t0
        BY <1>5, <1>7, <2>1, <2>5 DEF Table2, At3
  <2> QED
      BY <1>5, <1>7, <2>1, <2>2, <2>6 DEF LevelOf, TableOf, IndexOf, LeafOf
<1> QED
    BY <1>4, <1>6, <1>7

EndsAt(T, p, t, i) == TableOf(T, p) = t /\ IndexOf(T, p) = i

EntryAt(U, t, i)     == U[t][i]
LeafAt(U, lev, t, i) == ~IsTable(U[t][i], lev[t])
CutAt(U, lev, t, i)  == IsTable(U[t][i], lev[t]) /\ Leaves(U, U[t][i].to, lev[t] + 1)

LEMMA There ==
  ASSUME NEW T, NEW U, NEW c, NEW lev, NEW num, NEW t0, NEW i0,
         Replaced(T, U, c, lev, num, t0, i0), NEW p \in Page, EndsAt(T, p, t0, i0),
         LeafAt(U, lev, t0, i0)
  PROVE  LevelOf(U, p) = LevelOf(T, p) /\ LeafOf(U, p) = EntryAt(U, t0, i0)
  BY Reached DEF EndsAt, EntryAt, LeafAt

LEMMA Deeper ==
  ASSUME NEW T, NEW U, NEW c, NEW lev, NEW num, NEW t0, NEW i0,
         Replaced(T, U, c, lev, num, t0, i0), NEW p \in Page, EndsAt(T, p, t0, i0),
         CutAt(U, lev, t0, i0)
  PROVE  /\ LevelOf(T, p) \in 1 .. 2 /\ LevelOf(U, p) = LevelOf(T, p) + 1
         /\ TableOf(U, p) = EntryAt(U, t0, i0).to
         /\ LeafOf(U, p) = EntryAt(U, EntryAt(U, t0, i0).to, LevelOffset(p, LevelOf(T, p) + 1))
  BY Reached DEF EndsAt, EntryAt, CutAt

-----------------------------------------------------------------------------
(* A new table was made for the start of a block to write; an entry is not *)
(* cut further than the block that is written there, since no two calls    *)
(* have a page in common.                                                  *)
Touched(lev, num) ==
  \A t \in FirstFree .. cursor - 1 : \E p \in asked :
    /\ Number(p, lev[t] - 1) = num[t]
    /\ \/ p \notin Left
       \/ pc \in {"split", "gave_up"} /\ p = start /\ lev[t] <= level

TreeInv ==
  pc # "boot" =>
    \E lev \in [0 .. Pool - 1 -> 0 .. 3], num \in [0 .. Pool - 1 -> Nat] :
      Tree(tables, cursor, lev, num) /\ Touched(lev, num)

BootInv == pc = "boot" => cursor = 1 /\ calls = 0 /\ size = 0 /\ asked = {}

AskInv == Left \subseteq asked

(* The block to write, and the leaf that has to be cut down to it.         *)
BlockInv ==
  pc \in {"split", "gave_up"} =>
    /\ start % LevelSize(level) = 0 /\ LevelSize(level) <= size
    /\ \A k \in 1 .. level - 1 : start % LevelSize(k) # 0 \/ LevelSize(k) > size
    /\ lvl = LevelOf(tables, start) /\ lvl <= level
    /\ leaf = <<TableOf(tables, start), IndexOf(tables, start)>>

IInv == TypeOK /\ TreeInv /\ BootInv /\ AskInv /\ BlockInv

LEMMA Scaled ==
  ASSUME NEW k \in Nat, NEW a \in Int, NEW b \in Int, a <= b
  PROVE  k * a <= k * b
<1> DEFINE d == b - a
<1>1. d \in Nat /\ b = a + d
      OBVIOUS
<1> HIDE DEF d
<1>2. k * b = k * a + k * d
      BY <1>1
<1>3. k * d \in Nat /\ k * a \in Int
      BY <1>1
<1> QED
    BY <1>2, <1>3

(* The pages of a range, as add_pages goes through them. *)
LEMMA Pages ==
  ASSUME NEW r \in Ranges
  PROVE  /\ StartPage(r.start) \in Nat /\ EndPage(r.end) \in Nat
         /\ EndPage(r.end) - StartPage(r.start) \in Nat \ {0}
         /\ PagesOf(r) = StartPage(r.start) .. EndPage(r.end) - 1
         /\ PagesOf(r) \subseteq Page
<1> DEFINE k == PageBytes
           a == r.start
           b == r.end
           q == a \div k
           v == a % k
           e == (b + k - 1) \div k
           w == (b + k - 1) % k
<1>0. /\ k \in Nat \ {0} /\ a \in Nat /\ b \in Nat /\ a < b
      /\ (b - 1) \div k \in Page
      BY MmuAssumption
<1>1. q \in Nat /\ v \in 0 .. k - 1 /\ a = k * q + v
      BY <1>0, Divided
<1>2. e \in Nat /\ w \in 0 .. k - 1 /\ b + k - 1 = k * e + w
  <2>1. b + k - 1 \in Nat
        BY <1>0
  <2> QED
      BY <1>0, <2>1, Divided
<1>3. StartPage(r.start) = q /\ EndPage(r.end) = e
      BY DEF StartPage, EndPage
<1>4. PagesOf(r) = {p \in Page : p * k < b /\ a < (p + 1) * k}
      BY DEF PagesOf
<1>5. (b - 1) \div k = e - 1 /\ e - 1 \in Nat
  <2> DEFINE d == (b - 1) \div k
             x == (b - 1) % k
  <2>1. d \in Nat /\ x \in 0 .. k - 1 /\ b - 1 = k * d + x
    <3>1. b - 1 \in Nat
          BY <1>0
    <3> QED
        BY <1>0, <3>1, Divided
  <2> HIDE DEF d, x, e, w
  <2>2. k * (d + 1) + x = k * e + w
    <3>1. k * (d + 1) = k * d + k
          BY <1>0, <2>1
    <3> QED
        BY <1>0, <1>2, <2>1, <3>1
  <2>3. ~(d + 1 < e) /\ ~(e < d + 1)
        BY <1>0, <1>2, <2>1, <2>2, Distinct
  <2> QED
      BY <1>2, <2>1, <2>3 DEF d
<1> HIDE DEF q, v, e, w, k, a, b
<1>6. q <= e - 1
  <2> SUFFICES ASSUME e <= q PROVE FALSE
      BY <1>1, <1>2
  <2>1. k * e <= k * q
        BY <1>0, <1>1, <1>2, Scaled
  <2> QED
      BY <1>0, <1>1, <1>2, <2>1
<1>7. ASSUME NEW p \in Nat
      PROVE  p * k < b /\ a < (p + 1) * k <=> q <= p /\ p <= e - 1
  <2>1. p * k = k * p /\ (p + 1) * k = k * p + k /\ k * p \in Nat
        BY <1>0
  <2>2. ASSUME p < q
        PROVE  (p + 1) * k <= a
    <3>1. k * (p + 1) <= k * q
          BY <1>0, <1>1, <2>2, Scaled
    <3> QED
        BY <1>0, <1>1, <2>1, <3>1
  <2>3. ASSUME q <= p
        PROVE  a < (p + 1) * k
    <3>1. k * q <= k * p
          BY <1>0, <1>1, <2>3, Scaled
    <3> QED
        BY <1>0, <1>1, <2>1, <3>1
  <2>4. ASSUME e <= p
        PROVE  b <= p * k
    <3>1. k * e <= k * p
          BY <1>0, <1>2, <2>4, Scaled
    <3> QED
        BY <1>0, <1>2, <2>1, <3>1
  <2>5. ASSUME p <= e - 1
        PROVE  p * k < b
    <3>1. k * (p + 1) <= k * e
          BY <1>0, <1>2, <2>5, Scaled
    <3>2. k * (p + 1) = k * p + k
          BY <1>0
    <3> QED
        BY <1>0, <1>2, <2>1, <3>1, <3>2
  <2>6. p \in Int /\ q \in Int /\ e \in Int /\ p * k \in Int /\ (p + 1) * k \in Int /\ a \in Int /\ b \in Int
        BY <1>0, <1>1, <1>2, <2>1
  <2> QED
      BY ONLY <2>2, <2>3, <2>4, <2>5, <2>6
<1>8. Page = 0 .. Space - 1 /\ Space \in Nat /\ e - 1 \in Page
      BY <1>0, <1>5, Whole DEF e, k, b
<1>9. PagesOf(r) = q .. e - 1 /\ q .. e - 1 \subseteq Page
  <2>1. q .. e - 1 \subseteq Page
        BY <1>1, <1>5, <1>8
  <2>2. ASSUME NEW p \in Page
        PROVE  p \in PagesOf(r) <=> p \in q .. e - 1
    <3>1. p \in Nat
          BY PageIsNat
    <3> QED
        BY <1>1, <1>2, <1>4, <1>7, <3>1
  <2>3. PagesOf(r) \subseteq Page
        BY <1>4
  <2> QED
      BY <2>1, <2>2, <2>3
<1> QED
    BY <1>1, <1>2, <1>3, <1>6, <1>9

LEMMA InitInv == Init => IInv
<1> SUFFICES ASSUME Init
             PROVE  IInv
    OBVIOUS
<1>1. /\ Pool \in Nat /\ Fan \in Nat \ {0, 1} /\ FirstFree \in Nat \ {0, 1, 2} /\ FirstFree <= Pool
      /\ MaxCalls \in Nat
      BY Sizes, MmuAssumption DEF FirstFree
<1>2. Invalid \in Descriptor
  <2>1. 0 \in 0 .. Pool - 1
        BY <1>1
  <2> QED
      BY <2>1 DEF Invalid, Desc, Descriptor
<1>3. tables \in [0 .. Pool - 1 -> [0 .. Fan - 1 -> Descriptor]]
      BY <1>2 DEF Init
<1>4. leaf \in (0 .. Pool - 1) \X (0 .. Fan - 1) /\ cursor \in 1 .. Pool
      BY <1>1 DEF Init
<1>5. TypeOK
  <2>1. /\ level \in 1 .. 3 /\ lvl \in 0 .. 3 /\ start \in Nat /\ size \in Nat
        /\ asked \subseteq Page /\ calls \in 0 .. MaxCalls
        BY <1>1 DEF Init
  <2>2. /\ pc \in {"boot", "idle", "loop", "split", "gave_up"}
        /\ attributes \in Attributes \union {Normal}
        BY DEF Init
  <2> QED
      BY <1>3, <1>4, <2>1, <2>2 DEF TypeOK
<1> QED
    BY <1>5 DEF Init, IInv, TreeInv, BootInv, AskInv, BlockInv, Left

(* The tables of levels 0 and 1, filled with identity blocks. *)
LEMMA Filled ==
  ASSUME IInv, InitTables
  PROVE  /\ tables' \in [0 .. Pool - 1 -> [0 .. Fan - 1 -> Descriptor]]
         /\ \E lev \in [0 .. Pool - 1 -> 0 .. 3], num \in [0 .. Pool - 1 -> Nat] :
              Tree(tables', FirstFree, lev, num)
         /\ \A p \in Page : LeafOf(tables', p).attr = Normal
<1>1. /\ Pool \in Nat /\ Fan \in Nat \ {0, 1} /\ FirstFree = Fan + 1 /\ FirstFree <= Pool
      BY Sizes DEF FirstFree
<1> DEFINE Id(t, i) == ((t - 1) * Fan + i) * LevelSize(1)
           lev == [t \in 0 .. Pool - 1 |-> IF t \in 1 .. Fan THEN 1 ELSE 0]
           num == [t \in 0 .. Pool - 1 |-> IF t \in 1 .. Fan THEN t - 1 ELSE 0]
<1>2. tables \in [0 .. Pool - 1 -> [0 .. Fan - 1 -> Descriptor]]
      BY DEF IInv, TypeOK
<1>3. DOMAIN tables = 0 .. Pool - 1
      BY <1>2
<1>4. tables' = [t \in 0 .. Pool - 1 |-> [i \in 0 .. Fan - 1 |->
                  IF t = 0 THEN Desc(TABLE, i + 1, NoAttribute)
                  ELSE IF t \in 1 .. Fan THEN Desc(BLOCK, Id(t, i), Normal)
                  ELSE tables[t][i]]]
      BY <1>3 DEF InitTables, IdentityBlock
<1>5. ASSUME NEW t \in 1 .. Fan, NEW i \in 0 .. Fan - 1
      PROVE  /\ Id(t, i) \in Page
             /\ Id(t, i) = LevelSize(1) * (Fan * (t - 1) + i)
  <2> DEFINE k == LevelSize(1)
             q == Fan * (t - 1) + i
  <2>1. /\ k \in Nat \ {0} /\ Space = (Fan * k) * Fan /\ Space \in Nat
        /\ Page = 0 .. Space - 1
        BY Whole, Sizes
  <2>2. q < Fan * Fan + 0
        BY <1>1, <1>5, Distinct
  <2>3. (t - 1) * Fan = Fan * (t - 1) /\ Fan * (t - 1) \in Nat
        BY <1>1, <1>5
  <2>4. q \in Nat
        BY <1>5, <2>3
  <2>5. Id(t, i) = q * k
        BY <2>3
  <2> HIDE DEF k, q, Id
  <2>6. q * k = k * q /\ k * q \in Nat
        BY <2>1, <2>4
  <2>7. k * q + 0 < k * (Fan * Fan) + 0
    <3>1. Fan * Fan \in Nat
          BY <1>1
    <3>2. q < Fan * Fan
          BY <2>2, <3>1
    <3> QED
        BY <2>1, <2>4, <3>1, <3>2, Distinct
  <2>8. k * (Fan * Fan) = Space
        BY <1>1, <2>1
  <2>9. k * q < Space
        BY <2>1, <2>6, <2>7, <2>8
  <2>10. Id(t, i) \in Page
         BY <2>1, <2>5, <2>6, <2>9
  <2> QED
      BY <2>5, <2>6, <2>10 DEF k, q
<1> HIDE DEF Id
<1>6. tables' \in [0 .. Pool - 1 -> [0 .. Fan - 1 -> Descriptor]]
  <2>1. ASSUME NEW t \in 0 .. Pool - 1, NEW i \in 0 .. Fan - 1
        PROVE  (IF t = 0 THEN Desc(TABLE, i + 1, NoAttribute)
                ELSE IF t \in 1 .. Fan THEN Desc(BLOCK, Id(t, i), Normal)
                ELSE tables[t][i]) \in Descriptor
    <3>1. i + 1 \in 0 .. Pool - 1
          BY <1>1
    <3>2. Desc(TABLE, i + 1, NoAttribute) \in Descriptor
          BY <3>1 DEF Desc, Descriptor
    <3>3. t \in 1 .. Fan => Desc(BLOCK, Id(t, i), Normal) \in Descriptor
          BY <1>5 DEF Desc, Descriptor
    <3>4. tables[t][i] \in Descriptor
          BY <1>2
    <3> QED
        BY <3>2, <3>3, <3>4
  <2> QED
      BY <1>4, <2>1
<1>7. lev \in [0 .. Pool - 1 -> 0 .. 3] /\ num \in [0 .. Pool - 1 -> Nat]
      OBVIOUS
<1>8. ASSUME NEW t \in 1 .. Fan
      PROVE  lev[t] = 1 /\ num[t] = t - 1
  <2>1. t \in 0 .. Pool - 1
        BY <1>1
  <2> QED
      BY <2>1
<1> HIDE DEF lev, num
<1>9. ASSUME NEW t \in 1 .. Fan, NEW i \in 0 .. Fan - 1
      PROVE  /\ tables'[t][i] = Desc(BLOCK, Id(t, i), Normal)
             /\ ~IsTable(tables'[t][i], 1)
             /\ EntryIs(tables', FirstFree, lev, num, t, i)
  <2>1. t \in 0 .. Pool - 1 /\ t # 0
        BY <1>1
  <2>2. tables'[t][i] = Desc(BLOCK, Id(t, i), Normal)
        BY <1>4, <2>1
  <2>3. ~IsTable(tables'[t][i], 1)
        BY <2>2 DEF IsTable, Desc, BLOCK, TABLE
  <2> QED
      BY <1>5, <1>8, <2>2, <2>3 DEF EntryIs, Desc, LeafType
<1>10. ASSUME NEW i \in 0 .. Fan - 1
       PROVE  tables'[0][i].to = i + 1
  <2>1. 0 \in 0 .. Pool - 1
        BY <1>1
  <2> QED
      BY <1>4, <2>1 DEF Desc
<1>11. Tree(tables', FirstFree, lev, num)
  <2>1. FirstFree \in FirstFree .. Pool /\ 1 .. FirstFree - 1 = 1 .. Fan
        BY <1>1
  <2>2. ASSUME NEW t \in 1 .. Fan
        PROVE  lev[t] \in 1 .. 3 /\ num[t] \in Nat
        BY <1>1, <1>8
  <2> QED
      BY <1>8, <1>9, <1>10, <2>1, <2>2 DEF Tree
<1>12. ASSUME NEW p \in Page
       PROVE  LeafOf(tables', p).attr = Normal
  <2>1. OnPath(FirstFree, lev, num, At1(tables', p), p, 1)
        BY <1>11, Walk
  <2>2. At1(tables', p) \in 1 .. Fan /\ LevelOffset(p, 1) \in 0 .. Fan - 1
        BY <1>1, <2>1, PageIsNat, Numbers DEF OnPath
  <2>3. ~Table1(tables', p)
        BY <1>9, <2>2 DEF Table1
  <2>4. LeafOf(tables', p) = tables'[At1(tables', p)][LevelOffset(p, 1)]
        BY <2>3 DEF LeafOf, TableOf, IndexOf, LevelOf
  <2>5. LeafOf(tables', p) = Desc(BLOCK, Id(At1(tables', p), LevelOffset(p, 1)), Normal)
        BY <1>9, <2>2, <2>4
  <2> QED
      BY <2>5 DEF Desc
<1> QED
    BY <1>6, <1>7, <1>11, <1>12

LEMMA InitTablesStep ==
  ASSUME IInv, InitTables
  PROVE  IInv'
<1>1. FirstFree \in 1 .. Pool
      BY Sizes DEF FirstFree
<1>2. TypeOK'
      BY <1>1, Filled DEF IInv, TypeOK, InitTables, callVars, leafVars, askVars
<1>3. TreeInv'
  <2>1. PICK lev \in [0 .. Pool - 1 -> 0 .. 3], num \in [0 .. Pool - 1 -> Nat] :
          Tree(tables', FirstFree, lev, num)
        BY Filled
  <2>2. cursor' = FirstFree /\ FirstFree .. cursor' - 1 = {}
        BY Sizes DEF InitTables
  <2>3. Touched(lev, num)'
        BY <2>2 DEF Touched
  <2> QED
      BY <2>1, <2>2, <2>3 DEF TreeInv
<1> QED
    BY <1>2, <1>3 DEF IInv, InitTables, BootInv, AskInv, BlockInv, Left, askVars

LEMMA AddPagesStep ==
  ASSUME IInv, NEW r \in Ranges, NEW a \in Attributes, AddPages(r, a)
  PROVE  IInv' /\ Left = {} /\ Left' = PagesOf(r)
<1>1. /\ pc = "idle" /\ pc' = "loop" /\ calls' = calls + 1 /\ calls < MaxCalls
      /\ start' = StartPage(r.start) /\ size' = EndPage(r.end) - StartPage(r.start)
      /\ attributes' = a /\ asked' = asked \union PagesOf(r)
      /\ PagesOf(r) \intersect asked = {}
      /\ UNCHANGED <<tables, cursor, level, lvl, leaf>>
      BY DEF AddPages, leafVars
<1>2. /\ start' \in Nat /\ size' \in Nat /\ start' + size' = EndPage(r.end)
      /\ PagesOf(r) = start' .. start' + size' - 1 /\ PagesOf(r) \subseteq Page
      BY <1>1, Pages
<1>3. Left = {} /\ Left' = PagesOf(r)
      BY <1>1, <1>2 DEF Left
<1>4. calls' \in 0 .. MaxCalls
      BY <1>1, MmuAssumption DEF IInv, TypeOK
<1>5. TypeOK'
      BY <1>1, <1>2, <1>4 DEF IInv, TypeOK
<1>6. TreeInv'
  <2>1. PICK lev \in [0 .. Pool - 1 -> 0 .. 3], num \in [0 .. Pool - 1 -> Nat] :
          Tree(tables, cursor, lev, num) /\ Touched(lev, num)
        BY <1>1 DEF IInv, TreeInv
  <2>2. Touched(lev, num)'
    <3> SUFFICES ASSUME NEW t \in FirstFree .. cursor - 1
                 PROVE  \E p \in asked' : Number(p, lev[t] - 1) = num[t] /\ p \notin Left'
        BY <1>1 DEF Touched
    <3>1. PICK p \in asked : Number(p, lev[t] - 1) = num[t]
          BY <2>1 DEF Touched
    <3>2. p \in asked' /\ p \notin Left'
          BY <1>1, <1>3
    <3> QED
        BY <3>1, <3>2
  <2>3. Tree(tables', cursor', lev, num)
        BY <1>1, <2>1
  <2> QED
      BY <2>2, <2>3 DEF TreeInv
<1>7. AskInv'
      BY <1>1, <1>3 DEF AskInv
<1> QED
    BY <1>1, <1>3, <1>5, <1>6, <1>7 DEF IInv, BootInv, BlockInv

(* A call goes on within its pages. *)
LEMMA Going ==
  ASSUME IInv, pc \in {"loop", "split", "gave_up"}, size > 0
  PROVE  /\ Left = start .. start + size - 1 /\ start \in Nat /\ size \in Nat
         /\ start \in Left /\ start \in asked /\ start \in Page
<1>1. /\ start \in Nat /\ size \in Nat /\ asked \subseteq Page
      /\ Left = start .. start + size - 1 /\ Left \subseteq asked
      BY DEF IInv, TypeOK, AskInv, Left
<1> QED
    BY <1>1

LEMMA Chosen ==
  ASSUME NEW a \in Nat, NEW m \in Nat \ {0}
  PROVE  LET l == LevelFor(a, m)
         IN  /\ l \in 1 .. 3 /\ a % LevelSize(l) = 0 /\ LevelSize(l) <= m
             /\ \A k \in 1 .. l - 1 : a % LevelSize(k) # 0 \/ LevelSize(k) > m
<1> DEFINE Fits(l) == a % LevelSize(l) = 0 /\ LevelSize(l) <= m
           First(l) == Fits(l) /\ \A k \in 1 .. l - 1 : ~Fits(k)
<1>1. Fits(3)
  <2>1. a % 1 \in 0 .. 0
        OBVIOUS
  <2> QED
      BY <2>1, Sizes
<1> HIDE DEF Fits
<1>2. \E l \in 1 .. 3 : First(l)
  <2>1. CASE Fits(1)
    <3>1. First(1)
          BY <2>1
    <3> QED
        BY <3>1
  <2>2. CASE ~Fits(1) /\ Fits(2)
    <3>1. First(2)
          BY <2>2
    <3> QED
        BY <3>1
  <2>3. CASE ~Fits(1) /\ ~Fits(2)
    <3>1. First(3)
      <4>1. \A k \in 1 .. 2 : k = 1 \/ k = 2
            OBVIOUS
      <4> QED
          BY <1>1, <2>3, <4>1
    <3> QED
        BY <3>1
  <2> QED
      BY <2>1, <2>2, <2>3
<1>3. LevelFor(a, m) = CHOOSE l \in 1 .. 3 : First(l)
      BY DEF LevelFor, Fits
<1> HIDE DEF First
<1>4. LevelFor(a, m) \in 1 .. 3 /\ First(LevelFor(a, m))
      BY <1>2, <1>3
<1>5. \A k \in 1 .. 2 : LevelSize(k) \in Nat
      BY Sizes
<1> QED
    BY <1>4, <1>5 DEF First, Fits

(* No block the range has still to map has been cut. *)
LEMMA NotFiner ==
  ASSUME IInv, pc = "loop", NEW l \in 1 .. 3, start % LevelSize(l) = 0,
         size > 0, LevelSize(l) <= size
  PROVE  LevelOf(tables, start) <= l
<1> SUFFICES ASSUME LevelOf(tables, start) > l
             PROVE  FALSE
  <2>1. LevelOf(tables, start) \in Int /\ l \in Int
        BY DEF LevelOf
  <2> QED
      BY <2>1
<1>1. /\ Left = start .. start + size - 1 /\ start \in Nat /\ size \in Nat
      /\ start \in Page /\ asked \subseteq Page
      BY Going DEF IInv, TypeOK
<1>2. PICK lev \in [0 .. Pool - 1 -> 0 .. 3], num \in [0 .. Pool - 1 -> Nat] :
        Tree(tables, cursor, lev, num) /\ Touched(lev, num)
      BY DEF IInv, TreeInv
<1>3. PICK t : OnPath(cursor, lev, num, t, start, l + 1) /\ t >= FirstFree
  <2>1. l \in 1 .. 2
    <3>1. LevelOf(tables, start) \in 1 .. 3
          BY DEF LevelOf
    <3> QED
        BY <3>1
  <2>2. CASE l = 1
    <3>1. Table1(tables, start) /\ l + 1 = 2
          BY <2>2 DEF LevelOf
    <3> QED
        BY <1>1, <1>2, <3>1, Walk
  <2>3. CASE l = 2
    <3>1. Table1(tables, start) /\ Table2(tables, start) /\ l + 1 = 3
          BY <2>3 DEF LevelOf
    <3> QED
        BY <1>1, <1>2, <3>1, Walk
  <2> QED
      BY <2>1, <2>2, <2>3
<1>4. PICK p \in asked : Number(p, l) = Number(start, l) /\ p \notin Left
  <2>1. t \in FirstFree .. cursor - 1 /\ lev[t] - 1 = l /\ num[t] = Number(start, l)
    <3>1. t \in 1 .. cursor - 1 /\ lev[t] = l + 1 /\ num[t] = Number(start, (l + 1) - 1)
          BY <1>3 DEF OnPath
    <3>2. (l + 1) - 1 = l
          OBVIOUS
    <3> QED
        BY <1>3, <3>1, <3>2, Sizes
  <2> QED
      BY <1>2, <2>1 DEF Touched
<1> DEFINE k == LevelSize(l)
           m == LevelSize(l) * Number(start, l)
<1>5. /\ p \in Nat /\ k \in Nat \ {0} /\ p = m + (p % k) /\ p % k \in 0 .. k - 1
      /\ start = m + 0 /\ m \in Int
  <2>1. p \in Nat /\ l \in 0 .. 3
        BY <1>1, PageIsNat
  <2>2. k \in Nat \ {0} /\ Number(start, l) \in Nat
        BY <1>1, <2>1, Sizes, Numbers
  <2>3. p = m + (p % k) /\ p % k \in 0 .. k - 1
        BY <1>4, <2>1, Numbers
  <2>4. start = m + (start % k)
        BY <1>1, <2>1, Numbers
  <2>5. m \in Int
        BY <2>2
  <2> QED
      BY <2>1, <2>2, <2>3, <2>4, <2>5
<1> HIDE DEF m, k
<1>6. k <= size
      BY DEF k
<1>7. p \in start .. start + size - 1
      BY <1>1, <1>5, <1>6
<1> QED
    BY <1>1, <1>4, <1>7

LEMMA FindLeafStep ==
  ASSUME IInv, FindLeaf
  PROVE  IInv' /\ UNCHANGED <<tables, attributes, start, size>> /\ Left' = Left
<1> DEFINE l == LevelFor(start, size)
<1>1. /\ pc = "loop" /\ size > 0 /\ pc' = "split"
      /\ level' = l /\ start' = Align(start, l)
      /\ lvl' = LeafFor(Align(start, l)).level /\ leaf' = LeafFor(Align(start, l)).place
      /\ UNCHANGED <<tables, cursor, size, attributes, asked, calls>>
      BY DEF FindLeaf, askVars
<1>2. start \in Nat /\ size \in Nat \ {0} /\ start \in Page
      BY <1>1, Going
<1>3. /\ l \in 1 .. 3 /\ start % LevelSize(l) = 0 /\ LevelSize(l) <= size
      /\ \A k \in 1 .. l - 1 : start % LevelSize(k) # 0 \/ LevelSize(k) > size
      BY <1>2, Chosen
<1> HIDE DEF l
<1>4. Align(start, l) = start
      BY <1>2, <1>3 DEF Align
<1>5. /\ lvl' = LevelOf(tables, start)
      /\ leaf' = <<TableOf(tables, start), IndexOf(tables, start)>>
      BY <1>1, <1>4, LeafForIs
<1>6. lvl' <= level'
      BY <1>1, <1>2, <1>3, <1>5, NotFiner
<1>7. BlockInv'
      BY <1>1, <1>3, <1>4, <1>5, <1>6 DEF BlockInv
<1>8. Left' = Left
      BY <1>1, <1>4 DEF Left
<1>9. PICK lev \in [0 .. Pool - 1 -> 0 .. 3], num \in [0 .. Pool - 1 -> Nat] :
        Tree(tables, cursor, lev, num) /\ Touched(lev, num)
      BY <1>1 DEF IInv, TreeInv
<1>10. Touched(lev, num)'
  <2> SUFFICES ASSUME NEW t \in FirstFree .. cursor - 1
               PROVE  \E p \in asked : Number(p, lev[t] - 1) = num[t] /\ p \notin Left
      BY <1>1, <1>8 DEF Touched
  <2> QED
      BY <1>1, <1>9 DEF Touched
<1>11. TreeInv'
  <2>1. Tree(tables', cursor', lev, num)
        BY <1>1, <1>9
  <2> QED
      BY <1>10, <2>1 DEF TreeInv
<1>12. TypeOK'
  <2>1. LevelOf(tables, start) \in 1 .. 3 /\ IndexOf(tables, start) \in 0 .. Fan - 1
        BY <1>2, <1>9, WalkEnds
  <2>2. TableOf(tables, start) \in 0 .. Pool - 1
    <3>1. OnPath(cursor, lev, num, TableOf(tables, start), start, LevelOf(tables, start))
          BY <1>2, <1>9, WalkEnds
    <3>2. TableOf(tables, start) \in 1 .. cursor - 1
          BY <3>1 DEF OnPath
    <3>3. cursor \in 1 .. Pool /\ Pool \in Nat
          BY Sizes DEF IInv, TypeOK
    <3> QED
        BY <3>2, <3>3
  <2>3. leaf' \in (0 .. Pool - 1) \X (0 .. Fan - 1) /\ lvl' \in 0 .. 3
        BY <1>5, <2>1, <2>2
  <2>4. start' = start /\ level' \in 1 .. 3
        BY <1>1, <1>3, <1>4
  <2> QED
      BY <1>1, <2>3, <2>4 DEF IInv, TypeOK
<1> QED
    BY <1>1, <1>4, <1>7, <1>8, <1>11, <1>12 DEF IInv, AskInv, BootInv

LEMMA StopStep ==
  ASSUME IInv, GiveUp \/ AddPagesDone
  PROVE  IInv' /\ UNCHANGED <<tables, attributes>> /\ Left' = Left
<1>1. /\ pc \in {"loop", "split"} /\ pc' \in {"idle", "gave_up"}
      /\ UNCHANGED <<tables, cursor, callVars, leafVars, askVars>>
      /\ pc = "split" <=> pc' = "gave_up"
      /\ pc = "loop" => size = 0
      BY DEF GiveUp, AddPagesDone
<1>2. Left' = Left
  <2>1. CASE pc = "split"
        BY <1>1, <2>1 DEF Left, callVars
  <2>2. CASE pc = "loop"
    <3>1. start \in Nat /\ start .. start + 0 - 1 = {}
          BY DEF IInv, TypeOK
    <3> QED
        BY <1>1, <2>2, <3>1 DEF Left
  <2> QED
      BY <1>1, <2>1, <2>2
<1>3. PICK lev \in [0 .. Pool - 1 -> 0 .. 3], num \in [0 .. Pool - 1 -> Nat] :
        Tree(tables, cursor, lev, num) /\ Touched(lev, num)
      BY <1>1 DEF IInv, TreeInv
<1>4. Touched(lev, num)'
      BY <1>1, <1>2, <1>3 DEF Touched, callVars, askVars
<1>5. TreeInv'
  <2>1. Tree(tables', cursor', lev, num)
        BY <1>1, <1>3
  <2> QED
      BY <1>4, <2>1 DEF TreeInv
<1>6. TypeOK'
      BY <1>1 DEF IInv, TypeOK, callVars, leafVars, askVars
<1>7. AskInv' /\ BootInv' /\ BlockInv'
      BY <1>1, <1>2 DEF IInv, AskInv, BootInv, BlockInv, callVars, leafVars, askVars
<1> QED
    BY <1>1, <1>2, <1>5, <1>6, <1>7 DEF IInv, callVars

(* What is known of the leaf while it is cut. *)
LEMMA Cutting ==
  ASSUME IInv, pc = "split"
  PROVE  /\ start \in Page /\ start \in Nat /\ start \in asked
         /\ size \in Nat \ {0} /\ Left = start .. start + size - 1
         /\ level \in 1 .. 3 /\ lvl \in 1 .. 3 /\ lvl <= level
         /\ leaf[1] = TableOf(tables, start) /\ leaf[2] = IndexOf(tables, start)
         /\ lvl = LevelOf(tables, start)
         /\ leaf[1] \in 1 .. cursor - 1 /\ leaf[2] \in 0 .. Fan - 1
         /\ cursor \in FirstFree .. Pool
         /\ At(leaf) = LeafOf(tables, start) /\ At(leaf) \in Descriptor
         /\ ~IsTable(At(leaf), lvl) /\ At(leaf).type = LeafType(lvl)
         /\ At(leaf).to = LevelSize(lvl) * Number(start, lvl)
         /\ At(leaf).attr \in Attributes \union {Normal}
<1>1. /\ level \in 1 .. 3 /\ LevelSize(level) <= size /\ lvl <= level
      /\ lvl = LevelOf(tables, start)
      /\ leaf = <<TableOf(tables, start), IndexOf(tables, start)>>
      /\ size \in Nat
      BY DEF IInv, BlockInv, TypeOK
<1>2. size > 0
  <2>1. level \in 0 .. 3
        BY <1>1
  <2>2. LevelSize(level) \in Nat \ {0}
        BY <2>1, Sizes
  <2> QED
      BY <1>1, <2>2
<1>3. /\ start \in Page /\ start \in Nat /\ start \in asked
      /\ Left = start .. start + size - 1
      BY <1>2, Going
<1>4. PICK lev \in [0 .. Pool - 1 -> 0 .. 3], num \in [0 .. Pool - 1 -> Nat] :
        Tree(tables, cursor, lev, num)
      BY DEF IInv, TreeInv
<1>5. /\ lvl \in 1 .. 3 /\ IndexOf(tables, start) \in 0 .. Fan - 1
      /\ OnPath(cursor, lev, num, TableOf(tables, start), start, lvl)
      /\ LET d == LeafOf(tables, start)
         IN  /\ ~IsTable(d, lvl) /\ d.type = LeafType(lvl)
             /\ d.to = LevelSize(lvl) * Number(start, lvl)
             /\ d.attr \in Attributes \union {Normal}
      BY <1>1, <1>3, <1>4, WalkEnds
<1>6. TableOf(tables, start) \in 1 .. cursor - 1
      BY <1>5 DEF OnPath
<1>7. At(leaf) = LeafOf(tables, start)
      BY <1>1 DEF At, LeafOf
<1>8. cursor \in FirstFree .. Pool
      BY <1>4 DEF Tree
<1>9. At(leaf) \in Descriptor
  <2>1. /\ Pool \in Nat /\ cursor \in 1 .. Pool
        /\ tables \in [0 .. Pool - 1 -> [0 .. Fan - 1 -> Descriptor]]
        BY Sizes DEF IInv, TypeOK
  <2>2. TableOf(tables, start) \in 0 .. Pool - 1
        BY ONLY <1>6, <2>1
  <2>3. IndexOf(tables, start) \in 0 .. Fan - 1
        BY <1>5
  <2>4. tables[TableOf(tables, start)][IndexOf(tables, start)] \in Descriptor
        BY ONLY <2>1, <2>2, <2>3
  <2> QED
      BY <1>7, <2>4 DEF LeafOf
<1> QED
    BY <1>1, <1>2, <1>3, <1>5, <1>6, <1>7, <1>8, <1>9

(* Two pages whose walks end at one place are in one block. *)
LEMMA SamePlace ==
  ASSUME NEW T, NEW c, NEW lev, NEW num, Tree(T, c, lev, num),
         NEW a \in Page, NEW p \in Page,
         TableOf(T, p) = TableOf(T, a), IndexOf(T, p) = IndexOf(T, a)
  PROVE  LevelOf(T, p) = LevelOf(T, a) /\ Number(p, LevelOf(T, a)) = Number(a, LevelOf(T, a))
<1> DEFINE l == LevelOf(T, a)
<1>1. /\ OnPath(c, lev, num, TableOf(T, a), a, l) /\ l \in 1 .. 3
      /\ OnPath(c, lev, num, TableOf(T, p), p, LevelOf(T, p))
      BY WalkEnds
<1>2. LevelOf(T, p) = l
      BY <1>1 DEF OnPath
<1>3. Number(p, l - 1) = Number(a, l - 1) /\ LevelOffset(p, l) = LevelOffset(a, l)
      BY <1>1, <1>2 DEF OnPath, IndexOf
<1> HIDE DEF l
<1>4. l - 1 \in 0 .. 2 /\ (l - 1) + 1 = l
      BY <1>1
<1>5. Number(p, l) = Number(a, l)
      BY <1>3, <1>4, PageIsNat, Digits
<1> QED
    BY <1>2, <1>5 DEF l

(* The pages of an aligned block. *)
LEMMA Block ==
  ASSUME NEW a \in Nat, NEW p \in Nat, NEW l \in 0 .. 3, a % LevelSize(l) = 0
  PROVE  /\ a = LevelSize(l) * Number(a, l)
         /\ Number(p, l) = Number(a, l) <=> p \in a .. a + LevelSize(l) - 1
<1> DEFINE k == LevelSize(l)
           q == Number(a, l)
           m == k * q
           x == p % k
<1>1. k \in Nat \ {0} /\ q \in Nat /\ a = m + (a % k)
      BY Sizes, Numbers
<1>2. m \in Nat
      BY <1>1
<1>3. a = m
      BY <1>1, <1>2
<1>4. ASSUME Number(p, l) = q
      PROVE  p \in a .. a + k - 1
  <2>1. p = m + x /\ x \in 0 .. k - 1
        BY <1>4, Numbers
  <2> HIDE DEF k, q, m, x
  <2> QED
      BY <1>1, <1>3, <2>1
<1>5. ASSUME p \in a .. a + k - 1
      PROVE  Number(p, l) = q
  <2> DEFINE y == p - a
  <2>1. y \in 0 .. k - 1 /\ p = a + y
        BY <1>1, <1>5
  <2>2. p = k * q + y
        BY <1>3, <2>1
  <2> HIDE DEF y
  <2>3. (k * q + y) \div k = q
        BY <1>1, <2>1, Unique
  <2> QED
      BY <2>2, <2>3 DEF Number
<1> QED
    BY <1>3, <1>4, <1>5

LEMMA WriteLeafStep ==
  ASSUME IInv, WriteLeaf
  PROVE  /\ IInv' /\ Left' \subseteq Left /\ Left' # Left /\ attributes' = attributes
         /\ LevelOf(tables', start) = LevelOf(tables, start)
         /\ \A p \in Page : LeafOf(tables', p).attr =
              IF p \in Left \ Left' THEN attributes ELSE LeafOf(tables, p).attr
<1> DEFINE k == LevelSize(level)
           new == Desc(LeafType(level), start, attributes)
<1>1. /\ pc = "split" /\ lvl >= level /\ pc' = "loop"
      /\ tables' = [tables EXCEPT ![leaf[1]][leaf[2]] = new]
      /\ start' = start + k /\ size' = size - k
      /\ UNCHANGED <<cursor, attributes, level, lvl, leaf, asked, calls>>
      BY DEF WriteLeaf, leafVars, askVars
<1>2. /\ start \in Page /\ start \in Nat /\ start \in asked
      /\ size \in Nat \ {0} /\ Left = start .. start + size - 1
      /\ level \in 1 .. 3 /\ lvl = level
      /\ leaf[1] = TableOf(tables, start) /\ leaf[2] = IndexOf(tables, start)
      /\ lvl = LevelOf(tables, start)
      /\ leaf[1] \in 1 .. cursor - 1 /\ leaf[2] \in 0 .. Fan - 1
      /\ cursor \in FirstFree .. Pool /\ ~IsTable(At(leaf), lvl)
      BY <1>1, Cutting
<1>3. /\ start % k = 0 /\ k <= size /\ level \in 0 .. 3 /\ k \in Nat \ {0}
  <2>1. level \in 0 .. 3
        BY <1>2
  <2> QED
      BY <1>1, <2>1, Sizes DEF IInv, BlockInv
<1>4. /\ tables \in [0 .. Pool - 1 -> [0 .. Fan - 1 -> Descriptor]]
      /\ asked \subseteq Page /\ attributes \in Attributes \union {Normal}
      /\ Left \subseteq asked
      BY DEF IInv, TypeOK, AskInv
<1>5. /\ leaf[1] \in 0 .. Pool - 1 /\ Pool \in Nat \ {0} /\ cursor \in 1 .. Pool
      /\ 0 .. cursor - 1 \subseteq 0 .. Pool - 1
  <2>1. Pool \in Nat /\ cursor \in 1 .. Pool
        BY Sizes DEF IInv, TypeOK
  <2>2. leaf[1] \in 1 .. cursor - 1
        BY <1>2
  <2> QED
      BY ONLY <2>1, <2>2
<1> HIDE DEF k, new
<1>6. /\ tables'[leaf[1]][leaf[2]] = new
      /\ \A t \in 0 .. Pool - 1, i \in 0 .. Fan - 1 :
           t # leaf[1] \/ i # leaf[2] => tables'[t][i] = tables[t][i]
      BY <1>1, <1>2, <1>4, <1>5
<1>7. new \in Descriptor /\ ~IsTable(new, level) /\ new.type = LeafType(level)
      /\ new.to = start /\ new.attr = attributes
  <2>1. LeafType(level) \in {0, BLOCK, TABLE}
        BY DEF LeafType, BLOCK, TABLE
  <2>2. ~IsTable(new, level)
        BY DEF new, IsTable, Desc, LeafType, BLOCK, TABLE
  <2> QED
      BY <1>2, <1>4, <2>1, <2>2 DEF new, Desc, Descriptor
<1>8. tables' \in [0 .. Pool - 1 -> [0 .. Fan - 1 -> Descriptor]]
  <2>1. [tables[leaf[1]] EXCEPT ![leaf[2]] = new] \in [0 .. Fan - 1 -> Descriptor]
        BY <1>4, <1>5, <1>7
  <2> QED
      BY <1>1, <1>4, <1>5, <2>1
<1>9. Left' = start + k .. start + size - 1 /\ start' \in Nat /\ size' \in Nat
  <2>1. start' = start + k /\ size' = size - k /\ start' + size' - 1 = start + size - 1
        BY <1>1, <1>2, <1>3
  <2>2. Left' = start' .. start' + size' - 1
        BY <1>1 DEF Left
  <2> QED
      BY <1>2, <1>3, <2>1, <2>2
<1>10. /\ Left' \subseteq Left /\ Left \ Left' = start .. start + k - 1
       /\ start \in Left \ Left'
       BY <1>2, <1>3, <1>9
<1>11. TypeOK'
       BY <1>1, <1>8, <1>9 DEF IInv, TypeOK
<1>12. PICK lev \in [0 .. Pool - 1 -> 0 .. 3], num \in [0 .. Pool - 1 -> Nat] :
         Tree(tables, cursor, lev, num) /\ Touched(lev, num)
       BY <1>1 DEF IInv, TreeInv
<1>13. /\ lev[leaf[1]] = level /\ Fan * num[leaf[1]] + leaf[2] = Number(start, level)
  <2>1. /\ OnPath(cursor, lev, num, leaf[1], start, level)
        /\ leaf[2] = LevelOffset(start, level)
        BY <1>2, <1>12, WalkEnds DEF IndexOf
  <2>2. level - 1 \in 0 .. 2 /\ (level - 1) + 1 = level
        BY <1>2
  <2>3. Number(start, level) = Fan * Number(start, level - 1) + LevelOffset(start, level)
        BY <1>2, <2>2, Digits
  <2> QED
      BY <2>1, <2>3 DEF OnPath
<1>14. start = k * Number(start, level)
       BY <1>2, <1>3, Block DEF k
<1>15. Tree(tables', cursor', lev, num)
  <2>1. ASSUME NEW t \in 1 .. cursor - 1, NEW i \in 0 .. Fan - 1
        PROVE  EntryIs(tables', cursor, lev, num, t, i)
    <3>0. t \in 0 .. Pool - 1
          BY ONLY <1>5, <2>1
    <3>1. t \in 0 .. Pool - 1 /\ EntryIs(tables, cursor, lev, num, t, i)
          BY <1>12, <2>1, <3>0 DEF Tree
    <3>2. CASE t = leaf[1] /\ i = leaf[2]
          BY <1>4, <1>6, <1>7, <1>13, <1>14, <3>2 DEF EntryIs, k
    <3>3. CASE t # leaf[1] \/ i # leaf[2]
          BY <1>6, <3>1, <3>3 DEF EntryIs
    <3> QED
        BY <3>2, <3>3
  <2>2. ASSUME NEW i \in 0 .. Fan - 1
        PROVE  tables'[0][i].to = i + 1
    <3>0. leaf[1] \in 1 .. cursor - 1
          BY <1>2
    <3>1. 0 \in 0 .. Pool - 1 /\ 0 # leaf[1]
          BY ONLY <1>5, <3>0
    <3> QED
        BY <1>6, <1>12, <3>1 DEF Tree
  <2> QED
      BY <1>1, <1>12, <2>1, <2>2 DEF Tree
<1>16. Touched(lev, num)'
  <2> SUFFICES ASSUME NEW t \in FirstFree .. cursor - 1
               PROVE  \E p \in asked : Number(p, lev[t] - 1) = num[t] /\ p \notin Left'
      BY <1>1 DEF Touched
  <2> QED
      BY <1>10, <1>12 DEF Touched
<1>17. IInv'
  <2>1. TreeInv'
        BY <1>15, <1>16 DEF TreeInv
  <2>2. AskInv'
        BY <1>1, <1>4, <1>10 DEF AskInv
  <2> QED
      BY <1>1, <1>11, <2>1, <2>2 DEF IInv, BootInv, BlockInv
<1>18. OtherEntry(tables, tables', cursor, leaf[1], leaf[2])
  <2> QED
      BY <1>5, <1>6 DEF OtherEntry
<1>19. ~IsTable(tables[leaf[1]][leaf[2]], lev[leaf[1]])
       BY <1>2, <1>13 DEF At
<1> DEFINE t0 == leaf[1]
           i0 == leaf[2]
<1>21. /\ t0 = TableOf(tables, start) /\ i0 = IndexOf(tables, start)
       /\ LevelOf(tables, start) = level /\ start \in Page
       /\ Tree(tables, cursor, lev, num)
       BY <1>2, <1>12
<1>22. Replaced(tables, tables', cursor, lev, num, t0, i0)
       BY <1>2, <1>12, <1>18, <1>19 DEF Replaced
<1>23. LeafAt(tables', lev, t0, i0)
       BY <1>6, <1>7, <1>13 DEF LeafAt
<1>24. EntryAt(tables', t0, i0).attr = attributes
       BY <1>6, <1>7 DEF EntryAt
<1> HIDE DEF t0, i0
<1>25. LevelOf(tables', start) = LevelOf(tables, start)
  <2>1. start \in Page /\ EndsAt(tables, start, t0, i0)
        BY <1>21 DEF EndsAt
  <2> QED
      BY ONLY <1>22, <1>23, <2>1, There
<1>20. ASSUME NEW p \in Page
       PROVE  LeafOf(tables', p).attr =
                IF p \in Left \ Left' THEN attributes ELSE LeafOf(tables, p).attr
  <2>0. p \in Nat /\ p \in Page
        BY PageIsNat
  <2>1. p \in Left \ Left' <=> Number(p, level) = Number(start, level)
    <3>1. start % LevelSize(level) = 0 /\ start \in Nat /\ level \in 0 .. 3
          BY <1>2, <1>3 DEF k
    <3>2. Number(p, level) = Number(start, level) <=> p \in start .. start + LevelSize(level) - 1
          BY ONLY <2>0, <3>1, Block
    <3> QED
        BY <1>10, <3>2 DEF k
  <2>2. CASE p \in Left \ Left'
    <3>1. TableOf(tables, p) = t0 /\ IndexOf(tables, p) = i0
      <4>1. Number(p, LevelOf(tables, start)) = Number(start, LevelOf(tables, start))
            BY <1>21, <2>1, <2>2
      <4> QED
          BY <1>21, <4>1, SameWalk
    <3>2. EndsAt(tables, p, t0, i0)
          BY <3>1 DEF EndsAt
    <3>3. LeafOf(tables', p) = EntryAt(tables', t0, i0)
          BY ONLY <1>22, <1>23, <2>0, <3>2, There
    <3> QED
        BY <1>24, <2>2, <3>3
  <2>3. CASE p \notin Left \ Left'
    <3>1. TableOf(tables, p) # t0 \/ IndexOf(tables, p) # i0
      <4>1. Number(p, LevelOf(tables, start)) # Number(start, LevelOf(tables, start))
            BY <1>21, <2>1, <2>3
      <4> QED
          BY ONLY <1>21, <4>1, SamePlace
    <3>2. LeafOf(tables', p) = LeafOf(tables, p)
          BY <1>22, <2>0, <3>1, Elsewhere
    <3> QED
        BY <2>3, <3>2
  <2> QED
      BY <2>2, <2>3
<1> QED
    BY <1>1, <1>10, <1>17, <1>20, <1>25

(* The entries of a new table map what the leaf it takes the place of did. *)
LEMMA NewTable ==
  ASSUME IInv, Split
  PROVE  /\ pc = "split" /\ lvl \in 1 .. 2 /\ lvl < level /\ cursor < Pool
         /\ cursor' = cursor + 1 /\ lvl' = lvl + 1
         /\ leaf' = <<cursor, LevelOffset(start, lvl + 1)>>
         /\ UNCHANGED <<pc, start, size, attributes, level, asked, calls>>
         /\ tables' \in [0 .. Pool - 1 -> [0 .. Fan - 1 -> Descriptor]]
         /\ \A i \in 0 .. Fan - 1 :
              /\ tables'[cursor][i].type = LeafType(lvl + 1)
              /\ tables'[cursor][i].to = LevelSize(lvl + 1) * (Fan * Number(start, lvl) + i)
              /\ tables'[cursor][i].attr = At(leaf).attr
         /\ tables'[leaf[1]][leaf[2]].type = TABLE /\ tables'[leaf[1]][leaf[2]].to = cursor
         /\ \A t \in 0 .. Pool - 1 \ {cursor}, i \in 0 .. Fan - 1 :
              t # leaf[1] \/ i # leaf[2] => tables'[t][i] = tables[t][i]
<1> DEFINE d == At(leaf)
           ptr == Desc(TABLE, cursor, NoAttribute)
           new == [i \in 0 .. Fan - 1 |->
                     Desc(LeafType(lvl + 1), Align(d.to, lvl) + i * LevelSize(lvl + 1), d.attr)]
<1>1. /\ pc = "split" /\ lvl < level /\ cursor < Pool
      /\ cursor' = cursor + 1 /\ lvl' = lvl + 1
      /\ leaf' = <<cursor, LevelOffset(start, lvl + 1)>>
      /\ UNCHANGED <<pc, start, size, attributes, level, asked, calls>>
      /\ tables' = [tables EXCEPT ![cursor] = new, ![leaf[1]][leaf[2]] = ptr]
      BY DEF Split, callVars, askVars
<1>2. /\ start \in Page /\ start \in Nat /\ level \in 1 .. 3 /\ lvl \in 1 .. 3
      /\ leaf[1] \in 1 .. cursor - 1 /\ leaf[2] \in 0 .. Fan - 1
      /\ d.to = LevelSize(lvl) * Number(start, lvl)
      /\ d.attr \in Attributes \union {Normal}
      BY <1>1, Cutting
<1>3. lvl \in 1 .. 2 /\ lvl \in 0 .. 2
      BY <1>1, <1>2
<1>4. /\ Pool \in Nat /\ cursor \in 1 .. Pool - 1 /\ leaf[1] \in 0 .. Pool - 1
      /\ leaf[1] # cursor
  <2>1. Pool \in Nat /\ cursor \in 1 .. Pool
        BY Sizes DEF IInv, TypeOK
  <2>2. leaf[1] \in 1 .. cursor - 1 /\ cursor < Pool
        BY <1>1, <1>2
  <2> QED
      BY ONLY <2>1, <2>2
<1>5. tables \in [0 .. Pool - 1 -> [0 .. Fan - 1 -> Descriptor]]
      BY DEF IInv, TypeOK
<1> DEFINE k == LevelSize(lvl + 1)
           q == Number(start, lvl)
<1>6. ASSUME NEW i \in 0 .. Fan - 1
      PROVE  /\ Align(d.to, lvl) + i * k = k * (Fan * q + i)
             /\ k * (Fan * q + i) \in Page
  <2> DEFINE g == LevelSize(lvl)
             x == i * k
  <2>1. /\ g = Fan * k /\ g \in Nat \ {0} /\ k \in Nat \ {0} /\ q \in Nat
        /\ Fan \in Nat \ {0}
    <3>1. g = Fan * k /\ g \in Nat \ {0} /\ k \in Nat \ {0}
          BY <1>3, Coarser
    <3>2. lvl \in 0 .. 3
          BY <1>3
    <3> QED
        BY <1>2, <3>1, <3>2, Numbers, Sizes
  <2>2. Align(d.to, lvl) = g * q
    <3>1. d.to = g * q + 0 /\ g * q \in Nat
          BY <1>2, <2>1
    <3>2. (g * q + 0) % g = 0
      <4> HIDE DEF g, q
      <4>1. 0 \in 0 .. g - 1
            BY <2>1
      <4> QED
          BY <2>1, <4>1, Unique
    <3>3. Align(d.to, lvl) = d.to - (d.to % g)
          BY DEF Align
    <3> HIDE DEF g, q, d
    <3>4. d.to % g = 0
          BY <3>1, <3>2
    <3> QED
        BY <3>1, <3>3, <3>4
  <2>3. g * q + x = k * (Fan * q + i)
    <3> HIDE DEF g, q, k
    <3> QED
        BY <2>1
  <2>4. x \in 0 .. g - 1
    <3> HIDE DEF g, q, k
    <3>1. x = k * i + 0 /\ x \in Nat
          BY <2>1
    <3>2. k * i + 0 < k * Fan + 0
      <4>1. i < Fan /\ i \in Nat /\ 0 \in 0 .. k - 1
            BY <2>1
      <4> QED
          BY <2>1, <4>1, Distinct
    <3> QED
        BY <2>1, <3>1, <3>2
  <2>5. g * q + x \in Page
        BY <1>2, <1>3, <2>4, InSpace
  <2> QED
      BY <2>2, <2>3, <2>5
<1> HIDE DEF k, q
<1>7. new \in [0 .. Fan - 1 -> Descriptor]
  <2>1. ASSUME NEW i \in 0 .. Fan - 1
        PROVE  Desc(LeafType(lvl + 1), Align(d.to, lvl) + i * LevelSize(lvl + 1), d.attr) \in Descriptor
    <3>1. Align(d.to, lvl) + i * LevelSize(lvl + 1) \in Page
          BY <1>6 DEF k
    <3>2. LeafType(lvl + 1) \in {0, BLOCK, TABLE}
          BY DEF LeafType
    <3> QED
        BY <1>2, <3>1, <3>2 DEF Desc, Descriptor
  <2> QED
      BY <2>1
<1>8. ptr \in Descriptor
  <2>1. cursor \in 0 .. Pool - 1
        BY <1>4
  <2> QED
      BY <2>1 DEF Desc, Descriptor
<1>9. ASSUME NEW i \in 0 .. Fan - 1
      PROVE  /\ new[i].type = LeafType(lvl + 1) /\ new[i].attr = d.attr
             /\ new[i].to = LevelSize(lvl + 1) * (Fan * Number(start, lvl) + i)
      BY <1>6 DEF Desc, k, q
<1>10. ptr.type = TABLE /\ ptr.to = cursor
       BY DEF Desc
<1> HIDE DEF new, ptr
<1> DEFINE mid == [tables EXCEPT ![cursor] = new]
           row == [tables[leaf[1]] EXCEPT ![leaf[2]] = ptr]
<1>11. /\ mid \in [0 .. Pool - 1 -> [0 .. Fan - 1 -> Descriptor]]
       /\ mid[cursor] = new /\ \A t \in 0 .. Pool - 1 \ {cursor} : mid[t] = tables[t]
       /\ mid[leaf[1]] = tables[leaf[1]]
       BY <1>4, <1>5, <1>7
<1>12. tables' = [mid EXCEPT ![leaf[1]] = row]
       BY <1>1, <1>4, <1>5, <1>11
<1>13. /\ row \in [0 .. Fan - 1 -> Descriptor] /\ row[leaf[2]] = ptr
       /\ \A i \in 0 .. Fan - 1 : i # leaf[2] => row[i] = tables[leaf[1]][i]
  <2>1. tables[leaf[1]] \in [0 .. Fan - 1 -> Descriptor]
        BY <1>4, <1>5
  <2> QED
      BY <1>2, <1>8, <2>1
<1> HIDE DEF mid, row
<1>14. /\ tables' \in [0 .. Pool - 1 -> [0 .. Fan - 1 -> Descriptor]]
       /\ tables'[leaf[1]] = row
       /\ \A t \in 0 .. Pool - 1 : t # leaf[1] => tables'[t] = mid[t]
       BY <1>4, <1>11, <1>12, <1>13
<1>15. tables'[cursor] = new
  <2>1. cursor \in 0 .. Pool - 1 /\ cursor # leaf[1]
        BY <1>4
  <2> QED
      BY <1>11, <1>14, <2>1
<1>16. ASSUME NEW t \in 0 .. Pool - 1 \ {cursor}, NEW i \in 0 .. Fan - 1,
              t # leaf[1] \/ i # leaf[2]
       PROVE  tables'[t][i] = tables[t][i]
  <2>1. CASE t = leaf[1]
        BY <1>13, <1>14, <1>16, <2>1
  <2>2. CASE t # leaf[1]
        BY <1>11, <1>14, <2>2
  <2> QED
      BY <2>1, <2>2
<1>17. ASSUME NEW i \in 0 .. Fan - 1
       PROVE  /\ tables'[cursor][i].type = LeafType(lvl + 1)
              /\ tables'[cursor][i].to = LevelSize(lvl + 1) * (Fan * Number(start, lvl) + i)
              /\ tables'[cursor][i].attr = At(leaf).attr
       BY <1>9, <1>15
<1>18. tables'[leaf[1]][leaf[2]] = ptr
       BY <1>13, <1>14
<1> QED
    BY <1>1, <1>3, <1>10, <1>14, <1>16, <1>17, <1>18

(* A table c of level l + 1 takes the place of a leaf of table t0; it      *)
(* covers block n of level l.                                              *)
Grows(T, U, c, lev, num, t0, i0, l, n, attr) ==
  /\ Tree(T, c, lev, num) /\ c \in Nat /\ c < Pool
  /\ lev \in [0 .. Pool - 1 -> 0 .. 3] /\ num \in [0 .. Pool - 1 -> Nat]
  /\ t0 \in 1 .. c - 1 /\ i0 \in 0 .. Fan - 1 /\ l \in 1 .. 2 /\ lev[t0] = l
  /\ n \in Nat /\ n = Fan * num[t0] + i0 /\ attr \in Attributes \union {Normal}
  /\ U[t0][i0].type = TABLE /\ U[t0][i0].to = c
  /\ \A i \in 0 .. Fan - 1 : /\ U[c][i].type = LeafType(l + 1)
                             /\ U[c][i].to = LevelSize(l + 1) * (Fan * n + i)
                             /\ U[c][i].attr = attr
  /\ \A t \in 0 .. c - 1, i \in 0 .. Fan - 1 : t # t0 \/ i # i0 => U[t][i] = T[t][i]

Growth(U, c, lev, num, l, n, lev2, num2) ==
  /\ lev2 \in [0 .. Pool - 1 -> 0 .. 3] /\ num2 \in [0 .. Pool - 1 -> Nat]
  /\ lev2[c] = l + 1 /\ num2[c] = n
  /\ \A t \in 1 .. c - 1 : lev2[t] = lev[t] /\ num2[t] = num[t]
  /\ Tree(U, c + 1, lev2, num2)

LEMMA Grown ==
  ASSUME NEW T, NEW U, NEW c, NEW lev, NEW num, NEW t0, NEW i0, NEW l, NEW n, NEW attr,
         Grows(T, U, c, lev, num, t0, i0, l, n, attr)
  PROVE  \E lev2, num2 : Growth(U, c, lev, num, l, n, lev2, num2)
<1>0. /\ Tree(T, c, lev, num) /\ c \in Nat /\ c < Pool
      /\ lev \in [0 .. Pool - 1 -> 0 .. 3] /\ num \in [0 .. Pool - 1 -> Nat]
      /\ t0 \in 1 .. c - 1 /\ i0 \in 0 .. Fan - 1 /\ l \in 1 .. 2 /\ lev[t0] = l
      /\ n \in Nat /\ n = Fan * num[t0] + i0 /\ attr \in Attributes \union {Normal}
      BY DEF Grows
<1> USE <1>0
<1> DEFINE lev2 == [lev EXCEPT ![c] = l + 1]
           num2 == [num EXCEPT ![c] = n]
<1>1. /\ FirstFree \in Nat \ {0} /\ FirstFree = Fan + 1 /\ Pool \in Nat /\ Fan \in Nat \ {0}
      /\ c \in FirstFree .. Pool
      BY Sizes DEF Tree, FirstFree
<1>2. c \in 0 .. Pool - 1 /\ 1 .. c - 1 \subseteq 0 .. Pool - 1 /\ l + 1 \in 0 .. 3
      BY ONLY <1>0, <1>1
<1>3. /\ lev2 \in [0 .. Pool - 1 -> 0 .. 3] /\ num2 \in [0 .. Pool - 1 -> Nat]
      /\ lev2[c] = l + 1 /\ num2[c] = n
      BY <1>2
<1>4. ASSUME NEW t \in 1 .. c - 1
      PROVE  lev2[t] = lev[t] /\ num2[t] = num[t] /\ t # c
      BY <1>2
<1> HIDE DEF lev2, num2
<1>5. ASSUME NEW i \in 0 .. Fan - 1
      PROVE  EntryIs(U, c + 1, lev2, num2, c, i)
  <2>1. ~IsTable(U[c][i], l + 1)
        BY DEF Grows, IsTable, LeafType, BLOCK, TABLE
  <2> QED
      BY <1>3, <2>1 DEF EntryIs, Grows
<1>6. EntryIs(U, c + 1, lev2, num2, t0, i0)
  <2>1. IsTable(U[t0][i0], lev2[t0])
        BY <1>4 DEF Grows, IsTable
  <2>2. c \in FirstFree .. c + 1 - 1
        BY <1>1
  <2> QED
      BY <1>3, <1>4, <2>1, <2>2 DEF EntryIs, Grows
<1>7. ASSUME NEW t \in 1 .. c - 1, NEW i \in 0 .. Fan - 1, t # t0 \/ i # i0
      PROVE  EntryIs(U, c + 1, lev2, num2, t, i)
  <2> DEFINE e == T[t][i]
  <2>1. U[t][i] = e
    <3>1. t \in 0 .. c - 1
          OBVIOUS
    <3> QED
        BY <1>7, <3>1 DEF Grows
  <2>2. EntryIs(T, c, lev, num, t, i)
        BY DEF Tree
  <2> HIDE DEF e
  <2>3. CASE IsTable(e, lev[t])
    <3>1. e.to \in FirstFree .. c - 1 /\ lev[e.to] = lev[t] + 1 /\ num[e.to] = Fan * num[t] + i
          BY <2>2, <2>3 DEF EntryIs, e
    <3>2. e.to \in 1 .. c - 1 /\ e.to \in FirstFree .. c + 1 - 1
      <4> DEFINE u == e.to
      <4>1. u \in FirstFree .. c - 1
            BY <3>1
      <4> HIDE DEF u
      <4>2. u \in 1 .. c - 1 /\ u \in FirstFree .. c + 1 - 1
            BY ONLY <1>1, <4>1
      <4> QED
          BY <4>2 DEF u
    <3> QED
        BY <1>4, <2>1, <2>3, <3>1, <3>2 DEF EntryIs
  <2>4. CASE ~IsTable(e, lev[t])
    <3>1. /\ e.type = LeafType(lev[t]) /\ e.to = LevelSize(lev[t]) * (Fan * num[t] + i)
          /\ e.attr \in Attributes \union {Normal}
          BY <2>2, <2>4 DEF EntryIs, e
    <3> QED
        BY <1>4, <2>1, <2>4, <3>1 DEF EntryIs
  <2> QED
      BY <2>3, <2>4
<1>8. Tree(U, c + 1, lev2, num2)
  <2>1. c + 1 \in FirstFree .. Pool
        BY <1>1
  <2>2. ASSUME NEW i \in 0 .. Fan - 1
        PROVE  U[0][i].to = i + 1
    <3>1. 0 \in 0 .. c - 1 /\ 0 # t0
          OBVIOUS
    <3> QED
        BY <3>1 DEF Tree, Grows
  <2>3. ASSUME NEW t \in 1 .. Fan
        PROVE  lev2[t] = 1 /\ num2[t] = t - 1
    <3>1. t \in 1 .. c - 1
          BY ONLY <1>1, <2>3
    <3> QED
        BY <1>4, <3>1 DEF Tree
  <2>4. ASSUME NEW t \in 1 .. c + 1 - 1
        PROVE  /\ lev2[t] \in 1 .. 3 /\ num2[t] \in Nat
               /\ \A i \in 0 .. Fan - 1 : EntryIs(U, c + 1, lev2, num2, t, i)
    <3>1. CASE t = c
          BY <1>3, <1>5, <3>1
    <3>2. CASE t # c
      <4>1. t \in 1 .. c - 1
            BY ONLY <1>0, <3>2, t \in 1 .. c + 1 - 1
      <4>2. lev2[t] \in 1 .. 3 /\ num2[t] \in Nat
            BY <1>4, <4>1 DEF Tree
      <4> QED
          BY <1>6, <1>7, <4>1, <4>2
    <3> QED
        BY <3>1, <3>2
  <2> QED
      BY <2>1, <2>2, <2>3, <2>4 DEF Tree
<1> QED
    BY <1>3, <1>4, <1>8 DEF Growth

LEMMA SplitStep ==
  ASSUME IInv, Split
  PROVE  /\ IInv' /\ attributes' = attributes /\ Left' = Left
         /\ \A p \in Page : LeafOf(tables', p).attr = LeafOf(tables, p).attr
<1> DEFINE t0 == leaf[1]
           i0 == leaf[2]
           d == At(leaf)
<1>1. /\ pc = "split" /\ lvl \in 1 .. 2 /\ lvl < level /\ cursor < Pool
      /\ cursor' = cursor + 1 /\ lvl' = lvl + 1
      /\ leaf' = <<cursor, LevelOffset(start, lvl + 1)>>
      /\ UNCHANGED <<pc, start, size, attributes, level, asked, calls>>
      /\ tables' \in [0 .. Pool - 1 -> [0 .. Fan - 1 -> Descriptor]]
      BY NewTable
<1>2. \A i \in 0 .. Fan - 1 :
        /\ tables'[cursor][i].type = LeafType(lvl + 1)
        /\ tables'[cursor][i].to = LevelSize(lvl + 1) * (Fan * Number(start, lvl) + i)
        /\ tables'[cursor][i].attr = d.attr
      BY NewTable
<1>3. /\ tables'[t0][i0].type = TABLE /\ tables'[t0][i0].to = cursor
      BY NewTable
<1>4. /\ start \in Page /\ start \in Nat /\ start \in asked /\ level \in 1 .. 3
      /\ t0 = TableOf(tables, start) /\ i0 = IndexOf(tables, start)
      /\ lvl = LevelOf(tables, start)
      /\ t0 \in 1 .. cursor - 1 /\ i0 \in 0 .. Fan - 1
      /\ d = tables[t0][i0] /\ ~IsTable(d, lvl) /\ d.attr \in Attributes \union {Normal}
      BY <1>1, Cutting DEF At
<1>5. cursor \in Nat /\ Pool \in Nat /\ cursor \in 0 .. Pool - 1 /\ cursor + 1 \in 1 .. Pool
  <2>1. Pool \in Nat /\ cursor \in 1 .. Pool
        BY Sizes DEF IInv, TypeOK
  <2> QED
      BY ONLY <1>1, <2>1
<1>6. \A t \in 0 .. cursor - 1, i \in 0 .. Fan - 1 :
        t # t0 \/ i # i0 => tables'[t][i] = tables[t][i]
  <2>1. \A t \in 0 .. Pool - 1 \ {cursor}, i \in 0 .. Fan - 1 :
          t # t0 \/ i # i0 => tables'[t][i] = tables[t][i]
        BY NewTable
  <2>2. 0 .. cursor - 1 \subseteq 0 .. Pool - 1 \ {cursor}
        BY ONLY <1>5
  <2> QED
      BY ONLY <2>1, <2>2
<1> HIDE DEF t0, i0, d
<1>7. PICK lev \in [0 .. Pool - 1 -> 0 .. 3], num \in [0 .. Pool - 1 -> Nat] :
        Tree(tables, cursor, lev, num) /\ Touched(lev, num)
      BY <1>1 DEF IInv, TreeInv
<1>8. /\ lev[t0] = lvl /\ Number(start, lvl) \in Nat
      /\ Number(start, lvl) = Fan * num[t0] + i0
  <2>1. OnPath(cursor, lev, num, t0, start, lvl) /\ i0 = LevelOffset(start, lvl)
        BY <1>4, <1>7, WalkEnds DEF IndexOf
  <2>2. lvl - 1 \in 0 .. 2 /\ (lvl - 1) + 1 = lvl /\ lvl \in 0 .. 3
        BY <1>1
  <2>3. Number(start, lvl) = Fan * Number(start, lvl - 1) + LevelOffset(start, lvl)
        BY <1>4, <2>2, Digits
  <2> QED
      BY <1>4, <2>1, <2>2, <2>3, Numbers DEF OnPath
<1>8a. PICK lev2, num2 :
         Growth(tables', cursor, lev, num, lvl, Number(start, lvl), lev2, num2)
  <2>1. Grows(tables, tables', cursor, lev, num, t0, i0, lvl, Number(start, lvl), d.attr)
        BY <1>1, <1>2, <1>3, <1>4, <1>5, <1>6, <1>7, <1>8 DEF Grows
  <2> QED
      BY ONLY <2>1, Grown
<1>9. /\ lev2 \in [0 .. Pool - 1 -> 0 .. 3] /\ num2 \in [0 .. Pool - 1 -> Nat]
      /\ lev2[cursor] = lvl + 1 /\ num2[cursor] = Number(start, lvl)
      /\ \A t \in 1 .. cursor - 1 : lev2[t] = lev[t] /\ num2[t] = num[t]
      /\ Tree(tables', cursor + 1, lev2, num2)
      BY <1>8a DEF Growth
<1>10. Left' = Left
       BY <1>1 DEF Left
<1>11. Touched(lev2, num2)'
  <2> SUFFICES ASSUME NEW t \in FirstFree .. cursor' - 1
               PROVE  \E p \in asked' :
                        /\ Number(p, lev2[t] - 1) = num2[t]
                        /\ \/ p \notin Left'
                           \/ pc' \in {"split", "gave_up"} /\ p = start' /\ lev2[t] <= level'
      BY DEF Touched
  <2>a. cursor' = cursor + 1
        BY <1>1
  <2>0. t \in FirstFree .. cursor + 1 - 1
        BY <1>5, <2>a, Sizes
  <2>1. CASE t = cursor
    <3>0. lev2[t] = lvl + 1 /\ num2[t] = Number(start, lvl)
          BY <1>9, <2>1
    <3>1. lev2[t] - 1 = lvl /\ lev2[t] <= level /\ num2[t] = Number(start, lvl)
      <4>1. lvl \in 1 .. 2 /\ lvl < level /\ level \in 1 .. 3
            BY <1>1, <1>4
      <4> QED
          BY ONLY <3>0, <4>1
    <3> QED
        BY <1>1, <1>4, <3>1
  <2>2. CASE t # cursor
    <3>1. t \in FirstFree .. cursor - 1 /\ t \in 1 .. cursor - 1
          BY <1>5, <2>0, <2>2, Sizes DEF FirstFree
    <3>2. lev2[t] = lev[t] /\ num2[t] = num[t]
          BY <1>9, <3>1
    <3> QED
        BY <1>1, <1>7, <1>10, <3>1, <3>2 DEF Touched
  <2> QED
      BY <2>1, <2>2
<1>12. TreeInv'
       BY <1>1, <1>9, <1>11 DEF TreeInv
<1>13. Replaced(tables, tables', cursor, lev, num, t0, i0)
       BY <1>4, <1>6, <1>7, <1>8 DEF Replaced, OtherEntry
<1>14. CutAt(tables', lev, t0, i0)
  <2>1. IsTable(tables'[t0][i0], lev[t0])
        BY <1>1, <1>3, <1>8 DEF IsTable
  <2>2. Leaves(tables', cursor, lvl + 1)
        BY <1>2 DEF Leaves, IsTable, LeafType, BLOCK, TABLE
  <2> QED
      BY <1>3, <1>8, <2>1, <2>2 DEF CutAt
<1>15. EntryAt(tables', t0, i0).to = cursor
       BY <1>3 DEF EntryAt
<1>16. BlockInv'
  <2>1. EndsAt(tables, start, t0, i0)
        BY <1>4 DEF EndsAt
  <2>2. LevelOf(tables', start) = LevelOf(tables, start) + 1 /\ TableOf(tables', start) = cursor
        BY ONLY <1>4, <1>13, <1>14, <1>15, <2>1, Deeper
  <2>3. IndexOf(tables', start) = LevelOffset(start, lvl + 1)
        BY <1>4, <2>2 DEF IndexOf
  <2>4. lvl + 1 <= level
        BY <1>1, <1>4
  <2> QED
      BY <1>1, <1>4, <2>2, <2>3, <2>4 DEF IInv, BlockInv
<1>17. TypeOK'
  <2>1. LevelOffset(start, lvl + 1) \in 0 .. Fan - 1 /\ lvl + 1 \in 0 .. 3
    <3>1. lvl + 1 \in 0 .. 3
          BY <1>1
    <3> QED
        BY <1>4, <3>1, Numbers
  <2> QED
      BY <1>1, <1>5, <2>1 DEF IInv, TypeOK
<1>18. ASSUME NEW p \in Page
       PROVE  LeafOf(tables', p).attr = LeafOf(tables, p).attr
  <2>0. p \in Page /\ p \in Nat
        BY PageIsNat
  <2>1. CASE EndsAt(tables, p, t0, i0)
    <3>1. /\ LevelOf(tables, p) \in 1 .. 2
          /\ LeafOf(tables', p) = EntryAt(tables', cursor, LevelOffset(p, LevelOf(tables, p) + 1))
          BY ONLY <1>13, <1>14, <1>15, <2>0, <2>1, Deeper
    <3>2. LevelOffset(p, LevelOf(tables, p) + 1) \in 0 .. Fan - 1
      <4>1. LevelOf(tables, p) + 1 \in 0 .. 3
            BY <3>1
      <4> QED
          BY <2>0, <4>1, Numbers
    <3>3. LeafOf(tables', p).attr = d.attr
          BY <1>2, <3>1, <3>2 DEF EntryAt
    <3>4. LeafOf(tables, p) = d
          BY <1>4, <2>1 DEF EndsAt, LeafOf
    <3> QED
        BY <3>3, <3>4
  <2>2. CASE ~EndsAt(tables, p, t0, i0)
    <3>1. TableOf(tables, p) # t0 \/ IndexOf(tables, p) # i0
          BY <2>2 DEF EndsAt
    <3>2. LeafOf(tables', p) = LeafOf(tables, p)
          BY ONLY <1>13, <2>0, <3>1, Elsewhere
    <3> QED
        BY <3>2
  <2> QED
      BY <2>1, <2>2
<1> QED
    BY <1>1, <1>10, <1>12, <1>16, <1>17, <1>18 DEF IInv, AskInv, BootInv

(* Every step keeps the invariant. *)
LEMMA StepInv == IInv /\ [Next]_vars => IInv'
<1> SUFFICES ASSUME IInv, [Next]_vars
             PROVE  IInv'
    OBVIOUS
<1>1. CASE InitTables
      BY <1>1, InitTablesStep
<1>2. ASSUME NEW r \in Ranges, NEW a \in Attributes, AddPages(r, a)
      PROVE  IInv'
      BY <1>2, AddPagesStep
<1>3. CASE FindLeaf
      BY <1>3, FindLeafStep
<1>4. CASE Split
      BY <1>4, SplitStep
<1>5. CASE GiveUp \/ AddPagesDone
      BY <1>5, StopStep
<1>6. CASE WriteLeaf
      BY <1>6, WriteLeafStep
<1>7. CASE UNCHANGED vars
  <2>1. /\ UNCHANGED <<tables, cursor, pc, start, size, attributes, level, lvl, leaf, asked, calls>>
        /\ Left' = Left
        BY <1>7 DEF vars, callVars, leafVars, askVars, Left
  <2>2. TypeOK' /\ BootInv' /\ AskInv' /\ BlockInv'
        BY <2>1 DEF IInv, TypeOK, BootInv, AskInv, BlockInv
  <2>3. TreeInv'
    <3>1. CASE pc = "boot"
          BY <2>1, <3>1 DEF TreeInv
    <3>2. CASE pc # "boot"
      <4>1. PICK lev \in [0 .. Pool - 1 -> 0 .. 3], num \in [0 .. Pool - 1 -> Nat] :
              Tree(tables, cursor, lev, num) /\ Touched(lev, num)
            BY <3>2 DEF IInv, TreeInv
      <4>2. Tree(tables', cursor', lev, num) /\ Touched(lev, num)'
            BY <2>1, <4>1 DEF Touched
      <4> QED
          BY <4>2 DEF TreeInv
    <3> QED
        BY <3>1, <3>2
  <2> QED
      BY <2>2, <2>3 DEF IInv
<1> QED
    BY <1>1, <1>2, <1>3, <1>4, <1>5, <1>6, <1>7 DEF Next

(* The tables in use are always a tree, each of whose leaves maps its      *)
(* block to itself; it is cut where a call was made, and no further than   *)
(* the blocks still to write.                                              *)
THEOREM Invariant == Spec => []IInv
  BY InitInv, StepInv, PTL DEF Spec

(* The tables and the variables of add_pages are always of their types: no *)
(* table index leaves mmuspace, no level is out of 0 .. 3.                 *)
THEOREM TypeCorrect == Spec => []TypeOK
<1>1. IInv => TypeOK
      BY DEF IInv
<1> QED
    BY <1>1, Invariant, PTL

-----------------------------------------------------------------------------
(* The refinement of AddressMap: what the MMU makes of a page is the       *)
(* attributes of the leaf its walk ends at.                                *)
MapInv == pc # "boot" => \A p \in Page : MapOf(p) = LeafOf(tables, p).attr

LEMMA MapIs == IInv => MapInv
<1> SUFFICES ASSUME IInv, pc # "boot", NEW p \in Page
             PROVE  MapOf(p) = LeafOf(tables, p).attr
    BY DEF MapInv
<1> DEFINE l == LevelOf(tables, p)
           d == LeafOf(tables, p)
<1>1. l \in 1 .. 3 /\ d.type = LeafType(l) /\ d.to = LevelSize(l) * Number(p, l)
  <2>1. PICK lev \in [0 .. Pool - 1 -> 0 .. 3], num \in [0 .. Pool - 1 -> Nat] :
          Tree(tables, cursor, lev, num)
        BY DEF IInv, TreeInv
  <2> QED
      BY <2>1, WalkEnds
<1>2. LeafFor(p).level = l /\ At(LeafFor(p).place) = d
      BY LeafForIs
<1> HIDE DEF l, d
<1>3. d.to + (p % LevelSize(l)) = p
  <2>1. l \in 0 .. 3 /\ p \in Nat
        BY <1>1, PageIsNat
  <2> QED
      BY <1>1, <2>1, Numbers
<1>4. Translation(p).to = p /\ Translation(p).valid /\ Translation(p).attr = d.attr
      BY <1>1, <1>2, <1>3 DEF Translation
<1> QED
    BY <1>4 DEF MapOf, d

LEMMA MapIsNext == IInv' => MapInv'
  BY MapIs, PTL

(* add_pages implements AddressMap: AddPages is Ask, WriteLeaf is Set, and *)
(* every other step, the splits above all, leaves the map as it is.        *)
THEOREM Implementation == Spec => ImplementsAddressMap
<1>1. Init => Abstract!Init
      BY DEF Init, Abstract!Init, MapOf, Left
<1>2. ASSUME IInv, IInv', [Next]_vars
      PROVE  [Abstract!Next]_(Abstract!vars)
  <2>1. MapInv /\ MapInv'
        BY <1>2, MapIs, MapIsNext
  <2>2. ASSUME pc # "boot", pc' # "boot",
               \A p \in Page : LeafOf(tables', p).attr = LeafOf(tables, p).attr,
               attributes' = attributes, Left' = Left
        PROVE  UNCHANGED Abstract!vars
        BY <2>1, <2>2 DEF MapInv, Abstract!vars
  <2>3. CASE InitTables
    <3>1. /\ pc = "boot" /\ pc' = "idle" /\ attributes' = attributes
          /\ \A p \in Page : LeafOf(tables', p).attr = Normal
          BY <1>2, <2>3, Filled DEF InitTables, callVars
    <3>2. \A p \in Page : MapOf(p)' = MapOf(p)
          BY <2>1, <3>1 DEF MapInv, MapOf
    <3>3. Left' = Left
          BY <3>1 DEF Left
    <3> QED
        BY <3>1, <3>2, <3>3 DEF Abstract!vars
  <2>4. ASSUME NEW r \in Ranges, NEW a \in Attributes, AddPages(r, a)
        PROVE  Abstract!Next
    <3>1. /\ Left = {} /\ Left' = PagesOf(r) /\ attributes' = a
          /\ UNCHANGED tables /\ pc # "boot" /\ pc' # "boot"
          BY <1>2, <2>4, AddPagesStep DEF AddPages
    <3>2. \A p \in Page : MapOf(p)' = MapOf(p)
          BY <2>1, <3>1 DEF MapInv
    <3>3. Abstract!Ask(PagesOf(r), a)
          BY <3>1, <3>2 DEF Abstract!Ask
    <3> QED
        BY <3>3 DEF Abstract!Next
  <2>5. CASE FindLeaf
        BY <1>2, <2>2, <2>5, FindLeafStep DEF FindLeaf
  <2>6. CASE Split
        BY <1>2, <2>2, <2>6, SplitStep, NewTable
  <2>7. CASE GiveUp \/ AddPagesDone
        BY <1>2, <2>2, <2>7, StopStep DEF GiveUp, AddPagesDone
  <2>8. CASE WriteLeaf
    <3>1. /\ Left' \subseteq Left /\ Left' # Left /\ attributes' = attributes
          /\ \A p \in Page : LeafOf(tables', p).attr =
               IF p \in Left \ Left' THEN attributes ELSE LeafOf(tables, p).attr
          BY <1>2, <2>8, WriteLeafStep
    <3>2. pc # "boot" /\ pc' # "boot"
          BY <2>8 DEF WriteLeaf
    <3>3. \A p \in Page : MapOf(p)' = IF p \in Left \ Left' THEN attributes ELSE MapOf(p)
          BY <2>1, <3>1, <3>2 DEF MapInv
    <3>4. Abstract!Set
          BY <3>1, <3>3 DEF Abstract!Set
    <3> QED
        BY <3>4 DEF Abstract!Next
  <2>9. CASE UNCHANGED vars
    <3>1. UNCHANGED <<tables, pc, attributes, Left>>
          BY <2>9 DEF vars, callVars, Left
    <3>2. CASE pc = "boot"
      <4>1. \A p \in Page : MapOf(p)' = MapOf(p)
            BY <3>1, <3>2 DEF MapOf
      <4> QED
          BY <3>1, <4>1 DEF Abstract!vars
    <3>3. CASE pc # "boot"
          BY <2>2, <3>1, <3>3
    <3> QED
        BY <3>2, <3>3
  <2> QED
      BY <1>2, <2>3, <2>4, <2>5, <2>6, <2>7, <2>8, <2>9 DEF Next
<1> QED
    BY <1>1, <1>2, Invariant, PTL DEF Spec, ImplementsAddressMap, Abstract!Spec

-----------------------------------------------------------------------------
(* The tables a call takes.                                                *)
LEMMA Multiple ==
  ASSUME NEW k \in 1 .. 3, NEW l \in k .. 3
  PROVE  \E m \in Nat \ {0} : LevelSize(k) = m * LevelSize(l)
<1>1. /\ Fan \in Nat \ {0} /\ \A j \in 1 .. 3 : LevelSize(j) \in Nat \ {0}
      /\ LevelSize(1) = Fan * LevelSize(2) /\ LevelSize(2) = Fan * LevelSize(3)
      /\ LevelSize(3) = 1
      BY Sizes
<1>2. CASE k = l
  <2>1. LevelSize(k) = 1 * LevelSize(l)
        BY <1>1, <1>2
  <2> QED
      BY <2>1
<1>3. CASE (k = 1 /\ l = 2) \/ (k = 2 /\ l = 3)
      BY <1>1, <1>3
<1>4. CASE k = 1 /\ l = 3
  <2>1. LevelSize(1) = (Fan * Fan) * LevelSize(3) /\ Fan * Fan \in Nat \ {0}
        BY <1>1
  <2> QED
      BY <1>4, <2>1
<1>5. k = l \/ (k = 1 /\ l = 2) \/ (k = 2 /\ l = 3) \/ (k = 1 /\ l = 3)
      OBVIOUS
<1> QED
    BY <1>2, <1>3, <1>4, <1>5

(* The end of a block of level l, if it is not on a block of level k, is   *)
(* in the block of level k the start is in.                                *)
LEMMA NextBlock ==
  ASSUME NEW a \in Nat, NEW l \in 1 .. 3, a % LevelSize(l) = 0,
         NEW k \in 1 .. 2, (a + LevelSize(l)) % LevelSize(k) # 0
  PROVE  k < l /\ Number(a + LevelSize(l), k) = Number(a, k)
<1> DEFINE s == LevelSize(l)
           z == LevelSize(k)
           b == a + s
           q == Number(a, l)
<1>1. s \in Nat \ {0} /\ z \in Nat \ {0} /\ q \in Nat /\ a = s * q
  <2>1. l \in 0 .. 3 /\ k \in 0 .. 3
        OBVIOUS
  <2>2. s \in Nat \ {0} /\ z \in Nat \ {0}
        BY <2>1, Sizes
  <2>3. q \in Nat /\ a = s * q + (a % s)
        BY <2>1, Numbers
  <2>4. a % s = 0
        OBVIOUS
  <2> HIDE DEF s, z, q
  <2> QED
      BY <2>2, <2>3, <2>4
<1>2. b % z # 0
      OBVIOUS
<1>3. k < l
  <2> SUFFICES ASSUME l <= k
               PROVE  FALSE
      OBVIOUS
  <2>1. k \in l .. 3 /\ k \in 1 .. 3
        OBVIOUS
  <2>2. PICK m \in Nat \ {0} : s = m * z
        BY <2>1, Multiple
  <2> HIDE DEF s, z, q
  <2>3. b = z * (m * (q + 1)) + 0
        BY <1>1, <2>2
  <2>4. m * (q + 1) \in Nat /\ 0 \in 0 .. z - 1
        BY <1>1, <2>2
  <2> HIDE DEF b
  <2> QED
      BY <1>1, <1>2, <2>3, <2>4, Unique
<1>4. PICK m \in Nat \ {0} : z = m * s
  <2>1. l \in k .. 3 /\ k \in 1 .. 3
        BY <1>3
  <2> QED
      BY <2>1, Multiple
<1>5. Number(b, k) = b \div z /\ Number(a, k) = a \div z
      BY DEF Number
<1> HIDE DEF s, z, q
<1>6. a = s * q + 0 /\ b = s * (q + 1) + 0 /\ a \in Nat /\ b \in Nat
      BY <1>1
<1> HIDE DEF b
<1>7. a \div s = q /\ b \div s = q + 1
  <2>1. q + 1 \in Nat /\ 0 \in 0 .. s - 1
        BY <1>1
  <2> QED
      BY <1>1, <1>6, <2>1, Unique
<1>8. a \div z = q \div m /\ b \div z = (q + 1) \div m
      BY <1>1, <1>4, <1>6, <1>7, Nested
<1> DEFINE Q == (q + 1) \div m
           w == (q + 1) % m
<1>9. Q \in Nat /\ w \in 0 .. m - 1 /\ q + 1 = m * Q + w
  <2>1. q + 1 \in Nat /\ m \in Nat \ {0}
        BY <1>1
  <2> QED
      BY <2>1, Divided
<1> HIDE DEF Q, w
<1>10. w # 0
  <2> SUFFICES ASSUME w = 0
               PROVE  FALSE
      OBVIOUS
  <2>1. q + 1 = m * Q
        BY <1>9
  <2>2. b = z * Q + 0
        BY <1>1, <1>4, <1>6, <1>9, <2>1
  <2>3. 0 \in 0 .. z - 1
        BY <1>1
  <2> QED
      BY <1>1, <1>2, <1>9, <2>2, <2>3, Unique
<1>11. q = m * Q + (w - 1) /\ w - 1 \in 0 .. m - 1
  <2>1. m * Q \in Nat
        BY <1>9
  <2> QED
      BY <1>1, <1>9, <1>10, <2>1
<1>12. q \div m = Q
  <2>1. (m * Q + (w - 1)) \div m = Q
        BY <1>9, <1>11, Unique
  <2> QED
      BY <1>11, <2>1
<1> QED
    BY <1>3, <1>5, <1>8, <1>12 DEF Q, b, s

(* Pages of one block of level k have both been cut below it or neither.   *)
LEMMA BothCut ==
  ASSUME NEW T, NEW a \in Page, NEW b \in Page, NEW k \in 1 .. 2,
         Number(a, k) = Number(b, k), LevelOf(T, a) > k
  PROVE  LevelOf(T, b) > k
<1> DEFINE j == LevelOf(T, b)
<1>1. j \in 1 .. 3
      BY DEF LevelOf
<1> SUFFICES ASSUME j <= k
             PROVE  FALSE
    BY <1>1
<1>2. Number(a, j) = Number(b, j)
  <2>1. j \in 0 .. k /\ k \in 0 .. 3
        BY <1>1
  <2> HIDE DEF j
  <2> QED
      BY <2>1, PageIsNat, SameBlocks
<1>3. LevelOf(T, a) = j
      BY <1>2, SameWalk
<1> QED
    BY <1>1, <1>3

(* The tables the call under way has taken; the end of its range; whether  *)
(* the end lies ahead in a block of level k that will have to be cut; and  *)
(* whether the blocks of levels 1 and 2 the start is inside of are cut.    *)
Taken == cursor - FirstFree - 4 * (calls - 1)
End   == start + size

One(b) == IF b THEN 1 ELSE 0

Ahead(k) == start <= Align(End, k) /\ End % LevelSize(k) # 0
ToCut(k) == Ahead(k) /\ ~(k < lvl /\ start = Align(End, k))
Cut(l)   == \A k \in 1 .. 2 : start % LevelSize(k) # 0 => k < l

(* Before its first block is written a call has cut that block only, two   *)
(* levels at most.  Then it cuts no block but the one of level 1 and the   *)
(* one of level 2 its range ends in.                                       *)
SplitsInv ==
  /\ pc \in {"boot", "idle"} => cursor <= FirstFree + 4 * calls
  /\ pc = "loop" =>
       \/ Taken <= 0
       \/ /\ size > 0 => Cut(LevelOf(tables, start))
          /\ Taken <= 4 - One(Ahead(1)) - One(Ahead(2))
  /\ pc = "split" =>
       \/ Taken <= lvl - 1
       \/ Cut(lvl) /\ Taken <= 4 - One(ToCut(1)) - One(ToCut(2))
  /\ pc = "gave_up" => Taken <= 4 /\ Pool < FirstFree + 4 * calls

(* A range that fills no block of level k, from the start of one. *)
LEMMA LastBlock ==
  ASSUME NEW a \in Nat, NEW n \in Nat \ {0}, NEW k \in 1 .. 2,
         a % LevelSize(k) = 0, LevelSize(k) > n
  PROVE  Align(a + n, k) = a /\ (a + n) % LevelSize(k) # 0
<1> DEFINE s == LevelSize(k)
           q == Number(a, k)
<1>1. s \in Nat \ {0} /\ q \in Nat /\ a = s * q + (a % s) /\ a % s = 0 /\ s > n
  <2>1. k \in 0 .. 3
        OBVIOUS
  <2> QED
      BY <2>1, Sizes, Numbers
<1>2. Align(a + n, k) = (a + n) - ((a + n) % s)
      BY DEF Align
<1> HIDE DEF s, q
<1>3. a + n = s * q + n /\ n \in 0 .. s - 1
  <2>1. s * q \in Nat
        BY <1>1
  <2> QED
      BY <1>1, <2>1
<1>4. (a + n) % s = n
      BY <1>1, <1>3, Unique
<1> QED
    BY <1>2, <1>4 DEF s

LEMMA Kinds ==
  IInv => /\ cursor \in Nat /\ calls \in Nat /\ start \in Nat /\ size \in Nat /\ End \in Nat
          /\ lvl \in 0 .. 3 /\ level \in 1 .. 3 /\ FirstFree \in Nat
          /\ Taken \in Int /\ \A k \in 1 .. 2 : Align(End, k) \in Nat
<1> SUFFICES ASSUME IInv
             PROVE  /\ cursor \in Nat /\ calls \in Nat /\ start \in Nat /\ size \in Nat /\ End \in Nat
                    /\ lvl \in 0 .. 3 /\ level \in 1 .. 3 /\ FirstFree \in Nat
                    /\ Taken \in Int /\ \A k \in 1 .. 2 : Align(End, k) \in Nat
    OBVIOUS
<1>1. /\ cursor \in Nat /\ calls \in Nat /\ start \in Nat /\ size \in Nat /\ FirstFree \in Nat
      /\ lvl \in 0 .. 3 /\ level \in 1 .. 3
      BY Sizes, MmuAssumption DEF IInv, TypeOK
<1>2. End \in Nat
      BY <1>1 DEF End
<1>3. ASSUME NEW k \in 1 .. 2
      PROVE  Align(End, k) \in Nat
  <2> DEFINE s == LevelSize(k)
             q == Number(End, k)
  <2>1. k \in 0 .. 3
        OBVIOUS
  <2>2. Align(End, k) = s * q /\ s \in Nat /\ q \in Nat
        BY <1>2, <2>1, Sizes, Numbers
  <2> HIDE DEF s, q
  <2> QED
      BY <2>2
<1> QED
    BY <1>1, <1>2, <1>3 DEF Taken

LEMMA SplitsInit == Init => SplitsInv
  BY Sizes DEF Init, SplitsInv, FirstFree

(* The leaf of the start is cut at level k: the range ends in that block.  *)
LEMMA LastCut ==
  ASSUME IInv, pc = "split", lvl < level, Cut(lvl)
  PROVE  /\ lvl \in 1 .. 2 /\ Ahead(lvl) /\ ToCut(lvl)
         /\ start = Align(End, lvl)
<1>1. /\ start \in Nat /\ size \in Nat \ {0} /\ lvl \in 1 .. 2
  <2>1. start \in Nat /\ size \in Nat \ {0} /\ lvl \in 1 .. 3 /\ level \in 1 .. 3
        BY Cutting
  <2> QED
      BY <2>1
<1>2. start % LevelSize(lvl) = 0
      BY <1>1 DEF Cut
<1>3. LevelSize(lvl) > size
  <2>1. lvl \in 1 .. level - 1
        BY <1>1, Kinds
  <2> QED
      BY <1>2, <2>1 DEF IInv, BlockInv
<1>4. Align(End, lvl) = start /\ End % LevelSize(lvl) # 0
      BY <1>1, <1>2, <1>3, LastBlock DEF End
<1> QED
    BY <1>1, <1>4 DEF Ahead, ToCut

LEMMA SplitsFindLeaf == IInv /\ SplitsInv /\ FindLeaf => SplitsInv'
<1> SUFFICES ASSUME IInv, SplitsInv, FindLeaf
             PROVE  SplitsInv'
    OBVIOUS
<1>1. /\ pc = "loop" /\ size > 0 /\ pc' = "split" /\ IInv' /\ BlockInv'
      /\ UNCHANGED <<tables, start, size, cursor, calls>>
      BY FindLeafStep DEF FindLeaf, askVars, IInv
<1>2. lvl' = LevelOf(tables, start)
      BY <1>1 DEF BlockInv
<1>3. lvl' \in 1 .. 3
      BY <1>2 DEF LevelOf
<1>4. Taken' = Taken /\ Taken \in Int
      BY <1>1, Kinds DEF Taken
<1>5. ASSUME NEW k \in 1 .. 2
      PROVE  ToCut(k)' => Ahead(k)
      BY <1>1 DEF ToCut, Ahead, End, Align
<1>6. CASE Taken <= 0
  <2>1. Taken' <= lvl' - 1
    <3>1. \A x \in Int, y \in 1 .. 3 : x <= 0 => x <= y - 1
          OBVIOUS
    <3> QED
        BY ONLY <1>3, <1>4, <1>6, <3>1, Zenon
  <2> QED
      BY <1>1, <2>1 DEF SplitsInv
<1>7. CASE Cut(LevelOf(tables, start)) /\ Taken <= 4 - One(Ahead(1)) - One(Ahead(2))
  <2>1. Cut(lvl')
        BY <1>2, <1>7
  <2>2. Cut(lvl)'
        BY <1>1, <2>1 DEF Cut
  <2>3. Taken <= 4 - One(ToCut(1)') - One(ToCut(2)')
        BY <1>4, <1>5, <1>7 DEF One
  <2> QED
      BY <1>1, <1>4, <2>2, <2>3 DEF SplitsInv, One
<1> QED
    BY <1>1, <1>6, <1>7 DEF SplitsInv

LEMMA SplitsSplit == IInv /\ SplitsInv /\ Split => SplitsInv'
<1> SUFFICES ASSUME IInv, SplitsInv, Split
             PROVE  SplitsInv'
    OBVIOUS
<1>1. /\ pc = "split" /\ pc' = "split" /\ lvl < level /\ lvl' = lvl + 1 /\ cursor' = cursor + 1
      /\ UNCHANGED <<start, size, calls>>
      BY NewTable
<1>2. /\ Taken' = Taken + 1 /\ Taken \in Int /\ lvl \in 0 .. 3
      BY <1>1, Kinds DEF Taken
<1>3. CASE Taken <= lvl - 1
  <2>1. Taken' <= lvl' - 1
        BY <1>1, <1>2, <1>3
  <2> QED
      BY <1>1, <2>1 DEF SplitsInv
<1>4. CASE Cut(lvl) /\ Taken <= 4 - One(ToCut(1)) - One(ToCut(2))
  <2>1. lvl \in 1 .. 2 /\ ToCut(lvl) /\ start = Align(End, lvl)
        BY <1>1, <1>4, LastCut
  <2>2. PICK j \in 1 .. 2 : j = lvl
        BY <2>1
  <2>6. ToCut(j) /\ ~ToCut(j)'
    <3>1. j < lvl' /\ start' = start /\ start = Align(End, j) /\ End' = End
          BY <1>1, <1>2, <2>1, <2>2 DEF End
    <3>2. start' = Align(End', j)
          BY <3>1
    <3> QED
        BY <2>1, <2>2, <3>1, <3>2 DEF ToCut
  <2>3. ASSUME NEW k \in 1 .. 2
        PROVE  ToCut(k)' => ToCut(k)
        BY <1>1, <1>2 DEF ToCut, Ahead, End, Align
  <2>4. Cut(lvl)'
        BY <1>1, <1>2, <1>4 DEF Cut
  <2>5. Taken' <= 4 - One(ToCut(1)') - One(ToCut(2)')
    <3>1. j = 1 \/ j = 2
          OBVIOUS
    <3>2. 1 \in 1 .. 2 /\ 2 \in 1 .. 2
          OBVIOUS
    <3> QED
        BY <1>2, <1>4, <2>3, <2>6, <3>1, <3>2 DEF One
  <2> QED
      BY <1>1, <2>4, <2>5 DEF SplitsInv, One
<1> QED
    BY <1>1, <1>3, <1>4 DEF SplitsInv

LEMMA SplitsWriteLeaf == IInv /\ SplitsInv /\ WriteLeaf => SplitsInv'
<1> SUFFICES ASSUME IInv, SplitsInv, WriteLeaf
             PROVE  SplitsInv'
    OBVIOUS
<1> DEFINE s == LevelSize(level)
           b == start + s
<1>1. /\ pc = "split" /\ pc' = "loop" /\ lvl >= level
      /\ start' = b /\ size' = size - s
      /\ UNCHANGED <<cursor, calls, lvl>>
      BY DEF WriteLeaf, leafVars, askVars
<1>2. /\ start \in Page /\ start \in Nat /\ level \in 1 .. 3 /\ lvl = level
      /\ lvl = LevelOf(tables, start) /\ size \in Nat
      /\ s \in Nat \ {0} /\ start % s = 0
  <2>1. /\ start \in Page /\ start \in Nat /\ level \in 1 .. 3 /\ lvl \in 1 .. 3 /\ lvl <= level
        /\ lvl = LevelOf(tables, start) /\ size \in Nat
        BY <1>1, Cutting
  <2>2. level \in 0 .. 3 /\ lvl = level
        BY <1>1, <2>1
  <2>3. start % s = 0
        BY <1>1 DEF IInv, BlockInv
  <2> QED
      BY <2>1, <2>2, <2>3, Sizes
<1>3. LevelOf(tables', start) = level /\ IInv' /\ Left' \subseteq Left
      BY <1>2, WriteLeafStep
<1>4. Taken' = Taken /\ Taken \in Int /\ End' = End /\ start < start'
  <2> HIDE DEF s
  <2>1. start + s + (size - s) = start + size /\ start < start + s
        BY <1>2
  <2>2. Taken' = Taken /\ Taken \in Int
        BY <1>1, Kinds DEF Taken
  <2> QED
      BY <1>1, <2>1, <2>2 DEF End
<1>5. ASSUME NEW k \in 1 .. 2
      PROVE  Ahead(k)' => ToCut(k)
  <2> SUFFICES ASSUME Ahead(k)'
               PROVE  ToCut(k)
      OBVIOUS
  <2>1. start' <= Align(End', k) /\ End' % LevelSize(k) # 0
        BY DEF Ahead
  <2>2. b <= Align(End, k) /\ End % LevelSize(k) # 0 /\ start < b /\ b \in Nat
        BY <1>1, <1>2, <1>4, <2>1
  <2>3. Align(End, k) \in Nat /\ start \in Nat
        BY Kinds
  <2> DEFINE x == Align(End, k)
  <2> HIDE DEF x, b
  <2>4. start <= x /\ start # x
        BY <2>2, <2>3 DEF x
  <2> QED
      BY <2>2, <2>4 DEF ToCut, Ahead, x
<1>6. size' > 0 => Cut(LevelOf(tables, start))'
  <2> SUFFICES ASSUME size' > 0, NEW k \in 1 .. 2, b % LevelSize(k) # 0
               PROVE  k < LevelOf(tables', b)
      BY <1>1 DEF Cut
  <2>1. k < level /\ Number(b, k) = Number(start, k)
        BY <1>2, NextBlock
  <2>2. b \in Page
    <3>1. Left' = start' .. start' + size' - 1 /\ start' \in Nat /\ size' \in Nat
          BY <1>1, <1>3 DEF Left, IInv, TypeOK
    <3>2. start' \in Left'
      <4>1. \A x \in Nat, y \in Nat : y > 0 => x \in x .. x + y - 1
            OBVIOUS
      <4> QED
          BY <3>1, <4>1, Zenon
    <3>3. Left' \subseteq asked' /\ asked' \subseteq Page
          BY <1>3 DEF IInv, AskInv, TypeOK
    <3> QED
        BY <1>1, <3>2, <3>3
  <2>3. LevelOf(tables', start) > k
        BY <1>2, <1>3, <2>1
  <2> HIDE DEF b
  <2>4. LevelOf(tables', b) > k
        BY <1>2, <2>1, <2>2, <2>3, BothCut
  <2>5. LevelOf(tables', b) \in Int
        BY DEF LevelOf
  <2> QED
      BY <2>4, <2>5
<1>7. CASE Taken <= lvl - 1
  <2>1. Taken' <= 4 - One(Ahead(1)') - One(Ahead(2)')
        BY <1>2, <1>4, <1>7 DEF One
  <2> QED
      BY <1>1, <1>6, <2>1 DEF SplitsInv, One
<1>8. CASE Taken <= 4 - One(ToCut(1)) - One(ToCut(2))
  <2>1. Taken' <= 4 - One(Ahead(1)') - One(Ahead(2)')
        BY <1>4, <1>5, <1>8 DEF One
  <2> QED
      BY <1>1, <1>6, <2>1 DEF SplitsInv, One
<1> QED
    BY <1>1, <1>7, <1>8 DEF SplitsInv

(* Four tables at most were taken, whatever was being done. *)
LEMMA AtMostFour == IInv /\ SplitsInv => cursor <= FirstFree + 4 * calls
<1> SUFFICES ASSUME IInv, SplitsInv
             PROVE  cursor <= FirstFree + 4 * calls
    OBVIOUS
<1>1. cursor \in Nat /\ calls \in Nat /\ FirstFree \in Nat /\ lvl \in 0 .. 3 /\ Taken \in Int
      BY Kinds
<1>2. pc \in {"boot", "idle", "loop", "split", "gave_up"}
      BY DEF IInv, TypeOK
<1>3. pc \in {"loop", "split", "gave_up"} => Taken <= 4
      BY <1>1 DEF SplitsInv, One
<1>4. Taken <= 4 => cursor <= FirstFree + 4 * calls
      BY <1>1 DEF Taken
<1> QED
    BY <1>2, <1>3, <1>4 DEF SplitsInv

LEMMA SplitsGiveUp == IInv /\ SplitsInv /\ GiveUp => SplitsInv'
<1> SUFFICES ASSUME IInv, SplitsInv, GiveUp
             PROVE  SplitsInv'
    OBVIOUS
<1>1. /\ pc = "split" /\ pc' = "gave_up" /\ lvl < level
      /\ At(leaf).type # BLOCK \/ cursor >= Pool
      /\ UNCHANGED <<cursor, calls>>
      BY DEF GiveUp, callVars, askVars
<1>2. /\ cursor \in Nat /\ calls \in Nat /\ FirstFree \in Nat /\ Taken \in Int /\ Pool \in Nat
      /\ lvl \in 1 .. 2
  <2>1. lvl \in 1 .. 3 /\ level \in 1 .. 3
        BY <1>1, Cutting
  <2> QED
      BY <1>1, <2>1, Kinds, Sizes
<1>3. cursor >= Pool
      BY <1>1, <1>2, Cutting DEF LeafType
<1>4. Taken <= 3
  <2>1. CASE Taken <= lvl - 1
        BY <1>2, <2>1
  <2>2. CASE Cut(lvl) /\ Taken <= 4 - One(ToCut(1)) - One(ToCut(2))
    <3>1. ToCut(lvl)
          BY <1>1, <2>2, LastCut
    <3>2. lvl = 1 \/ lvl = 2
          BY <1>2
    <3> QED
        BY <1>2, <2>2, <3>1, <3>2 DEF One
  <2> QED
      BY <1>1, <2>1, <2>2 DEF SplitsInv
<1>5. Taken' = Taken
      BY <1>1 DEF Taken
<1>6. Pool < FirstFree + 4 * calls
      BY <1>2, <1>3, <1>4 DEF Taken
<1> QED
    BY <1>1, <1>2, <1>4, <1>5, <1>6 DEF SplitsInv

LEMMA SplitsStep == IInv /\ SplitsInv /\ [Next]_vars => SplitsInv'
<1> SUFFICES ASSUME IInv, SplitsInv, [Next]_vars
             PROVE  SplitsInv'
    OBVIOUS
<1>1. CASE InitTables
      BY <1>1, Kinds DEF InitTables, askVars, IInv, BootInv, SplitsInv
<1>2. ASSUME NEW r \in Ranges, NEW a \in Attributes, AddPages(r, a)
      PROVE  SplitsInv'
  <2>1. pc = "idle" /\ pc' = "loop" /\ cursor' = cursor /\ calls' = calls + 1
        BY <1>2 DEF AddPages
  <2>2. cursor <= FirstFree + 4 * calls
        BY <2>1 DEF SplitsInv
  <2>3. Taken' <= 0
        BY <2>1, <2>2, Kinds DEF Taken
  <2> QED
      BY <2>1, <2>3 DEF SplitsInv
<1>3. CASE FindLeaf
      BY <1>3, SplitsFindLeaf
<1>4. CASE Split
      BY <1>4, SplitsSplit
<1>5. CASE GiveUp
      BY <1>5, SplitsGiveUp
<1>6. CASE WriteLeaf
      BY <1>6, SplitsWriteLeaf
<1>7. CASE AddPagesDone
  <2>1. pc' = "idle" /\ UNCHANGED <<cursor, calls>>
        BY <1>7 DEF AddPagesDone, askVars
  <2>2. cursor' <= FirstFree + 4 * calls'
        BY <2>1, AtMostFour
  <2> QED
      BY <2>1, <2>2 DEF SplitsInv
<1>8. CASE UNCHANGED vars
  <2>1. UNCHANGED <<tables, cursor, pc, start, size, lvl, calls>>
        BY <1>8 DEF vars, callVars, leafVars, askVars
  <2>2. /\ Taken' = Taken /\ Cut(lvl)' = Cut(lvl)
        /\ Cut(LevelOf(tables, start))' = Cut(LevelOf(tables, start))
        /\ \A k \in 1 .. 2 : Ahead(k)' = Ahead(k) /\ ToCut(k)' = ToCut(k)
        BY <2>1 DEF Taken, Cut, Ahead, ToCut, End
  <2> QED
      BY <2>1, <2>2 DEF SplitsInv
<1> QED
    BY <1>1, <1>2, <1>3, <1>4, <1>5, <1>6, <1>7, <1>8 DEF Next

(* A call of add_pages takes four tables of mmuspace at most, two at each  *)
(* end of its range, and comes to smc0 only when fewer were left.          *)
THEOREM SplitsAreFew == Spec => []FewTables
<1>1. IInv /\ SplitsInv => FewTables
      BY AtMostFour DEF SplitsInv, FewTables
<1> QED
    BY <1>1, InitInv, StepInv, SplitsInit, SplitsStep, PTL DEF Spec

=============================================================================
