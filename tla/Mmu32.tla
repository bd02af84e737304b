------------------------------- MODULE Mmu32 -------------------------------
(***************************************************************************)
(* The translation tables of the AArch32 builds (aarch32/mmu.c).           *)
(* mmu_init_descriptors maps every address to itself with sections, then   *)
(* add_pages changes the attributes of some ranges of bytes, by sections   *)
(* or by small pages, for which it puts a coarse table in the place of the *)
(* section.  Addresses below Boundary go through TTBR0, whose tables and   *)
(* granule are not those of TTBR1.                                         *)
(*                                                                         *)
(* An address is the number of its page.  A coarse table is written in its *)
(* level 0 descriptor, the only one that ever points to it.  smc0 is taken *)
(* as the end: `called only when giving up'.                               *)
(***************************************************************************)
EXTENDS Integers

CONSTANTS
  PageBytes,        \* the bytes of a small page (4kB)
  SectionPages,     \* the small pages of a section (256)
  Granule,          \* those of the 16kB step of TTBR1 addresses (4)
  Sections,         \* the sections of the address space
  Boundary,         \* the first that goes through TTBR1
  Tables0, Tables1, \* the coarse tables there is room for (31 and 95)
  Ranges,           \* the ranges of bytes add_pages may be called with
  Attributes,       \* the sets of fields it may be called with
  Normal,           \* the fields of the identity sections
  MaxCalls          \* bound on the calls of add_pages

Page == 0 .. Sections * SectionPages - 1

(* descriptor_section: the bit of each field of a section. *)
SectionBit == [B |-> 2, C |-> 3, XN |-> 4, AP0 |-> 10, AP1 |-> 11, TEX0 |-> 12,
               TEX1 |-> 13, TEX2 |-> 14, APX |-> 15, S |-> 16]

Ttbr0(a) == a < Boundary * SectionPages     \* address < min_address_for_ttbr1()

Align(a, n) == a - (a % n)

(* The ranges add_pages gets right, which all of its callers' are: the     *)
(* pages above the boundary are those of whole sections; and none begins   *)
(* in the first 16kB of a section, but not with it, and has the size of a  *)
(* section: alignment_to_level would take it for an aligned one.           *)
Served(r) ==
  LET first == r.start \div PageBytes
      last  == (r.end - 1) \div PageBytes
  IN  /\ Ttbr0(first) \/ first % SectionPages = 0
      /\ Ttbr0(last) \/ (last + 1) % SectionPages = 0
      /\ \/ first % SectionPages = 0 \/ first % SectionPages >= Granule
         \/ last - first + 1 < SectionPages

ASSUME MmuAssumption ==
  /\ {PageBytes, SectionPages, Granule, Sections, Boundary} \subseteq Nat \ {0}
  /\ {Tables0, Tables1, MaxCalls} \subseteq Nat
  /\ SectionPages % Granule = 0 /\ Boundary < Sections
  /\ Attributes \union {Normal} \subseteq SUBSET DOMAIN SectionBit
  /\ \A r \in Ranges :
       /\ {r.start, r.end} \subseteq Nat /\ r.start < r.end
       /\ (r.end - 1) \div PageBytes \in Page /\ Served(r)

VARIABLES
  lvl0,         \* the level 0 descriptors of both tables
  left0, left1, \* the coarse tables left (alloc_descriptors)
  pc,
  start, size, attributes,  \* address_start, size (in pages), attributes
  calls         \* the calls of add_pages so far

vars == <<lvl0, left0, left1, pc, start, size, attributes, calls>>

(* The bits it sets for them. *)
DescriptorSection(fields) == {SectionBit[f] : f \in fields}

(* Fault: the memory type stays where a section has it. *)
ToSmallNotMoved(bits) == (bits \intersect 2 .. 3) \union {b - 6 : b \in bits \intersect 12 .. 16}

(* descriptor_section_to_small: B and C stay, XN, and AP to S move. *)
ToSmall(bits) ==
  (bits \intersect 2 .. 3) \union {b - 4 : b \in bits \intersect {4}}
                         \union {b - 6 : b \in bits \intersect (10 .. 16)}

SectionDesc(to, bits) == [type |-> "section", to |-> to, bits |-> bits]
CoarseDesc(table)     == [type |-> "coarse", table |-> table]
SmallDesc(to, bits)   == [to |-> to, bits |-> bits]

IdentitySection(s) == SectionDesc(s * SectionPages, DescriptorSection(Normal))

Init ==
  /\ lvl0 = [s \in 0 .. Sections - 1 |-> SectionDesc(0, {})]
  /\ left0 = Tables0 /\ left1 = Tables1
  /\ pc = "boot"
  /\ start = 0 /\ size = 0 /\ attributes = Normal
  /\ calls = 0

(* mmu_init_descriptors up to its first call of add_pages. *)
InitDescriptors ==
  /\ pc = "boot" /\ pc' = "idle"
  /\ lvl0' = [s \in DOMAIN lvl0 |-> IdentitySection(s)]
  /\ UNCHANGED <<left0, left1, start, size, attributes, calls>>

LevelSize(ttbr0, l) == IF l = 0 THEN SectionPages ELSE IF ttbr0 THEN 1 ELSE Granule

StartPage(byte) ==
  LET p == byte \div PageBytes IN Align(p, LevelSize(Ttbr0(p), 1))

EndPage(byte, ttbr0) ==
  LET bytes == LevelSize(ttbr0, 1) * PageBytes
  IN  Align(byte + bytes - 1, bytes) \div PageBytes

AddPages(r, a) ==
  /\ pc = "idle" /\ pc' = "loop"
  /\ calls < MaxCalls /\ calls' = calls + 1
  /\ start' = StartPage(r.start)
  /\ size' = EndPage(r.end, Ttbr0(r.start \div PageBytes)) - StartPage(r.start)
  /\ attributes' = a
  /\ UNCHANGED <<lvl0, left0, left1>>

(* Fault: the size left is not looked at. *)
LevelByAlignment(a, n) ==
  IF (IF Ttbr0(a) THEN Align(a, Granule) ELSE a) % SectionPages = 0 THEN 0 ELSE 1

(* alignment_to_level, then the size. *)
LevelFor(a, n) ==
  LET b == IF Ttbr0(a) THEN Align(a, Granule) ELSE a
  IN  IF b % SectionPages = 0 /\ SectionPages <= n THEN 0 ELSE 1

(* An iteration of the loop at level l, and the address it writes for. *)
Iteration(l) == pc = "loop" /\ size > 0 /\ LevelFor(start, size) = l

Address(l) == Align(start, LevelSize(Ttbr0(start), l))

Advance(l) ==
  /\ start' = Address(l) + LevelSize(Ttbr0(start), l)
  /\ size' = size - LevelSize(Ttbr0(start), l)

MapSection ==
  /\ Iteration(0)
  /\ lvl0' = [lvl0 EXCEPT ![Address(0) \div SectionPages] =
                SectionDesc(Address(0), DescriptorSection(attributes))]
  /\ Advance(0)
  /\ UNCHANGED <<left0, left1, pc, attributes, calls>>

(* Fault: the descriptor of the section is not looked at. *)
NeedsTableAlways(s) == TRUE

NeedsTable(s) == lvl0[s].type # "coarse"

CoarseTable(s) ==
  IF lvl0[s].type = "coarse" THEN lvl0[s].table
  ELSE [i \in 0 .. SectionPages - 1 |->
          SmallDesc(s * SectionPages + i, ToSmall(lvl0[s].bits))]

(* alloc_descriptors(ttbr0, 1 << 12), and whether it has the room. *)
NoRoom == IF Ttbr0(start) THEN left0 = 0 ELSE left1 = 0

AllocDescriptors ==
  IF Ttbr0(start) THEN left0' = left0 - 1 /\ UNCHANGED left1
                  ELSE left1' = left1 - 1 /\ UNCHANGED left0

MapPage ==
  LET a == Address(1)
      s == a \div SectionPages
  IN  /\ Iteration(1)
      /\ IF NeedsTable(s) THEN ~NoRoom /\ AllocDescriptors ELSE UNCHANGED <<left0, left1>>
      /\ lvl0' = [lvl0 EXCEPT ![s] = CoarseDesc(
           [CoarseTable(s) EXCEPT ![a % SectionPages] =
              SmallDesc(a, ToSmall(DescriptorSection(attributes)))])]
      /\ Advance(1)
      /\ UNCHANGED <<pc, attributes, calls>>

(* smc0: not enough MMU space. *)
GiveUp ==
  /\ Iteration(1) /\ NeedsTable(Address(1) \div SectionPages) /\ NoRoom
  /\ pc' = "gave_up"
  /\ UNCHANGED <<lvl0, left0, left1, start, size, attributes, calls>>

AddPagesDone ==
  /\ pc = "loop" /\ size = 0 /\ pc' = "idle"
  /\ UNCHANGED <<lvl0, left0, left1, start, size, attributes, calls>>

Next ==
  \/ InitDescriptors
  \/ \E r \in Ranges, a \in Attributes : AddPages(r, a)
  \/ MapSection \/ MapPage \/ GiveUp \/ AddPagesDone

Spec == Init /\ [][Next]_vars

-----------------------------------------------------------------------------
SmallPage == [to : Page, bits : SUBSET (0 .. 10)]

TypeOK ==
  /\ DOMAIN lvl0 = 0 .. Sections - 1
  /\ \A s \in DOMAIN lvl0 :
       \/ lvl0[s].type = "section" /\ lvl0[s].to \in Page /\ lvl0[s].bits \subseteq 2 .. 16
       \/ lvl0[s].type = "coarse" /\ lvl0[s].table \in [0 .. SectionPages - 1 -> SmallPage]
  /\ left0 \in 0 .. Tables0 /\ left1 \in 0 .. Tables1
  /\ pc \in {"boot", "idle", "loop", "gave_up"}
  /\ start \in Nat /\ size \in Nat
  /\ attributes \in Attributes \union {Normal} /\ calls \in 0 .. MaxCalls

(* The fields the MMU finds in a section, and in a small page. *)
ReadSection(bits) == {f \in DOMAIN SectionBit : SectionBit[f] \in bits}

SmallBit == [XN |-> 0, B |-> 2, C |-> 3, AP0 |-> 4, AP1 |-> 5, TEX0 |-> 6,
             TEX1 |-> 7, TEX2 |-> 8, APX |-> 9, S |-> 10]

ReadSmall(bits) == {f \in DOMAIN SmallBit : SmallBit[f] \in bits}

(* How the MMU translates page p. *)
Translation(p) ==
  LET d == lvl0[p \div SectionPages]
      e == d.table[p % SectionPages]
  IN  IF d.type = "section"
      THEN [to |-> d.to + (p % SectionPages), fields |-> ReadSection(d.bits)]
      ELSE [to |-> e.to, fields |-> ReadSmall(e.bits)]

(* The fields page p is mapped to itself with; {} if it is not.  Nothing   *)
(* reads the tables before they are built.                                 *)
MapOf(p) ==
  IF pc = "boot" THEN Normal
  ELSE IF Translation(p).to = p THEN Translation(p).fields ELSE {}

(* The pages the call under way has still to map. *)
Left == IF pc \in {"loop", "gave_up"} THEN start .. start + size - 1 ELSE {}

PagesOf(r) == {p \in Page : p * PageBytes < r.end /\ r.start < (p + 1) * PageBytes}

Abstract == INSTANCE AddressMap
            WITH Requests <- {PagesOf(r) : r \in Ranges},
                 map <- [p \in Page |-> MapOf(p)], todo <- Left

(* The sections and the small pages of add_pages implement AddressMap,     *)
(* overlapping calls included: every page stays mapped to itself, and the  *)
(* fields of the call, moved to where a small page has them, reach the     *)
(* pages that have a byte in its range and no other.                       *)
ImplementsAddressMap == Abstract!Spec

(* A call takes a table at each end of its range at most, and none for     *)
(* TTBR1: smc0 is reached only when there were fewer.                      *)
FewTables ==
  /\ Tables0 - left0 <= 2 * calls /\ left1 = Tables1
  /\ pc = "gave_up" => Tables0 < 2 * calls
=============================================================================
