------------------------------- MODULE Mmu64 -------------------------------
(***************************************************************************)
(* The translation tables of the AArch64 builds (aarch64/mmu.c).           *)
(* mmu_init_descriptors maps every address to itself with blocks of level  *)
(* 1, then add_pages changes the attributes of some ranges of bytes: it    *)
(* cuts a range in the largest blocks it can, splits the block each of     *)
(* them lies in down to its level, and writes the descriptor.              *)
(*                                                                         *)
(* An address is the number of its page.  A table has Fan entries (512 in  *)
(* the hardware) and mmuspace holds Pool tables, of which 0 is that of     *)
(* level 0.  smc0 is taken as the end: `called only when giving up'.       *)
(***************************************************************************)
EXTENDS Integers

CONSTANTS
  Fan,          \* the entries of a table
  Pool,         \* the tables mmuspace has room for
  PageBytes,    \* the bytes of a page
  Ranges,       \* the ranges of bytes add_pages may be called with
  Attributes,   \* the attributes it may be called with
  Normal,       \* those of the identity blocks
  NoAttribute,  \* what a table descriptor has in their place
  MaxCalls      \* bound on the calls of add_pages

Page == 0 .. Fan * Fan * Fan * Fan - 1

FirstFree == Fan + 1    \* the tables of levels 0 and 1

ASSUME MmuAssumption ==
  /\ {Fan, PageBytes} \subseteq Nat \ {0, 1} /\ MaxCalls \in Nat
  /\ Pool \in Nat /\ Pool >= FirstFree
  /\ NoAttribute \notin Attributes \union {Normal}
  /\ \A r \in Ranges :
       {r.start, r.end} \subseteq Nat /\ r.start < r.end /\ (r.end - 1) \div PageBytes \in Page

VARIABLES
  tables,       \* mmuspace
  cursor,       \* the next free table (alloc_descriptors)
  pc,
  start, size, attributes,  \* address_start, size (in pages), attributes
  level, lvl,   \* level_to_allocate, and the level of leaf
  leaf,         \* leaf_descriptor: a table and an index in it
  asked,        \* the pages asked for so far
  calls         \* the calls of add_pages so far

askVars  == <<asked, calls>>
callVars == <<start, size, attributes, level>>
leafVars == <<lvl, leaf>>
vars == <<tables, cursor, pc, callVars, leafVars, askVars>>

BLOCK == 1      \* DESC_TYPE_BLOCK
TABLE == 3      \* DESC_TYPE_TABLE, and DESC_TYPE_PAGE at level 3

Desc(type, to, attr) == [type |-> type, to |-> to, attr |-> attr]
Invalid == Desc(0, 0, NoAttribute)

(* The pages an entry of a table of level l covers. *)
LevelSize(l) == CASE l = 0 -> Fan * Fan * Fan
                  [] l = 1 -> Fan * Fan
                  [] l = 2 -> Fan
                  [] l = 3 -> 1

LevelOffset(a, l) == (a \div LevelSize(l)) % Fan

Align(a, l) == a - (a % LevelSize(l))

(* The type of a descriptor of level l that maps memory. *)
LeafType(l) == IF l = 3 THEN TABLE ELSE BLOCK

IsTable(d, l) == l # 3 /\ d.type = TABLE

Init ==
  /\ tables = [t \in 0 .. Pool - 1 |-> [i \in 0 .. Fan - 1 |-> Invalid]]
  /\ cursor = 1 /\ pc = "boot"
  /\ start = 0 /\ size = 0 /\ attributes = Normal
  /\ level = 1 /\ lvl = 0 /\ leaf = <<0, 0>>
  /\ asked = {} /\ calls = 0

(* fill_with_identity_blocks: the i-th block of level 1. *)
IdentityBlock(i) == Desc(BLOCK, i * LevelSize(1), Normal)

(* The beginning of mmu_init_descriptors: the table of level 0, then       *)
(* fill_with_identity_blocks.                                              *)
InitTables ==
  /\ pc = "boot" /\ pc' = "idle"
  /\ cursor' = FirstFree
  /\ tables' = [t \in DOMAIN tables |-> [i \in 0 .. Fan - 1 |->
       CASE t = 0 -> Desc(TABLE, i + 1, NoAttribute)
         [] t \in 1 .. Fan -> IdentityBlock((t - 1) * Fan + i)
         [] OTHER -> tables[t][i]]]
  /\ UNCHANGED <<callVars, leafVars, askVars>>

(* The first page, and the page after the last. *)
StartPage(byte) == byte \div PageBytes
EndPage(byte)   == (byte + PageBytes - 1) \div PageBytes

(* The pages that have a byte in a range. *)
PagesOf(r) == {p \in Page : p * PageBytes < r.end /\ r.start < (p + 1) * PageBytes}

(* add_pages is called.  The sections and the peripherals                  *)
(* mmu_init_descriptors calls it for have no page in common.               *)
AddPages(r, a) ==
  /\ pc = "idle" /\ pc' = "loop"
  /\ calls < MaxCalls /\ calls' = calls + 1
  /\ start' = StartPage(r.start)
  /\ size' = EndPage(r.end) - StartPage(r.start)
  /\ attributes' = a
  /\ PagesOf(r) \intersect asked = {}
  /\ asked' = asked \union PagesOf(r)
  /\ UNCHANGED <<tables, cursor, level, leafVars>>

(* Faults: the size left is not looked at; pages only. *)
LevelByAlignment(a, n) ==
  CHOOSE l \in 1 .. 3 : /\ a % LevelSize(l) = 0
                        /\ \A k \in 1 .. l - 1 : a % LevelSize(k) # 0

LevelPages(a, n) == 3

(* The largest block that starts at a and has no more than n pages         *)
(* (alignment_to_level, and the loop that adjusts it).                     *)
LevelFor(a, n) ==
  LET Fits(l) == a % LevelSize(l) = 0 /\ LevelSize(l) <= n
  IN  CHOOSE l \in 1 .. 3 : Fits(l) /\ \A k \in 1 .. l - 1 : ~Fits(k)

(* get_leaf_for: the level and the place of the entry that maps address a; *)
(* the entries of level 0 are all tables.                                  *)
Entry(t, a, l) == tables[t][LevelOffset(a, l)]

LeafFor(a) ==
  LET t1 == Entry(0, a, 0).to
      d1 == Entry(t1, a, 1)
      d2 == Entry(d1.to, a, 2)
      Leaf(l, t) == [level |-> l, place |-> <<t, LevelOffset(a, l)>>]
  IN  IF ~IsTable(d1, 1) THEN Leaf(1, t1)
      ELSE IF ~IsTable(d2, 2) THEN Leaf(2, d1.to)
      ELSE Leaf(3, d2.to)

At(d) == tables[d[1]][d[2]]

(* An iteration begins: the level, and get_leaf_for. *)
FindLeaf ==
  /\ pc = "loop" /\ size > 0 /\ pc' = "split"
  /\ LET l == LevelFor(start, size)
         a == Align(start, l)
     IN  /\ level' = l /\ start' = a
         /\ lvl' = LeafFor(a).level /\ leaf' = LeafFor(a).place
  /\ UNCHANGED <<tables, cursor, size, attributes, askVars>>

(* Fault: the new table gets the attributes of the call. *)
SplitWithAttributes ==
  /\ pc = "split" /\ lvl < level
  /\ At(leaf).type = BLOCK /\ cursor < Pool
  /\ tables' = [tables EXCEPT
       ![cursor] = [i \in 0 .. Fan - 1 |->
                      Desc(LeafType(lvl + 1),
                           Align(At(leaf).to, lvl) + i * LevelSize(lvl + 1),
                           attributes)],
       ![leaf[1]][leaf[2]] = Desc(TABLE, cursor, NoAttribute)]
  /\ cursor' = cursor + 1
  /\ lvl' = lvl + 1
  /\ leaf' = <<cursor, LevelOffset(start, lvl + 1)>>
  /\ UNCHANGED <<pc, callVars, askVars>>

(* The leaf is larger than the block to write: a new table takes its       *)
(* place, whose entries map what it mapped.                                *)
Split ==
  /\ pc = "split" /\ lvl < level
  /\ At(leaf).type = BLOCK /\ cursor < Pool
  /\ tables' = [tables EXCEPT
       ![cursor] = [i \in 0 .. Fan - 1 |->
                      Desc(LeafType(lvl + 1),
                           Align(At(leaf).to, lvl) + i * LevelSize(lvl + 1),
                           At(leaf).attr)],
       ![leaf[1]][leaf[2]] = Desc(TABLE, cursor, NoAttribute)]
  /\ cursor' = cursor + 1
  /\ lvl' = lvl + 1
  /\ leaf' = <<cursor, LevelOffset(start, lvl + 1)>>
  /\ UNCHANGED <<pc, callVars, askVars>>

(* smc0: a descriptor that is not a block, or no table left. *)
GiveUp ==
  /\ pc = "split" /\ lvl < level
  /\ At(leaf).type # BLOCK \/ cursor >= Pool
  /\ pc' = "gave_up"
  /\ UNCHANGED <<tables, cursor, callVars, leafVars, askVars>>

WriteLeaf ==
  /\ pc = "split" /\ lvl >= level /\ pc' = "loop"
  /\ tables' = [tables EXCEPT
       ![leaf[1]][leaf[2]] = Desc(LeafType(level), start, attributes)]
  /\ start' = start + LevelSize(level)
  /\ size' = size - LevelSize(level)
  /\ UNCHANGED <<cursor, attributes, level, leafVars, askVars>>

AddPagesDone ==
  /\ pc = "loop" /\ size = 0 /\ pc' = "idle"
  /\ UNCHANGED <<tables, cursor, callVars, leafVars, askVars>>

Next ==
  \/ InitTables
  \/ \E r \in Ranges, a \in Attributes : AddPages(r, a)
  \/ FindLeaf \/ Split \/ GiveUp \/ WriteLeaf \/ AddPagesDone

Spec == Init /\ [][Next]_vars

-----------------------------------------------------------------------------
Descriptor == [type : {0, BLOCK, TABLE}, to : Page \union 0 .. Pool - 1,
               attr : Attributes \union {Normal, NoAttribute}]

TypeOK ==
  /\ tables \in [0 .. Pool - 1 -> [0 .. Fan - 1 -> Descriptor]]
  /\ cursor \in 1 .. Pool
  /\ pc \in {"boot", "idle", "loop", "split", "gave_up"}
  /\ start \in Nat /\ size \in Nat
  /\ attributes \in Attributes \union {Normal}
  /\ level \in 1 .. 3 /\ lvl \in 0 .. 3
  /\ leaf \in (0 .. Pool - 1) \X (0 .. Fan - 1)
  /\ asked \subseteq Page /\ calls \in 0 .. MaxCalls

(* How the MMU translates page p: the page, the attributes, and whether    *)
(* the descriptor is one that maps memory at its level.                    *)
Translation(p) ==
  LET x == LeafFor(p)
      l == x.level
      d == At(x.place)
  IN  [to |-> d.to + (p % LevelSize(l)), attr |-> d.attr, valid |-> d.type = LeafType(l)]

(* The pages the call under way has still to map. *)
Left == IF pc \in {"loop", "split", "gave_up"} THEN start .. start + size - 1 ELSE {}

(* The attributes page p is mapped to itself with; NoAttribute if it is    *)
(* not.  Nothing reads the tables before they are built.                   *)
MapOf(p) ==
  IF pc = "boot" THEN Normal
  ELSE IF Translation(p).to = p /\ Translation(p).valid THEN Translation(p).attr
  ELSE NoAttribute

Abstract == INSTANCE AddressMap
            WITH Requests <- {PagesOf(r) : r \in Ranges},
                 map <- [p \in Page |-> MapOf(p)], todo <- Left

(* The splits and the blocks of add_pages implement AddressMap: every page *)
(* stays mapped to itself, in the middle of a split too, and a step gives  *)
(* the attributes of the call to pages that have a byte in its range and   *)
(* to no other.                                                            *)
ImplementsAddressMap == Abstract!Spec

(* A call takes four tables at most, two at each end of its range: smc0 is *)
(* reached only if the pool had fewer (the hardware's has 511 for the five *)
(* calls of mmu_init_descriptors), never for a descriptor of a wrong type. *)
FewTables ==
  /\ cursor <= FirstFree + 4 * calls
  /\ pc = "gave_up" => Pool < FirstFree + 4 * calls
=============================================================================
