------------------------------ MODULE MCMmu32 ------------------------------
(* Four sections of four pages of two bytes, two on each side of the       *)
(* boundary, and a 16kB granule of two pages: every served range that      *)
(* begins and ends on a section, on a page or inside one.                  *)
EXTENDS Mmu32

MCRanges == {r \in [start : {0, 3, 5, 8, 13, 16, 25}, end : {5, 6, 8, 12, 15, 23, 32}] :
               r.start < r.end /\ Served(r)}

normal    == {"B", "C", "AP0", "AP1", "TEX0", "S"}
exclusive == normal \union {"XN"}
device    == {"XN", "AP0", "AP1"}
MCAttributes == {exclusive, device}
=============================================================================
