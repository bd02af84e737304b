------------------------------ MODULE MCMmu64 ------------------------------
(* Tables of two entries, 16 pages of two bytes: ranges that begin and end *)
(* on a block, on a page and inside a page.                                *)
EXTENDS Mmu64

MCRanges ==
  {[start |-> s, end |-> e] : s \in {0, 3, 8, 14}, e \in {5, 8, 11, 16, 30}}
    \intersect {r \in [start : 0 .. 31, end : 0 .. 31] : r.start < r.end}
=============================================================================
