----------------------------- MODULE CacheLines -----------------------------
(***************************************************************************)
(* The arithmetic of cache_invalidate_range_to_poc (core/cache32.h,        *)
(* core/cache64.h): which addresses the loop hands to the clean and        *)
(* invalidate instruction for a range of bytes, Width being what           *)
(* cache_line_width_for_poc returned.  The end of the loop rounds the      *)
(* LAST byte of the range up, so a range whose last byte is the first of a *)
(* line leaves that line alone: a range of words never ends so.            *)
(***************************************************************************)
EXTENDS Integers

CONSTANT Width

ASSUME WidthAssumption == Width \in Nat \ {0}

(* begin &= ~linemask *)
First(begin) == (begin \div Width) * Width

(* end = (begin + size - 1 + linemask) & ~linemask *)
End(begin, size) == ((begin + size - 1 + Width - 1) \div Width) * Width
=============================================================================
