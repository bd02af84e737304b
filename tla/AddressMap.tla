----------------------------- MODULE AddressMap -----------------------------
(***************************************************************************)
(* What add_pages of aarch64/mmu.c and of aarch32/mmu.c promise of the     *)
(* tables they build: every page is mapped to itself at any time, and a    *)
(* call gives its attributes to the pages it was asked for, a few at a     *)
(* time, and to no other.  Mmu64 and Mmu32 implement this module.          *)
(***************************************************************************)
CONSTANTS
  Page,         \* the pages of the address space
  Requests,     \* the sets of pages a call may be made for
  Attributes,   \* the attributes it may be made with
  Normal        \* those of every page at first

VARIABLES
  map,          \* the attributes each page is mapped to itself with
  todo,         \* the pages the call under way has still to change
  attributes    \* what it changes them to

vars == <<map, todo, attributes>>

Init ==
  /\ map = [p \in Page |-> Normal]
  /\ todo = {}
  /\ attributes = Normal

(* add_pages is called for the pages of S. *)
Ask(S, a) ==
  /\ todo = {} /\ todo' = S
  /\ attributes' = a
  /\ UNCHANGED map

(* Some of the pages asked for get their attributes. *)
Set ==
  /\ todo' \subseteq todo /\ todo' # todo
  /\ map' = [p \in Page |-> IF p \in todo \ todo' THEN attributes ELSE map[p]]
  /\ UNCHANGED attributes

Next == Set \/ \E S \in Requests, a \in Attributes : Ask(S, a)

Spec == Init /\ [][Next]_vars
=============================================================================
