----------------------------- MODULE CoreCheck -----------------------------
(***************************************************************************)
(* What app-common/main.c promises, whatever the build: every core ORs its *)
(* own bit into core_data exactly once and never disturbs another core's   *)
(* bit, and core 0 prints the bits it finds once its own is in.  core_data *)
(* is the set of the cores whose bit is 1, so `core_data |= 1 << c' is     *)
(* core_data \union {c}.  AtomicOr64 and AtomicOr32 implement this module. *)
(***************************************************************************)
EXTENDS Naturals

CONSTANT N      \* the number of secondary cores (3 on a Raspberry Pi)

VARIABLES
  core_data,    \* the cores whose bit is set in core_data
  report        \* the cores of the figure core 0 printed, {} before it does

vars == <<core_data, report>>

Core == 0 .. N

Init == core_data = {} /\ report = {}

(* atomic_or(&core_data, 1 << c), called once by main<c>. *)
Respond(c) ==
  /\ c \notin core_data
  /\ core_data' = core_data \union {c}
  /\ UNCHANGED report

(* main0 reads core_data and prints "Core check: ?". *)
Report ==
  /\ 0 \in core_data /\ report = {}
  /\ report' = core_data
  /\ UNCHANGED core_data

Next == Report \/ \E c \in Core : Respond(c)

SafeSpec == Init /\ [][Next]_vars

Spec == SafeSpec /\ WF_vars(Report) /\ \A c \in Core : WF_vars(Respond(c))
=============================================================================
