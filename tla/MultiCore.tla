----------------------------- MODULE MultiCore -----------------------------
(***************************************************************************)
(* The start of the cores (aarch64/start.s, aarch32/start.s): core 0 runs  *)
(* ResetHandler, builds the translation tables, writes the release slot of *)
(* every secondary core and goes on to main0; the secondary cores wait in  *)
(* the firmware's stub, which is not in the repository, and go through     *)
(* branch_to_main once they find their slot written.  main<c>              *)
(* (app-common/main.c) then calls atomic_or once, which AtomicOr64 and     *)
(* AtomicOr32 describe, and ends in app_screen_demo or in a wfe loop.      *)
(*                                                                         *)
(* WFE sleeps until the core's event register is set and clears it; SEV    *)
(* sets the event register of every core.  The register's reset value is   *)
(* architecturally unknown.                                                *)
(***************************************************************************)
EXTENDS Naturals

CONSTANTS
  N,            \* n_core_max: the number of secondary cores
  Boards,       \* the boards, as in the makefile (RPI=1, 3, 4 or 5)
  SilentBoards  \* those whose unlock sequence ends without a sev: the ones
                \* that use unlock_cores_legacy, in AArch64

ASSUME BootAssumption == N \in Nat /\ Boards \subseteq Nat

VARIABLES
  rpi,      \* the board, chosen for ever by Init
  pc,       \* where each core is
  event,    \* the event register of each core
  slot,     \* slot[c]: the release slot of core c holds start_core<c>
  next,     \* the next core to unlock (x2 / the .rept index i)
  tables,   \* mmu_init_descriptors has returned
  core_data,    \* the cores whose bit is 1 in core_data
  report        \* the cores of the figure core 0 printed, {} before

releaseVars == <<rpi, slot, next, tables>>
bootVars == <<event, releaseVars>>
dataVars == <<core_data, report>>
coreVars == <<pc, bootVars, dataVars>>

Core      == 0 .. N
Secondary == 1 .. N

StubPc == {"reset", "unlock", "spin_wfe", "spin_load"}
MainPc == {"regs", "wait", "or", "check", "demo", "idle"}

Goto(c, from, to) == pc[c] = from /\ pc' = [pc EXCEPT ![c] = to]

(* SEV, and WFE on core c. *)
SendEvent  == event' = [c \in Core |-> TRUE]
WaitEvent(c) == event[c] /\ event' = [event EXCEPT ![c] = FALSE]

CoreInit ==
  /\ rpi \in Boards
  /\ pc = [c \in Core |-> IF c = 0 THEN "reset" ELSE "spin_wfe"]
  /\ event \in [Core -> BOOLEAN]
  /\ slot = [c \in Secondary |-> FALSE]
  /\ next = 1
  /\ tables = FALSE
  /\ core_data = {}
  /\ report = {}

(* Fault: the slots are written while the tables are still being built. *)
ResetHandlerUnlocksFirst ==
  /\ Goto(0, "reset", "unlock")
  /\ UNCHANGED <<bootVars, dataVars>>

(* ResetHandler up to the unlock: .bss, .data, clock, descriptors. *)
ResetHandler ==
  /\ Goto(0, "reset", "unlock")
  /\ tables' = TRUE
  /\ UNCHANGED <<rpi, event, slot, next, dataVars>>

(* One iteration of unlock_cores(_legacy): the slot of core `next'. *)
UnlockCore ==
  /\ pc[0] = "unlock" /\ next <= N
  /\ slot' = [slot EXCEPT ![next] = TRUE]
  /\ next' = next + 1
  /\ UNCHANGED <<rpi, pc, event, tables, dataVars>>

(* The end of the unlock sequence: dsb, and sev where the code has one. *)
UnlockDone ==
  /\ Goto(0, "unlock", "regs") /\ next > N
  /\ IF rpi \in SilentBoards THEN UNCHANGED event ELSE SendEvent
  /\ UNCHANGED <<releaseVars, dataVars>>

(* The firmware's holding pen: wfe; load the slot; loop while it is zero. *)
SpinWfe(c) ==
  /\ c # 0 /\ Goto(c, "spin_wfe", "spin_load")
  /\ WaitEvent(c)
  /\ UNCHANGED <<releaseVars, dataVars>>

SpinLoad(c) ==
  /\ c # 0 /\ Goto(c, "spin_load", IF slot[c] THEN "regs" ELSE "spin_wfe")
  /\ UNCHANGED <<bootVars, dataVars>>

(* branch_to_main: mmu_init_registers, SCTLR.{M,C}, eret into main<c>.     *)
(* main0 first sets its devices up and waits, the others OR at once.       *)
BranchToMain(c) ==
  /\ Goto(c, "regs", IF c = 0 THEN "wait" ELSE "or")
  /\ UNCHANGED <<bootVars, dataVars>>

(* main0 up to its atomic_or: mem_init, app_init_gpio, uart_init_1415,     *)
(* "Hello world!" and systimer_wait_us, which take any amount of time.     *)
Main0Wait ==
  /\ Goto(0, "wait", "or")
  /\ UNCHANGED <<bootVars, dataVars>>

(* WFE may also complete for a reason of the implementation's own: it then *)
(* behaves as if the event register had been set.                          *)
StrayEvent(c) ==
  /\ ~event[c]
  /\ event' = [event EXCEPT ![c] = TRUE]
  /\ UNCHANGED <<pc, releaseVars, dataVars>>

(* Where main<c> goes once atomic_or returns. *)
AfterOr(c) == IF c = 0 THEN "check" ELSE "idle"

(* main0 reads core_data and prints it; app_screen_demo never returns. *)
CoreDataCheck ==
  /\ Goto(0, "check", "demo")
  /\ report' = core_data
  /\ UNCHANGED <<bootVars, core_data>>

(* for(;;) wfe, at the end of main1, main2 and main3. *)
Idle(c) ==
  /\ Goto(c, "idle", "idle")
  /\ WaitEvent(c)
  /\ UNCHANGED <<releaseVars, dataVars>>

(* All that core c does outside atomic_or. *)
MainStep(c) ==
  \/ /\ c = 0
     /\ ResetHandler \/ UnlockCore \/ UnlockDone \/ Main0Wait \/ CoreDataCheck
  \/ SpinWfe(c) \/ SpinLoad(c) \/ BranchToMain(c) \/ Idle(c)

-----------------------------------------------------------------------------
(* No core turns its MMU on, hence none executes an exclusive access,      *)
(* before core 0 has built the translation tables (start.s: the unlock     *)
(* comes after mmu_init_descriptors).                                      *)
TablesBeforeMmu == \A c \in Core : pc[c] \notin StubPc => tables

(* A bit once set in core_data stays set, whatever the cores do. *)
BitsStay == [][core_data \subseteq core_data']_coreVars

(* The one-step OR that the concurrent code implements. *)
Abstract == INSTANCE CoreCheck
            WITH N <- N, core_data <- core_data, report <- report
=============================================================================
