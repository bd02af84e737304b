----------------------------- MODULE AtomicOr64 -----------------------------
(***************************************************************************)
(* atomic_or of app-common/main.c in the AArch64 builds, on top of the     *)
(* boot of the cores:                                                      *)
(*   rpi < 5   ldaxr / orr / stlxr, a wfe when the store fails, and a sev  *)
(*             once it has succeeded;                                      *)
(*   rpi >= 5  one LSE ldset, and no sev.                                  *)
(* excl[c] is core c's exclusive monitor on core_data.  A store to         *)
(* core_data opens every other core's monitor, which is a wake-up event    *)
(* for those cores.  A monitor may also be lost for a reason of the        *)
(* implementation's own (a line evicted, say); LossWakes says whether that *)
(* is a wake-up event too.                                                 *)
(***************************************************************************)
EXTENDS MultiCore

CONSTANTS
  LossWakes,    \* a monitor lost without a store sets the event register
  MaxLosses     \* bound on the monitors lost without a store

ASSUME Or64Assumption == LossWakes \in BOOLEAN /\ MaxLosses \in Nat

VARIABLES
  w2,           \* the value each core loaded
  excl,         \* the exclusive monitor of each core
  losses        \* the monitors lost so far without a store

orVars == <<w2, excl, losses>>
vars   == <<coreVars, orVars>>

TypeOK ==
  /\ rpi \in Boards
  /\ pc \in [Core -> StubPc \union MainPc \union {"stlxr", "wfe", "sev"}]
  /\ event \in [Core -> BOOLEAN]
  /\ slot \in [Secondary -> BOOLEAN]
  /\ next \in 1 .. N + 1
  /\ tables \in BOOLEAN
  /\ core_data \in SUBSET Core
  /\ report \in SUBSET Core
  /\ w2 \in [Core -> SUBSET Core]
  /\ excl \in [Core -> BOOLEAN]
  /\ losses \in 0 .. MaxLosses

Init ==
  /\ CoreInit
  /\ w2 = [c \in Core |-> {}]
  /\ excl = [c \in Core |-> FALSE]
  /\ losses = 0

Ldaxr(c) ==
  /\ rpi < 5
  /\ Goto(c, "or", "stlxr")
  /\ w2' = [w2 EXCEPT ![c] = core_data]
  /\ excl' = [excl EXCEPT ![c] = TRUE]
  /\ UNCHANGED <<bootVars, dataVars, losses>>

(* Fault: a plain str in the place of the stlxr, which no monitor stops. *)
PlainStore(c) ==
  /\ Goto(c, "stlxr", "sev")
  /\ core_data' = w2[c] \union {c}
  /\ excl' = [d \in Core |-> FALSE]
  /\ event' = [d \in Core |-> event[d] \/ (d # c /\ excl[d])]
  /\ UNCHANGED <<releaseVars, report, w2, losses>>

(* orr, then a store that succeeds: status = 0. *)
StlxrOk(c) ==
  /\ excl[c]
  /\ Goto(c, "stlxr", "sev")
  /\ core_data' = w2[c] \union {c}
  /\ excl' = [d \in Core |-> FALSE]
  /\ event' = [d \in Core |-> event[d] \/ (d # c /\ excl[d])]
  /\ UNCHANGED <<releaseVars, report, w2, losses>>

(* The monitor is open: status = 1, and the core goes to sleep. *)
StlxrFail(c) ==
  /\ ~excl[c]
  /\ Goto(c, "stlxr", "wfe")
  /\ UNCHANGED <<bootVars, dataVars, orVars>>

Wfe(c) ==
  /\ Goto(c, "wfe", "or")
  /\ WaitEvent(c)
  /\ UNCHANGED <<releaseVars, dataVars, orVars>>

(* Fault: atomic_or returns without its sev. *)
SevMissing(c) ==
  /\ Goto(c, "sev", AfterOr(c))
  /\ UNCHANGED <<bootVars, dataVars, orVars>>

Sev(c) ==
  /\ Goto(c, "sev", AfterOr(c))
  /\ SendEvent
  /\ UNCHANGED <<releaseVars, dataVars, orVars>>

(* Fault: a load, an or and a store in the place of the atomic ldset. *)
LoadThenStore(c) ==
  /\ rpi >= 5
  /\ \/ /\ Goto(c, "or", "stlxr")
        /\ w2' = [w2 EXCEPT ![c] = core_data]
        /\ UNCHANGED core_data
     \/ /\ Goto(c, "stlxr", AfterOr(c))
        /\ core_data' = w2[c] \union {c}
        /\ UNCHANGED w2
  /\ UNCHANGED <<bootVars, report, excl, losses>>

Ldset(c) ==
  /\ rpi >= 5
  /\ Goto(c, "or", AfterOr(c))
  /\ core_data' = core_data \union {c}
  /\ UNCHANGED <<bootVars, report, w2, excl, losses>>

LoseMonitor(c) ==
  /\ excl[c] /\ losses < MaxLosses
  /\ excl' = [excl EXCEPT ![c] = FALSE]
  /\ event' = [event EXCEPT ![c] = @ \/ LossWakes]
  /\ losses' = losses + 1
  /\ UNCHANGED <<pc, releaseVars, dataVars, w2>>

CoreStep(c) ==
  \/ MainStep(c) /\ UNCHANGED orVars
  \/ Ldaxr(c) \/ StlxrOk(c) \/ StlxrFail(c) \/ Wfe(c) \/ Sev(c)
  \/ Ldset(c)

HardwareStep(c) ==
  \/ LoseMonitor(c)
  \/ StrayEvent(c) /\ UNCHANGED orVars

Next == \E c \in Core : CoreStep(c) \/ HardwareStep(c)

SafeSpec == Init /\ [][Next]_vars

(* Every core executes its own instructions: nothing schedules them.       *)
Spec == SafeSpec /\ \A c \in Core : WF_vars(CoreStep(c))

-----------------------------------------------------------------------------
(* The cores past the point where their store to core_data has succeeded. *)
Responded(c) == pc[c] \in {"sev", "check", "demo", "idle"}

(* No core's bit is lost to another core's read-modify-write, and no bit   *)
(* appears before its core has stored it: core_data holds exactly the      *)
(* cores whose atomic_or has taken effect (main.c, atomic_or).             *)
NoLostUpdate == core_data = {c \in Core : Responded(c)}

(* The figure core 0 prints names core 0 and only cores that did answer    *)
(* (main.c: `Should print "f" if all cores responded in time').            *)
ReportIsTrue ==
  pc[0] = "demo" => 0 \in report /\ \A c \in report : Responded(c)

(* The concurrent code implements the one-step OR of CoreCheck. *)
SafelyImplements    == Abstract!SafeSpec
ImplementsCoreCheck == Abstract!Spec
=============================================================================
