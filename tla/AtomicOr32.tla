----------------------------- MODULE AtomicOr32 -----------------------------
(***************************************************************************)
(* atomic_or of app-common/main.c in the AArch32 builds, on top of the     *)
(* boot of the cores: a mutex claimed with ldrex / wfene / strexeq, a      *)
(* plain read-modify-write of core_data, and a plain store that releases   *)
(* the mutex, followed by a sev.                                           *)
(* A plain store waits in its core's buffer, buf[c], and reaches memory    *)
(* later, in any order; memoryBarrier() (dsb sy) waits for the buffer to   *)
(* be empty.  There is no barrier between the store that releases the      *)
(* mutex and the sev, so the event may be seen before the mutex is free.   *)
(* excl[c] is core c's exclusive monitor on mutex; a store to mutex that   *)
(* reaches memory opens the other monitors and sends their cores an event. *)
(***************************************************************************)
EXTENDS MultiCore

CONSTANTS
  FREE, TAKEN,  \* MUTEX_FREE, MUTEX_TAKEN
  LossWakes,    \* a monitor lost without a store sets the event register
  MaxLosses     \* bound on the monitors lost without a store

ASSUME Or32Assumption ==
  FREE # TAKEN /\ SilentBoards = {} /\ LossWakes \in BOOLEAN /\ MaxLosses \in Nat

VARIABLES
  mutex,        \* the mutex, in memory
  excl,         \* the exclusive monitor of each core
  w,            \* the new value of *dst each core computed
  buf,          \* the stores each core has issued that memory has not seen
  losses        \* the monitors lost so far without a store

orVars == <<mutex, excl, w, buf, losses>>
vars   == <<coreVars, orVars>>

HolderPc == {"load", "store", "release"}

TypeOK ==
  /\ rpi \in Boards
  /\ pc \in [Core -> StubPc \union MainPc \union HolderPc
                            \union {"wfene", "strexeq", "sev"}]
  /\ event \in [Core -> BOOLEAN]
  /\ slot \in [Secondary -> BOOLEAN]
  /\ next \in 1 .. N + 1
  /\ tables \in BOOLEAN
  /\ core_data \in SUBSET Core
  /\ report \in SUBSET Core
  /\ mutex \in {FREE, TAKEN}
  /\ excl \in [Core -> BOOLEAN]
  /\ w \in [Core -> SUBSET Core]
  /\ buf \in [Core -> SUBSET {"dst", "mutex"}]
  /\ losses \in 0 .. MaxLosses

Init ==
  /\ CoreInit
  /\ mutex = FREE
  /\ excl = [c \in Core |-> FALSE]
  /\ w = [c \in Core |-> {}]
  /\ buf = [c \in Core |-> {}]
  /\ losses = 0

(* A store to mutex reaches memory: the monitors open, and every core      *)
(* other than c that held one gets an event.                               *)
WriteMutex(c, value) ==
  /\ mutex' = value
  /\ excl' = [d \in Core |-> FALSE]
  /\ event' = [d \in Core |-> event[d] \/ (d # c /\ excl[d])]

(* Fault: a plain load looks at the mutex first, and the monitor is armed  *)
(* only when it is free.                                                   *)
LdrexWhenFree(c) ==
  /\ Goto(c, "or", IF mutex = FREE THEN "strexeq" ELSE "wfene")
  /\ excl' = [excl EXCEPT ![c] = mutex = FREE]
  /\ UNCHANGED <<bootVars, dataVars, mutex, w, buf, losses>>

(* ldrex, cmp. *)
Ldrex(c) ==
  /\ Goto(c, "or", IF mutex = FREE THEN "strexeq" ELSE "wfene")
  /\ excl' = [excl EXCEPT ![c] = TRUE]
  /\ UNCHANGED <<bootVars, dataVars, mutex, w, buf, losses>>

(* The mutex was taken: status = MUTEX_TAKEN keeps the loop going.         *)
Wfene(c) ==
  /\ Goto(c, "wfene", "or")
  /\ WaitEvent(c)
  /\ UNCHANGED <<releaseVars, dataVars, orVars>>

(* Fault: a plain str, which succeeds whether the monitor is open or not. *)
StrPlain(c) ==
  /\ Goto(c, "strexeq", "load")
  /\ WriteMutex(c, TAKEN)
  /\ UNCHANGED <<releaseVars, dataVars, w, buf, losses>>

StrexeqOk(c) ==
  /\ excl[c]
  /\ Goto(c, "strexeq", "load")
  /\ WriteMutex(c, TAKEN)
  /\ UNCHANGED <<releaseVars, dataVars, w, buf, losses>>

StrexeqFail(c) ==
  /\ ~excl[c]
  /\ Goto(c, "strexeq", "or")
  /\ UNCHANGED <<bootVars, dataVars, orVars>>

(* memoryBarrier(); the load of *dst |= src. *)
Load(c) ==
  /\ Goto(c, "load", "store")
  /\ buf[c] = {}
  /\ w' = [w EXCEPT ![c] = core_data \union {c}]
  /\ UNCHANGED <<bootVars, dataVars, mutex, excl, buf, losses>>

(* The store of *dst |= src. *)
Store(c) ==
  /\ Goto(c, "store", "release")
  /\ buf' = [buf EXCEPT ![c] = @ \union {"dst"}]
  /\ UNCHANGED <<bootVars, dataVars, mutex, excl, w, losses>>

(* Fault: the mutex is released without the memoryBarrier. *)
ReleaseUnordered(c) ==
  /\ Goto(c, "release", "sev")
  /\ buf' = [buf EXCEPT ![c] = @ \union {"mutex"}]
  /\ UNCHANGED <<bootVars, dataVars, mutex, excl, w, losses>>

(* memoryBarrier(); mutex = MUTEX_FREE. *)
Release(c) ==
  /\ Goto(c, "release", "sev")
  /\ buf[c] = {}
  /\ buf' = [buf EXCEPT ![c] = @ \union {"mutex"}]
  /\ UNCHANGED <<bootVars, dataVars, mutex, excl, w, losses>>

Sev(c) ==
  /\ Goto(c, "sev", AfterOr(c))
  /\ SendEvent
  /\ UNCHANGED <<releaseVars, dataVars, orVars>>

(* A buffered store reaches memory. *)
DrainDst(c) ==
  /\ "dst" \in buf[c]
  /\ buf' = [buf EXCEPT ![c] = @ \ {"dst"}]
  /\ core_data' = w[c]
  /\ UNCHANGED <<pc, bootVars, report, mutex, excl, w, losses>>

DrainMutex(c) ==
  /\ "mutex" \in buf[c]
  /\ buf' = [buf EXCEPT ![c] = @ \ {"mutex"}]
  /\ WriteMutex(c, FREE)
  /\ UNCHANGED <<pc, releaseVars, dataVars, w, losses>>

LoseMonitor(c) ==
  /\ excl[c] /\ losses < MaxLosses
  /\ excl' = [excl EXCEPT ![c] = FALSE]
  /\ event' = [event EXCEPT ![c] = @ \/ LossWakes]
  /\ losses' = losses + 1
  /\ UNCHANGED <<pc, releaseVars, dataVars, mutex, w, buf>>

CoreStep(c) ==
  \/ MainStep(c) /\ UNCHANGED orVars
  \/ Ldrex(c) \/ Wfene(c) \/ StrexeqOk(c) \/ StrexeqFail(c)
  \/ Load(c) \/ Store(c) \/ Release(c) \/ Sev(c)

Drain(c) == DrainDst(c) \/ DrainMutex(c)

HardwareStep(c) ==
  \/ LoseMonitor(c)
  \/ StrayEvent(c) /\ UNCHANGED orVars

Next == \E c \in Core : CoreStep(c) \/ Drain(c) \/ HardwareStep(c)

SafeSpec == Init /\ [][Next]_vars

(* Every core executes its own instructions, and no store stays in a       *)
(* buffer for ever.                                                        *)
Spec == SafeSpec /\ \A c \in Core : WF_vars(CoreStep(c)) /\ WF_vars(Drain(c))

-----------------------------------------------------------------------------
(* A core holds the mutex from its strexeq until memory sees its release. *)
Holds(c) == pc[c] \in HolderPc \/ "mutex" \in buf[c]

(* The mutex excludes: at most one core is between its claim and its       *)
(* release, and the mutex is taken exactly then (main.c, atomic_or).       *)
MutualExclusion ==
  /\ \A c, d \in Core : Holds(c) /\ Holds(d) => c = d
  /\ mutex = TAKEN <=> \E c \in Core : Holds(c)

(* core_data holds exactly the cores whose store to it memory has seen: no *)
(* bit is lost to another core's read-modify-write.                        *)
NoLostUpdate ==
  core_data = {c \in Core : /\ pc[c] \in {"release", "sev", "check", "demo", "idle"}
                            /\ "dst" \notin buf[c]}

(* The concurrent code implements the one-step OR of CoreCheck. *)
SafelyImplements    == Abstract!SafeSpec
ImplementsCoreCheck == Abstract!Spec
=============================================================================
