-------------------------- MODULE AtomicOr64_proof --------------------------
(***************************************************************************)
(* What the runs of AtomicOr64 check for four cores, proved for any number *)
(* of cores, any board and any number of monitors lost: the safety of      *)
(* atomic_or in the AArch64 builds, and that it implements CoreCheck.      *)
(***************************************************************************)
EXTENDS AtomicOr64, TLAPS

USE BootAssumption, Or64Assumption

(* A core whose monitor is still closed holds the current core_data: any   *)
(* store to core_data since its ldaxr would have opened the monitor.       *)
MonitorsHold ==
  /\ \A c \in Core : pc[c] = "stlxr" /\ excl[c] => w2[c] = core_data
  /\ rpi >= 5 => \A c \in Core : ~excl[c]

(* Core 0 prints once. *)
ReportsOnce == pc[0] # "demo" => report = {}

(* Every way out of the stub passes by the tables. *)
ReleasedByTables ==
  /\ pc[0] # "reset" => tables
  /\ \A c \in Secondary : slot[c] => tables

IInv ==
  /\ TypeOK
  /\ NoLostUpdate
  /\ MonitorsHold
  /\ ReportsOnce
  /\ ReportIsTrue
  /\ ReleasedByTables
  /\ TablesBeforeMmu

(* Whatever changes leaves the types alone. *)
LEMMA TypeStep == TypeOK /\ [Next]_vars => TypeOK'
<1> SUFFICES ASSUME TypeOK, [Next]_vars PROVE TypeOK'
    OBVIOUS
<1> USE DEF TypeOK, Core, Secondary, StubPc, MainPc, Goto, SendEvent, WaitEvent,
            AfterOr, bootVars, releaseVars, dataVars,
            coreVars, orVars
<1>1. CASE UNCHANGED vars
      BY <1>1 DEF vars
<1>2. ASSUME NEW c \in Core, MainStep(c), UNCHANGED orVars
      PROVE  TypeOK'
  <2>1. CASE ResetHandler
        BY <2>1, <1>2 DEF ResetHandler
  <2>2. CASE UnlockCore
        BY <2>2, <1>2 DEF UnlockCore
  <2>3. CASE UnlockDone
        BY <2>3, <1>2 DEF UnlockDone
  <2>4. CASE Main0Wait
        BY <2>4, <1>2 DEF Main0Wait
  <2>5. CASE CoreDataCheck
        BY <2>5, <1>2 DEF CoreDataCheck
  <2>6. CASE SpinWfe(c)
        BY <2>6, <1>2 DEF SpinWfe
  <2>7. CASE SpinLoad(c)
        BY <2>7, <1>2 DEF SpinLoad
  <2>8. CASE BranchToMain(c)
        BY <2>8, <1>2 DEF BranchToMain
  <2>9. CASE Idle(c)
        BY <2>9, <1>2 DEF Idle
  <2> QED
      BY <2>1, <2>2, <2>3, <2>4, <2>5, <2>6, <2>7, <2>8, <2>9, <1>2 DEF MainStep
<1>3. ASSUME NEW c \in Core, Ldaxr(c)
      PROVE  TypeOK'
      BY <1>3 DEF Ldaxr
<1>4. ASSUME NEW c \in Core, StlxrOk(c)
      PROVE  TypeOK'
      BY <1>4 DEF StlxrOk
<1>5. ASSUME NEW c \in Core, StlxrFail(c) \/ Wfe(c) \/ Sev(c)
      PROVE  TypeOK'
      BY <1>5 DEF StlxrFail, Wfe, Sev
<1>6. ASSUME NEW c \in Core, Ldset(c)
      PROVE  TypeOK'
      BY <1>6 DEF Ldset
<1>7. ASSUME NEW c \in Core, LoseMonitor(c)
      PROVE  TypeOK'
      BY <1>7 DEF LoseMonitor
<1>8. ASSUME NEW c \in Core, StrayEvent(c), UNCHANGED orVars
      PROVE  TypeOK'
      BY <1>8 DEF StrayEvent
<1> QED
    BY <1>1, <1>2, <1>3, <1>4, <1>5, <1>6, <1>7, <1>8
    DEF Next, CoreStep, HardwareStep

(* What core_data holds, and what the cores that may still write to it     *)
(* have loaded.                                                            *)
DataInv == NoLostUpdate /\ MonitorsHold /\ ReportsOnce /\ ReportIsTrue

(* The steps outside atomic_or: of them only core 0's check touches the    *)
(* data, and it copies what it finds.                                      *)
LEMMA MainKeepsData ==
  ASSUME TypeOK, DataInv, NEW c \in Core, MainStep(c), UNCHANGED orVars
  PROVE  DataInv'
<1> USE DEF TypeOK, Core, Secondary, StubPc, MainPc, Goto, SendEvent, WaitEvent,
            AfterOr, bootVars, releaseVars, dataVars,
            coreVars, orVars, DataInv, Responded,
            NoLostUpdate, MonitorsHold, ReportsOnce, ReportIsTrue
<1>1. CASE ResetHandler
      BY <1>1 DEF ResetHandler
<1>2. CASE UnlockCore
      BY <1>2 DEF UnlockCore
<1>3. CASE UnlockDone
      BY <1>3 DEF UnlockDone
<1>4. CASE Main0Wait
      BY <1>4 DEF Main0Wait
<1>5. CASE CoreDataCheck
      BY <1>5 DEF CoreDataCheck
<1>6. CASE SpinWfe(c)
      BY <1>6 DEF SpinWfe
<1>7. CASE SpinLoad(c)
      BY <1>7 DEF SpinLoad
<1>8. CASE BranchToMain(c)
      BY <1>8 DEF BranchToMain
<1>9. CASE Idle(c)
      BY <1>9 DEF Idle
<1> QED
    BY <1>1, <1>2, <1>3, <1>4, <1>5, <1>6, <1>7, <1>8, <1>9 DEF MainStep

LEMMA DataStep ==
  ASSUME TypeOK, DataInv, [Next]_vars
  PROVE  DataInv'
<1> USE DEF TypeOK, Core, Secondary, StubPc, MainPc, Goto, SendEvent, WaitEvent,
            AfterOr, bootVars, releaseVars, dataVars,
            coreVars, orVars, DataInv, Responded,
            NoLostUpdate, MonitorsHold, ReportsOnce, ReportIsTrue
<1>1. CASE UNCHANGED vars
      BY <1>1 DEF vars
<1>2. ASSUME NEW c \in Core, MainStep(c), UNCHANGED orVars
      PROVE  DataInv'
      BY <1>2, MainKeepsData
<1>3. ASSUME NEW c \in Core, Ldaxr(c)
      PROVE  DataInv'
      BY <1>3 DEF Ldaxr
<1>4. ASSUME NEW c \in Core, StlxrOk(c)
      PROVE  DataInv'
      BY <1>4 DEF StlxrOk
<1>5. ASSUME NEW c \in Core, StlxrFail(c) \/ Wfe(c) \/ Sev(c)
      PROVE  DataInv'
  <2>1. CASE StlxrFail(c)
        BY <2>1 DEF StlxrFail
  <2>2. CASE Wfe(c)
        BY <2>2 DEF Wfe
  <2>3. CASE Sev(c)
        BY <2>3 DEF Sev
  <2> QED
      BY <1>5, <2>1, <2>2, <2>3
<1>6. ASSUME NEW c \in Core, Ldset(c)
      PROVE  DataInv'
      BY <1>6 DEF Ldset
<1>7. ASSUME NEW c \in Core, LoseMonitor(c)
      PROVE  DataInv'
      BY <1>7 DEF LoseMonitor
<1>8. ASSUME NEW c \in Core, StrayEvent(c), UNCHANGED orVars
      PROVE  DataInv'
      BY <1>8 DEF StrayEvent
<1> QED
    BY <1>1, <1>2, <1>3, <1>4, <1>5, <1>6, <1>7, <1>8
    DEF Next, CoreStep, HardwareStep

(* Core 0 leaves "reset" by ResetHandler only, which sets tables, and a    *)
(* secondary core leaves the stub only once its slot is written.           *)
BootInv == ReleasedByTables /\ TablesBeforeMmu

LEMMA MainKeepsBoot ==
  ASSUME TypeOK, BootInv, NEW c \in Core, MainStep(c), UNCHANGED orVars
  PROVE  BootInv'
<1> USE DEF TypeOK, Core, Secondary, StubPc, MainPc, Goto, SendEvent, WaitEvent,
            AfterOr, bootVars, releaseVars, dataVars,
            coreVars, orVars, BootInv,
            ReleasedByTables, TablesBeforeMmu
<1>1. CASE ResetHandler
      BY <1>1 DEF ResetHandler
<1>2. CASE UnlockCore
      BY <1>2 DEF UnlockCore
<1>3. CASE UnlockDone
      BY <1>3 DEF UnlockDone
<1>4. CASE Main0Wait
      BY <1>4 DEF Main0Wait
<1>5. CASE CoreDataCheck
      BY <1>5 DEF CoreDataCheck
<1>6. CASE SpinWfe(c)
      BY <1>6 DEF SpinWfe
<1>7. CASE SpinLoad(c)
      BY <1>7 DEF SpinLoad
<1>8. CASE BranchToMain(c)
      BY <1>8 DEF BranchToMain
<1>9. CASE Idle(c)
      BY <1>9 DEF Idle
<1> QED
    BY <1>1, <1>2, <1>3, <1>4, <1>5, <1>6, <1>7, <1>8, <1>9 DEF MainStep

LEMMA BootStep ==
  ASSUME TypeOK, BootInv, [Next]_vars
  PROVE  BootInv'
<1> USE DEF TypeOK, Core, Secondary, StubPc, MainPc, Goto, SendEvent, WaitEvent,
            AfterOr, bootVars, releaseVars, dataVars,
            coreVars, orVars, BootInv,
            ReleasedByTables, TablesBeforeMmu
<1>1. CASE UNCHANGED vars
      BY <1>1 DEF vars
<1>2. ASSUME NEW c \in Core, MainStep(c), UNCHANGED orVars
      PROVE  BootInv'
      BY <1>2, MainKeepsBoot
<1>3. ASSUME NEW c \in Core, Ldaxr(c)
      PROVE  BootInv'
      BY <1>3 DEF Ldaxr
<1>4. ASSUME NEW c \in Core, StlxrOk(c)
      PROVE  BootInv'
      BY <1>4 DEF StlxrOk
<1>5. ASSUME NEW c \in Core, StlxrFail(c) \/ Wfe(c) \/ Sev(c)
      PROVE  BootInv'
  <2>1. CASE StlxrFail(c)
        BY <2>1 DEF StlxrFail
  <2>2. CASE Wfe(c)
        BY <2>2 DEF Wfe
  <2>3. CASE Sev(c)
        BY <2>3 DEF Sev
  <2> QED
      BY <1>5, <2>1, <2>2, <2>3
<1>6. ASSUME NEW c \in Core, Ldset(c)
      PROVE  BootInv'
      BY <1>6 DEF Ldset
<1>7. ASSUME NEW c \in Core, LoseMonitor(c)
      PROVE  BootInv'
      BY <1>7 DEF LoseMonitor
<1>8. ASSUME NEW c \in Core, StrayEvent(c), UNCHANGED orVars
      PROVE  BootInv'
      BY <1>8 DEF StrayEvent
<1> QED
    BY <1>1, <1>2, <1>3, <1>4, <1>5, <1>6, <1>7, <1>8
    DEF Next, CoreStep, HardwareStep

-----------------------------------------------------------------------------
LEMMA InitInv == Init => IInv
<1> SUFFICES ASSUME Init PROVE IInv
    OBVIOUS
<1> USE DEF Init, CoreInit, Core, Secondary
<1>1. TypeOK
  <2>1. pc \in [Core -> StubPc \union MainPc \union {"stlxr", "wfe", "sev"}]
        BY DEF StubPc, MainPc
  <2>2. slot \in [Secondary -> BOOLEAN] /\ event \in [Core -> BOOLEAN]
        OBVIOUS
  <2>3. w2 \in [Core -> SUBSET Core] /\ excl \in [Core -> BOOLEAN]
        OBVIOUS
  <2>4. next \in 1 .. N + 1 /\ losses \in 0 .. MaxLosses
        OBVIOUS
  <2> QED
      BY <2>1, <2>2, <2>3, <2>4 DEF TypeOK
<1>2. NoLostUpdate
      BY DEF NoLostUpdate, Responded
<1>3. MonitorsHold /\ ReportsOnce /\ ReportIsTrue
      BY DEF MonitorsHold, ReportsOnce, ReportIsTrue
<1>4. ReleasedByTables /\ TablesBeforeMmu
      BY DEF ReleasedByTables, TablesBeforeMmu, StubPc
<1> QED
    BY <1>1, <1>2, <1>3, <1>4 DEF IInv

LEMMA InvStep == IInv /\ [Next]_vars => IInv'
  BY TypeStep, DataStep, BootStep DEF IInv, DataInv, BootInv

(* The invariant from which the properties follow. *)
THEOREM Invariant == SafeSpec => []IInv
<1>1. Init => IInv
      BY InitInv
<1>2. IInv /\ [Next]_vars => IInv'
      BY InvStep
<1> QED
    BY <1>1, <1>2, PTL DEF SafeSpec

(* Every variable of AtomicOr64 keeps its type, for every N: the unlock    *)
(* loop writes no slot past the last core's.                               *)
THEOREM TypeCorrect == SafeSpec => []TypeOK
<1>1. IInv => TypeOK
      BY DEF IInv
<1> QED
    BY <1>1, Invariant, PTL

(* No core's bit is lost to another core's atomic_or, with the exclusive   *)
(* pair and with ldset, whatever monitors the hardware loses.              *)
THEOREM UpdatesKept == SafeSpec => []NoLostUpdate
<1>1. IInv => NoLostUpdate
      BY DEF IInv
<1> QED
    BY <1>1, Invariant, PTL

(* The figure core 0 prints has its own bit and no bit of a core that has  *)
(* not answered.                                                           *)
THEOREM ReportTrue == SafeSpec => []ReportIsTrue
<1>1. IInv => ReportIsTrue
      BY DEF IInv
<1> QED
    BY <1>1, Invariant, PTL

(* No core turns its MMU on before the translation tables are built. *)
THEOREM TablesFirst == SafeSpec => []TablesBeforeMmu
<1>1. IInv => TablesBeforeMmu
      BY DEF IInv
<1> QED
    BY <1>1, Invariant, PTL

-----------------------------------------------------------------------------
(* What a step outside atomic_or does to the data: nothing, or the report. *)
LEMMA MainImplements ==
  ASSUME IInv, NEW c \in Core, MainStep(c), UNCHANGED orVars
  PROVE  Abstract!Report \/ UNCHANGED dataVars
<1> USE DEF Goto, bootVars, releaseVars, dataVars
<1>1. CASE CoreDataCheck
  <2>1. pc[0] = "check" /\ report' = core_data /\ UNCHANGED core_data
        BY <1>1 DEF CoreDataCheck
  <2>2. 0 \in core_data
        BY <2>1 DEF IInv, NoLostUpdate, Responded, Core
  <2>3. report = {}
        BY <2>1 DEF IInv, ReportsOnce
  <2> QED
      BY <2>1, <2>2, <2>3 DEF Abstract!Report
<1>2. CASE ~CoreDataCheck
      BY <1>2 DEF MainStep, ResetHandler, UnlockCore, UnlockDone, Main0Wait,
                  SpinWfe, SpinLoad, BranchToMain, Idle
<1> QED
    BY <1>1, <1>2

(* Every step is a step of CoreCheck or leaves its variables alone. *)
LEMMA StepImplements ==
  ASSUME IInv, [Next]_vars
  PROVE  [Abstract!Next]_(Abstract!vars)
<1> USE DEF Abstract!vars, Abstract!Next, dataVars
<1>1. CASE UNCHANGED vars
      BY <1>1 DEF vars, coreVars
<1>2. ASSUME NEW c \in Core, MainStep(c), UNCHANGED orVars
      PROVE  [Abstract!Next]_(Abstract!vars)
      BY <1>2, MainImplements
<1>3. ASSUME NEW c \in Core, StlxrOk(c)
      PROVE  Abstract!Respond(c)
  <2>1. pc[c] = "stlxr" /\ excl[c]
        BY <1>3 DEF StlxrOk, Goto
  <2>2. w2[c] = core_data
        BY <2>1 DEF IInv, MonitorsHold
  <2>3. c \notin core_data
        BY <2>1 DEF IInv, NoLostUpdate, Responded
  <2> QED
      BY <1>3, <2>2, <2>3 DEF StlxrOk, Abstract!Respond
<1>4. ASSUME NEW c \in Core, Ldset(c)
      PROVE  Abstract!Respond(c)
  <2>1. c \notin core_data
        BY <1>4 DEF Ldset, Goto, IInv, NoLostUpdate, Responded
  <2> QED
      BY <1>4, <2>1 DEF Ldset, Abstract!Respond
<1>5. ASSUME NEW c \in Core,
             \/ Ldaxr(c) \/ StlxrFail(c) \/ Wfe(c) \/ Sev(c)
             \/ LoseMonitor(c) \/ StrayEvent(c)
      PROVE  UNCHANGED dataVars
      BY <1>5 DEF Ldaxr, StlxrFail, Wfe, Sev, LoseMonitor, StrayEvent
<1>6. Core = Abstract!Core
      BY DEF Core, Abstract!Core
<1> QED
    BY <1>1, <1>2, <1>3, <1>4, <1>5, <1>6 DEF Next, CoreStep, HardwareStep

(* The start of the cores and atomic_or implement CoreCheck's one-step OR, *)
(* for every number of cores: the concurrent code behaves as if every core *)
(* ORed its bit at once.                                                   *)
THEOREM Implementation == SafeSpec => SafelyImplements
<1>1. Init => Abstract!Init
      BY DEF Init, CoreInit, Abstract!Init
<1>2. IInv /\ [Next]_vars => [Abstract!Next]_(Abstract!vars)
      BY StepImplements
<1> QED
    BY <1>1, <1>2, Invariant, PTL DEF SafeSpec, SafelyImplements, Abstract!SafeSpec

(* A bit of core_data that is set stays set. *)
THEOREM BitsKept == SafeSpec => BitsStay
<1>1. IInv /\ [Next]_vars => [core_data \subseteq core_data']_coreVars
  <2> SUFFICES ASSUME IInv, [Next]_vars
               PROVE  core_data \subseteq core_data'
      OBVIOUS
  <2>1. [Abstract!Next]_(Abstract!vars)
        BY StepImplements
  <2> QED
      BY <2>1 DEF Abstract!Next, Abstract!vars, Abstract!Report, Abstract!Respond
<1> QED
    BY <1>1, Invariant, PTL DEF SafeSpec, BitsStay
=============================================================================
