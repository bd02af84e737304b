-------------------------- MODULE AtomicOr32_proof --------------------------
(***************************************************************************)
(* What the run of AtomicOr32 checks for three cores, proved for any       *)
(* number of cores, any board and any number of monitors lost: the mutex   *)
(* of atomic_or excludes, the read-modify-write it protects loses nothing  *)
(* although the stores wait in buffers, and the whole implements CoreCheck.*)
(***************************************************************************)
EXTENDS AtomicOr32, TLAPS

USE BootAssumption, Or32Assumption

(* A core about to claim the mutex with its monitor still closed finds it  *)
(* free: any store to mutex since its ldrex would have opened the monitor. *)
MonitorsHold == \A c \in Core : pc[c] = "strexeq" /\ excl[c] => mutex = FREE

(* What may wait in a buffer: the store of *dst until the barrier before   *)
(* the release, and the release until any time after it.                   *)
BuffersInOrder ==
  /\ \A c \in Core : "dst" \in buf[c] => pc[c] = "release"
  /\ \A c \in Core : "mutex" \in buf[c] => pc[c] \in {"sev", "check", "demo", "idle"}

(* The value a core has computed and memory has not seen differs from what *)
(* memory holds by the core's own bit.                                     *)
ValuesFresh ==
  \A c \in Core : pc[c] = "store" \/ "dst" \in buf[c] => w[c] = core_data \union {c}

(* Core 0 prints once. *)
ReportsOnce == pc[0] # "demo" => report = {}

(* The part of the invariant that is about the mutex. *)
MutexInv == MutualExclusion /\ MonitorsHold /\ BuffersInOrder

(* The part that is about what the mutex protects. *)
DataInv == NoLostUpdate /\ ValuesFresh /\ ReportsOnce

IInv == TypeOK /\ MutexInv /\ DataInv

(* Whatever changes leaves the types alone. *)
LEMMA TypeStep == TypeOK /\ [Next]_vars => TypeOK'
<1> SUFFICES ASSUME TypeOK, [Next]_vars PROVE TypeOK'
    OBVIOUS
<1> USE DEF TypeOK, Core, Secondary, StubPc, MainPc, HolderPc, Goto, SendEvent,
            WaitEvent, AfterOr, WriteMutex, bootVars, releaseVars, dataVars,
            coreVars, orVars
<1>1. CASE UNCHANGED vars
      BY <1>1 DEF vars
<1>2. ASSUME NEW c \in Core, MainStep(c), UNCHANGED orVars
      PROVE  TypeOK'
  <2>1. CASE ResetHandler
        BY <2>1, <1>2 DEF ResetHandler
  <2>2. CASE UnlockCore
        BY <2>2, <1>2 DEF UnlockCore
  <2>3. CASE UnlockDone
        BY <2>3, <1>2 DEF UnlockDone
  <2>4. CASE Main0Wait
        BY <2>4, <1>2 DEF Main0Wait
  <2>5. CASE CoreDataCheck
        BY <2>5, <1>2 DEF CoreDataCheck
  <2>6. CASE SpinWfe(c)
        BY <2>6, <1>2 DEF SpinWfe
  <2>7. CASE SpinLoad(c)
        BY <2>7, <1>2 DEF SpinLoad
  <2>8. CASE BranchToMain(c)
        BY <2>8, <1>2 DEF BranchToMain
  <2>9. CASE Idle(c)
        BY <2>9, <1>2 DEF Idle
  <2> QED
      BY <2>1, <2>2, <2>3, <2>4, <2>5, <2>6, <2>7, <2>8, <2>9, <1>2 DEF MainStep
<1>3. ASSUME NEW c \in Core, Ldrex(c)
      PROVE  TypeOK'
      BY <1>3 DEF Ldrex
<1>4. ASSUME NEW c \in Core, Wfene(c)
      PROVE  TypeOK'
      BY <1>4 DEF Wfene
<1>5. ASSUME NEW c \in Core, StrexeqOk(c)
      PROVE  TypeOK'
      BY <1>5 DEF StrexeqOk
<1>6. ASSUME NEW c \in Core, StrexeqFail(c)
      PROVE  TypeOK'
      BY <1>6 DEF StrexeqFail
<1>7. ASSUME NEW c \in Core, Load(c)
      PROVE  TypeOK'
      BY <1>7 DEF Load
<1>8. ASSUME NEW c \in Core, Store(c)
      PROVE  TypeOK'
      BY <1>8 DEF Store
<1>9. ASSUME NEW c \in Core, Release(c)
      PROVE  TypeOK'
      BY <1>9 DEF Release
<1>10. ASSUME NEW c \in Core, Sev(c)
       PROVE  TypeOK'
       BY <1>10 DEF Sev
<1>11. ASSUME NEW c \in Core, DrainDst(c)
       PROVE  TypeOK'
       BY <1>11 DEF DrainDst
<1>12. ASSUME NEW c \in Core, DrainMutex(c)
       PROVE  TypeOK'
       BY <1>12 DEF DrainMutex
<1>13. ASSUME NEW c \in Core, LoseMonitor(c)
       PROVE  TypeOK'
       BY <1>13 DEF LoseMonitor
<1>14. ASSUME NEW c \in Core, StrayEvent(c), UNCHANGED orVars
       PROVE  TypeOK'
       BY <1>14 DEF StrayEvent
<1> QED
    BY <1>1, <1>2, <1>3, <1>4, <1>5, <1>6, <1>7, <1>8, <1>9, <1>10, <1>11, <1>12,
       <1>13, <1>14
    DEF Next, CoreStep, Drain, HardwareStep

-----------------------------------------------------------------------------
(* What a step outside atomic_or does: it moves cores between places where *)
(* they neither hold nor claim the mutex, and it leaves the data alone but *)
(* for core 0's report.                                                    *)
Outside == StubPc \union MainPc
Passed  == {"check", "demo", "idle"}

LEMMA MainMoves ==
  ASSUME TypeOK, NEW c \in Core, MainStep(c), UNCHANGED orVars
  PROVE  /\ \A d \in Core : \/ pc'[d] = pc[d]
                            \/ /\ {pc[d], pc'[d]} \subseteq Outside
                               /\ pc[d] \in Passed <=> pc'[d] \in Passed
         /\ \/ UNCHANGED dataVars /\ (pc'[0] = "demo" <=> pc[0] = "demo")
            \/ /\ pc[0] = "check" /\ pc'[0] = "demo"
               /\ report' = core_data /\ UNCHANGED core_data
<1> USE DEF TypeOK, Core, Secondary, StubPc, MainPc, Outside, Passed, Goto, AfterOr,
            bootVars, releaseVars, dataVars
<1>1. CASE ResetHandler
      BY <1>1 DEF ResetHandler
<1>2. CASE UnlockCore
      BY <1>2 DEF UnlockCore
<1>3. CASE UnlockDone
      BY <1>3 DEF UnlockDone
<1>4. CASE Main0Wait
      BY <1>4 DEF Main0Wait
<1>5. CASE CoreDataCheck
      BY <1>5 DEF CoreDataCheck
<1>6. CASE SpinWfe(c)
      BY <1>6 DEF SpinWfe
<1>7. CASE SpinLoad(c)
      BY <1>7 DEF SpinLoad
<1>8. CASE BranchToMain(c)
      BY <1>8 DEF BranchToMain
<1>9. CASE Idle(c)
      BY <1>9 DEF Idle
<1> QED
    BY <1>1, <1>2, <1>3, <1>4, <1>5, <1>6, <1>7, <1>8, <1>9 DEF MainStep

LEMMA MutexStep ==
  ASSUME TypeOK, MutexInv, [Next]_vars
  PROVE  MutexInv'
<1> USE DEF TypeOK, StubPc, MainPc, HolderPc, Goto, SendEvent, AfterOr, WriteMutex,
            bootVars, releaseVars, dataVars, orVars, MutexInv,
            MutualExclusion, Holds, MonitorsHold, BuffersInOrder
<1>0. 0 \in Core
      BY DEF Core
<1>1. CASE UNCHANGED vars
      BY <1>1 DEF vars, coreVars
<1>2. ASSUME NEW c \in Core, MainStep(c), UNCHANGED orVars
      PROVE  MutexInv'
  <2>1. \A d \in Core : \/ pc'[d] = pc[d]
                        \/ /\ {pc[d], pc'[d]} \subseteq Outside
                           /\ pc[d] \in Passed <=> pc'[d] \in Passed
        BY <1>2, MainMoves
  <2> QED
      BY <1>2, <2>1 DEF Outside, Passed
<1>3. ASSUME NEW c \in Core, Ldrex(c)
      PROVE  MutexInv'
      BY <1>3 DEF Ldrex
<1>4. ASSUME NEW c \in Core, Wfene(c)
      PROVE  MutexInv'
      BY <1>4 DEF Wfene
<1>5. ASSUME NEW c \in Core, StrexeqOk(c)
      PROVE  MutexInv'
      BY <1>5 DEF StrexeqOk
<1>6. ASSUME NEW c \in Core, StrexeqFail(c)
      PROVE  MutexInv'
      BY <1>6 DEF StrexeqFail
<1>7. ASSUME NEW c \in Core, Load(c)
      PROVE  MutexInv'
      BY <1>7 DEF Load
<1>8. ASSUME NEW c \in Core, Store(c)
      PROVE  MutexInv'
      BY <1>8 DEF Store
<1>9. ASSUME NEW c \in Core, Release(c)
      PROVE  MutexInv'
      BY <1>9 DEF Release
<1>10. ASSUME NEW c \in Core, Sev(c)
       PROVE  MutexInv'
       BY <1>10 DEF Sev
<1>11. ASSUME NEW c \in Core, DrainDst(c)
       PROVE  MutexInv'
       BY <1>11 DEF DrainDst
<1>12. ASSUME NEW c \in Core, DrainMutex(c)
       PROVE  MutexInv'
       BY <1>12 DEF DrainMutex
<1>13. ASSUME NEW c \in Core, LoseMonitor(c)
       PROVE  MutexInv'
       BY <1>13 DEF LoseMonitor
<1>14. ASSUME NEW c \in Core, StrayEvent(c), UNCHANGED orVars
       PROVE  MutexInv'
       BY <1>14 DEF StrayEvent
<1> QED
    BY <1>1, <1>2, <1>3, <1>4, <1>5, <1>6, <1>7, <1>8, <1>9, <1>10, <1>11, <1>12,
       <1>13, <1>14
    DEF Next, CoreStep, Drain, HardwareStep

LEMMA DataStep ==
  ASSUME TypeOK, MutexInv, DataInv, [Next]_vars
  PROVE  DataInv'
<1> USE DEF TypeOK, StubPc, MainPc, HolderPc, Goto, SendEvent, AfterOr, WriteMutex,
            bootVars, releaseVars, dataVars, orVars, DataInv,
            NoLostUpdate, ValuesFresh, ReportsOnce
<1>0. 0 \in Core
      BY DEF Core
<1>1. CASE UNCHANGED vars
      BY <1>1 DEF vars, coreVars
<1>2. ASSUME NEW c \in Core, MainStep(c), UNCHANGED orVars
      PROVE  DataInv'
  <2>1. \A d \in Core : \/ pc'[d] = pc[d]
                        \/ /\ {pc[d], pc'[d]} \subseteq Outside
                           /\ pc[d] \in Passed <=> pc'[d] \in Passed
        BY <1>2, MainMoves
  <2>2. \/ UNCHANGED dataVars /\ (pc'[0] = "demo" <=> pc[0] = "demo")
        \/ /\ pc[0] = "check" /\ pc'[0] = "demo"
           /\ report' = core_data /\ UNCHANGED core_data
        BY <1>2, MainMoves
  <2> QED
      BY <1>2, <2>1, <2>2 DEF Outside, Passed
<1>3. ASSUME NEW c \in Core, Ldrex(c)
      PROVE  DataInv'
      BY <1>0, <1>3 DEF Ldrex
<1>4. ASSUME NEW c \in Core, Wfene(c)
      PROVE  DataInv'
      BY <1>0, <1>4 DEF Wfene
<1>5. ASSUME NEW c \in Core, StrexeqOk(c)
      PROVE  DataInv'
      BY <1>0, <1>5 DEF StrexeqOk
<1>6. ASSUME NEW c \in Core, StrexeqFail(c)
      PROVE  DataInv'
      BY <1>0, <1>6 DEF StrexeqFail
<1>7. ASSUME NEW c \in Core, Load(c)
      PROVE  DataInv'
      BY <1>0, <1>7 DEF Load
<1>8. ASSUME NEW c \in Core, Store(c)
      PROVE  DataInv'
      BY <1>0, <1>8 DEF Store
<1>9. ASSUME NEW c \in Core, Release(c)
      PROVE  DataInv'
      BY <1>0, <1>9 DEF Release
<1>10. ASSUME NEW c \in Core, Sev(c)
       PROVE  DataInv'
       BY <1>0, <1>10 DEF Sev
<1>11. ASSUME NEW c \in Core, DrainDst(c)
       PROVE  DataInv'
  <2>1. pc[c] = "release" /\ w[c] = core_data \union {c}
        BY <1>11 DEF DrainDst, MutexInv, BuffersInOrder
  <2>2. \A d \in Core : pc[d] \in HolderPc => d = c
        BY <2>1 DEF MutexInv, MutualExclusion, Holds
  <2>3. \A d \in Core : "dst" \in buf[d] => d = c
        BY <2>2 DEF MutexInv, BuffersInOrder
  <2> QED
      BY <1>0, <1>11, <2>1, <2>2, <2>3 DEF DrainDst
<1>12. ASSUME NEW c \in Core, DrainMutex(c)
       PROVE  DataInv'
       BY <1>0, <1>12 DEF DrainMutex
<1>13. ASSUME NEW c \in Core, LoseMonitor(c)
       PROVE  DataInv'
       BY <1>0, <1>13 DEF LoseMonitor
<1>14. ASSUME NEW c \in Core, StrayEvent(c), UNCHANGED orVars
       PROVE  DataInv'
       BY <1>0, <1>14 DEF StrayEvent
<1> QED
    BY <1>1, <1>2, <1>3, <1>4, <1>5, <1>6, <1>7, <1>8, <1>9, <1>10, <1>11, <1>12,
       <1>13, <1>14
    DEF Next, CoreStep, Drain, HardwareStep

-----------------------------------------------------------------------------
LEMMA InitInv == Init => IInv
<1> SUFFICES ASSUME Init PROVE IInv
    OBVIOUS
<1> USE DEF Init, CoreInit, Core, Secondary
<1>1. TypeOK
  <2>1. pc \in [Core -> StubPc \union MainPc \union HolderPc
                                \union {"wfene", "strexeq", "sev"}]
        BY DEF StubPc, MainPc
  <2>2. slot \in [Secondary -> BOOLEAN] /\ event \in [Core -> BOOLEAN]
        OBVIOUS
  <2>3. w \in [Core -> SUBSET Core] /\ excl \in [Core -> BOOLEAN]
        OBVIOUS
  <2>4. buf \in [Core -> SUBSET {"dst", "mutex"}] /\ mutex \in {FREE, TAKEN}
        OBVIOUS
  <2>5. next \in 1 .. N + 1 /\ losses \in 0 .. MaxLosses
        OBVIOUS
  <2> QED
      BY <2>1, <2>2, <2>3, <2>4, <2>5 DEF TypeOK
<1>2. MutexInv
      BY DEF MutexInv, MutualExclusion, Holds, HolderPc, MonitorsHold, BuffersInOrder
<1>3. DataInv
      BY DEF DataInv, NoLostUpdate, ValuesFresh, ReportsOnce
<1> QED
    BY <1>1, <1>2, <1>3 DEF IInv

LEMMA InvStep == IInv /\ [Next]_vars => IInv'
  BY TypeStep, MutexStep, DataStep DEF IInv

(* The invariant from which the properties follow. *)
THEOREM Invariant == SafeSpec => []IInv
<1>1. Init => IInv
      BY InitInv
<1>2. IInv /\ [Next]_vars => IInv'
      BY InvStep
<1> QED
    BY <1>1, <1>2, PTL DEF SafeSpec

(* Every variable of AtomicOr32 keeps its type, for every N. *)
THEOREM TypeCorrect == SafeSpec => []TypeOK
<1>1. IInv => TypeOK
      BY DEF IInv
<1> QED
    BY <1>1, Invariant, PTL

(* However many cores compete and monitors are lost, no two of them are    *)
(* between claim and release, and the mutex is taken exactly as long as    *)
(* one is, its release on the way to memory included.                      *)
THEOREM MutexExcludes == SafeSpec => []MutualExclusion
<1>1. IInv => MutualExclusion
      BY DEF IInv, MutexInv
<1> QED
    BY <1>1, Invariant, PTL

(* No core's bit is lost, although the store of *dst is a plain one and    *)
(* waits in a buffer.                                                      *)
THEOREM UpdatesKept == SafeSpec => []NoLostUpdate
<1>1. IInv => NoLostUpdate
      BY DEF IInv, DataInv
<1> QED
    BY <1>1, Invariant, PTL

-----------------------------------------------------------------------------
(* Memory sees the store of *dst: CoreCheck's one-step OR. *)
LEMMA DrainImplements ==
  ASSUME IInv, NEW c \in Core, DrainDst(c)
  PROVE  Abstract!Respond(c)
<1>1. w[c] = core_data \union {c}
      BY DEF DrainDst, IInv, DataInv, ValuesFresh
<1>2. c \notin core_data
      BY DEF DrainDst, IInv, DataInv, NoLostUpdate
<1> QED
    BY <1>1, <1>2 DEF DrainDst, Abstract!Respond

(* Every step is a step of CoreCheck or leaves its variables alone. *)
LEMMA StepImplements ==
  ASSUME IInv, [Next]_vars
  PROVE  [Abstract!Next]_(Abstract!vars)
<1> USE DEF Abstract!vars, Abstract!Next, dataVars
<1>1. CASE UNCHANGED vars
      BY <1>1 DEF vars, coreVars
<1>2. ASSUME NEW c \in Core, MainStep(c), UNCHANGED orVars
      PROVE  Abstract!Report \/ UNCHANGED dataVars
  <2>1. \/ UNCHANGED dataVars
        \/ /\ pc[0] = "check" /\ report' = core_data /\ UNCHANGED core_data
        BY <1>2, MainMoves DEF IInv
  <2>2. ASSUME pc[0] = "check"
        PROVE  0 \in core_data /\ report = {}
    <3>1. 0 \in Core /\ "dst" \notin buf[0]
          BY <2>2 DEF Core, IInv, MutexInv, BuffersInOrder
    <3> QED
        BY <2>2, <3>1 DEF IInv, DataInv, NoLostUpdate, ReportsOnce
  <2> QED
      BY <2>1, <2>2 DEF Abstract!Report
<1>3. ASSUME NEW c \in Core, DrainDst(c)
      PROVE  Abstract!Respond(c)
      BY <1>3, DrainImplements
<1>4. ASSUME NEW c \in Core,
             \/ Ldrex(c) \/ Wfene(c) \/ StrexeqOk(c) \/ StrexeqFail(c)
             \/ Load(c) \/ Store(c) \/ Release(c) \/ Sev(c)
             \/ DrainMutex(c) \/ LoseMonitor(c) \/ StrayEvent(c)
      PROVE  UNCHANGED dataVars
      BY <1>4 DEF Ldrex, Wfene, StrexeqOk, StrexeqFail, Load, Store, Release, Sev,
                  DrainMutex, LoseMonitor, StrayEvent
<1>5. Core = Abstract!Core
      BY DEF Core, Abstract!Core
<1> QED
    BY <1>1, <1>2, <1>3, <1>4, <1>5 DEF Next, CoreStep, Drain, HardwareStep

(* The mutex and what it protects implement CoreCheck's one-step OR, for   *)
(* every number of cores: the OR happens when memory sees the store.       *)
THEOREM Implementation == SafeSpec => SafelyImplements
<1>1. Init => Abstract!Init
      BY DEF Init, CoreInit, Abstract!Init
<1>2. IInv /\ [Next]_vars => [Abstract!Next]_(Abstract!vars)
      BY StepImplements
<1> QED
    BY <1>1, <1>2, Invariant, PTL DEF SafeSpec, SafelyImplements, Abstract!SafeSpec

(* A bit of core_data that is set stays set. *)
THEOREM BitsKept == SafeSpec => BitsStay
<1>1. IInv /\ [Next]_vars => [core_data \subseteq core_data']_coreVars
  <2> SUFFICES ASSUME IInv, [Next]_vars
               PROVE  core_data \subseteq core_data'
      OBVIOUS
  <2>1. [Abstract!Next]_(Abstract!vars)
        BY StepImplements
  <2> QED
      BY <2>1 DEF Abstract!Next, Abstract!vars, Abstract!Report, Abstract!Respond
<1> QED
    BY <1>1, Invariant, PTL DEF SafeSpec, BitsStay
=============================================================================
