-------------------------------- MODULE Vpu --------------------------------
(***************************************************************************)
(* vpu_execute_code_with_stack (drivers/bcm2835/vpu.c), with the           *)
(* vpu_malloc, vpu_execute_code and vpu_free it is made of: a block of the *)
(* firmware's memory is allocated and locked, the VPU runs code with it as *)
(* its stack, and it is unlocked and freed.  Each step is one              *)
(* mailbox_request (module Mailbox), which the firmware may refuse: it     *)
(* then returns false and has no effect.  An allocation may also be        *)
(* answered with handle 0, when the firmware has no memory left.  What it  *)
(* does with a block freed while it is locked is not known: it refuses, or *)
(* drops the lock, or leaves the block where it is.                        *)
(***************************************************************************)
EXTENDS Integers, FiniteSets

CONSTANTS
  Handles,      \* the handles the firmware gives out
  MaxExecutions \* bound on the calls

ASSUME VpuAssumption == Handles \subseteq Nat \ {0} /\ MaxExecutions \in Nat

VARIABLES
  held, locked, \* the firmware's blocks: allocated, and locked in place;
                \* a block freed may still be locked
  vpu_pc,       \* the request vpu_execute_code_with_stack makes next
  mem_handle, mem_ptr,  \* the fields of mem
  stack,        \* the block this call was given, 0 if none
  vpu_result,   \* what the last call returned
  executions, failures, \* the calls so far, and those that did not return 0
  refusals      \* the unlocks refused

vpuVars == <<held, locked, vpu_pc, mem_handle, mem_ptr, stack, vpu_result,
             executions, failures, refusals>>

INVALID == -1   \* MEM_HANDLE_INVALID
NULL    == 0
ADDRESS == 1    \* an address that is not NULL

VpuTypeOK ==
  /\ held \subseteq Handles /\ locked \subseteq Handles
  /\ vpu_pc \in {"idle", "allocate", "lock", "execute", "unlock", "free", "give_up"}
  /\ mem_handle \in Handles \union {0, INVALID} /\ mem_ptr \in {NULL, ADDRESS}
  /\ stack \in Handles \union {0}
  /\ vpu_result \in 0 .. 3
  /\ executions \in 0 .. MaxExecutions /\ failures \in 0 .. executions
  /\ refusals \in 0 .. executions

VpuInit ==
  /\ held = {} /\ locked = {}
  /\ vpu_pc = "idle" /\ mem_handle = INVALID /\ mem_ptr = NULL /\ stack = 0
  /\ vpu_result = 0 /\ executions = 0 /\ failures = 0 /\ refusals = 0

(* vpu_execute_code_with_stack is called: mem is not initialised. *)
ExecuteWithStack ==
  /\ vpu_pc = "idle" /\ executions < MaxExecutions
  /\ vpu_pc' = "allocate" /\ executions' = executions + 1
  /\ stack' = 0 /\ mem_handle' = INVALID
  /\ mem_ptr' \in {NULL, ADDRESS}
  /\ UNCHANGED <<held, locked, vpu_result, failures, refusals>>

VpuReturn(r) ==
  /\ vpu_pc' = "idle" /\ vpu_result' = r
  /\ failures' = IF r = 0 THEN failures ELSE failures + 1

Continue(to) == vpu_pc' = to /\ UNCHANGED <<vpu_result, failures>>

(* vpu_malloc, step 1. *)
Allocate ==
  /\ vpu_pc = "allocate"
  /\ \/ \E h \in Handles \ (held \union locked) :
          /\ held' = held \union {h} /\ stack' = h /\ mem_handle' = h
          /\ Continue("lock")
     \/ /\ mem_handle' = 0
        /\ Continue("lock")
        /\ UNCHANGED <<held, stack>>
     \/ /\ VpuReturn(1)
        /\ UNCHANGED <<held, stack, mem_handle>>
  /\ UNCHANGED <<locked, mem_ptr, executions, refusals>>

(* Fault: the stack is used whether or not it could be locked. *)
LockUnchecked ==
  /\ vpu_pc = "lock"
  /\ \/ locked' = locked \union ({mem_handle} \intersect held)
     \/ UNCHANGED locked
  /\ mem_ptr' = ADDRESS /\ Continue("execute")
  /\ UNCHANGED <<held, mem_handle, stack, executions, refusals>>

(* vpu_malloc, step 2.  When the lock is refused, the handle is overwritten*)
(* before vpu_free gets it, and mem.ptr was never written.  When it is     *)
(* answered with the address 0, the caller takes it for a failure.         *)
Lock ==
  /\ vpu_pc = "lock"
  /\ \/ /\ mem_handle \in held
        /\ locked' = locked \union {mem_handle} /\ mem_ptr' = ADDRESS
        /\ Continue("execute")
        /\ UNCHANGED mem_handle
     \/ /\ mem_handle' = INVALID
        /\ Continue("give_up")
        /\ UNCHANGED <<locked, mem_ptr>>
     \/ /\ mem_ptr' = NULL /\ VpuReturn(1)
        /\ UNCHANGED <<mem_handle, locked>>
  /\ UNCHANGED <<held, stack, executions, refusals>>

(* The request to free mem.handle is granted. *)
FreeMemory ==
  /\ held' = held \ {mem_handle}
  /\ locked' \in {locked, locked \ {mem_handle}}

(* vpu_free of that mem: nothing to unlock, and if what mem.ptr happens to *)
(* be is not NULL, a request to free the invalid handle.  vpu_malloc       *)
(* returns VPU_MEM_EMPTY whatever comes of it.                             *)
GiveUp ==
  /\ vpu_pc = "give_up" /\ VpuReturn(1)
  /\ \/ mem_ptr # NULL /\ FreeMemory
     \/ UNCHANGED <<held, locked>>
  /\ UNCHANGED <<mem_handle, mem_ptr, stack, executions, refusals>>

(* vpu_execute_code *)
Execute ==
  /\ vpu_pc = "execute"
  /\ Continue("unlock") \/ VpuReturn(2)
  /\ UNCHANGED <<held, locked, mem_handle, mem_ptr, stack, executions, refusals>>

(* vpu_free, step 1, whose result is not looked at. *)
Unlock ==
  /\ vpu_pc = "unlock" /\ Continue("free")
  /\ \/ locked' = locked \ {mem_handle} /\ UNCHANGED refusals
     \/ refusals' = refusals + 1 /\ UNCHANGED locked
  /\ UNCHANGED <<held, mem_handle, mem_ptr, stack, executions>>

(* Fault: the result of the request is not looked at. *)
FreeUnchecked ==
  /\ vpu_pc = "free" /\ VpuReturn(0)
  /\ FreeMemory \/ UNCHANGED <<held, locked>>
  /\ UNCHANGED <<mem_handle, mem_ptr, stack, executions, refusals>>

(* vpu_free, step 2. *)
Free ==
  /\ vpu_pc = "free"
  /\ \/ FreeMemory /\ VpuReturn(0)
     \/ VpuReturn(3) /\ UNCHANGED <<held, locked>>
  /\ UNCHANGED <<mem_handle, mem_ptr, stack, executions, refusals>>

VpuNext ==
  ExecuteWithStack \/ Allocate \/ Lock \/ GiveUp \/ Execute \/ Unlock \/ Free

VpuSpec == VpuInit /\ [][VpuNext]_vpuVars

-----------------------------------------------------------------------------
(* The VPU runs on a stack that is this call's own, and locked in place. *)
RunsOnItsStack ==
  vpu_pc = "execute" => mem_handle = stack /\ mem_handle \in locked

(* Every block still held is the stack of a call that failed: a failure    *)
(* leaks one block at most, and a call that returns 0 none; and a block    *)
(* that was freed but stays locked is one whose unlock was refused.        *)
LeaksAreFailures ==
  LET called == IF vpu_pc = "idle" THEN 0 ELSE 1
  IN  /\ Cardinality(held) <= failures + called
      /\ Cardinality(held \union locked) <= failures + refusals + called
=============================================================================
