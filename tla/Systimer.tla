------------------------------ MODULE Systimer ------------------------------
(***************************************************************************)
(* The system timer (drivers/bcm2835/systimer.c): a free-running counter   *)
(* of microseconds, read as two registers of half its width, the low one   *)
(* first and nothing to tie the two reads together; and systimer_wait_us,  *)
(* which spins until a reading reaches the first reading plus us.          *)
(* K is 2^32 in the hardware: the low register rolls over every 71         *)
(* minutes.  A reading is torn when the rollover falls between its reads.  *)
(***************************************************************************)
EXTENDS Integers

CONSTANTS
  K,            \* the period of the low register
  Waits,        \* the arguments systimer_wait_us may be called with
  MaxCount      \* bound on the counter

ASSUME SystimerAssumption == K \in Nat \ {0} /\ Waits \subseteq Nat /\ MaxCount \in Nat

VARIABLES
  count,        \* the counter of the hardware
  timer_pc,     \* "idle", or where systimer_wait_us is
  us,           \* its argument
  lo,           \* the low half systimer_getticks has read
  ticks,        \* the last value systimer_getticks returned
  tend,         \* tend, or Unset before the first reading
  began,        \* count when systimer_wait_us was called
  at,           \* count when the low half was read
  torn          \* a reading of this call was torn

timerVars == <<count, timer_pc, us, lo, ticks, tend, began, at, torn>>

Unset == -1

TimerTypeOK ==
  /\ count \in Nat
  /\ timer_pc \in {"idle", "lo", "hi", "use"}
  /\ us \in Nat /\ lo \in 0 .. K - 1 /\ ticks \in Nat
  /\ tend \in Nat \union {Unset}
  /\ began \in Nat /\ at \in Nat
  /\ torn \in BOOLEAN

(* The firmware has been counting since it started. *)
TimerInit ==
  /\ count \in 0 .. K
  /\ timer_pc = "idle"
  /\ us = 0 /\ lo = 0 /\ ticks = 0 /\ tend = Unset
  /\ began = 0 /\ at = 0 /\ torn = FALSE

(* The counter runs, and the two reads are less than K ticks apart. *)
Tick ==
  /\ count < MaxCount
  /\ timer_pc = "hi" => count + 1 - at < K
  /\ count' = count + 1
  /\ UNCHANGED <<timer_pc, us, lo, ticks, tend, began, at, torn>>

(* systimer_wait_us(u). *)
WaitUs(u) ==
  /\ timer_pc = "idle"
  /\ timer_pc' = "lo" /\ us' = u /\ began' = count
  /\ tend' = Unset /\ torn' = FALSE
  /\ UNCHANGED <<count, lo, ticks, at>>

ReadLo ==
  /\ timer_pc = "lo" /\ timer_pc' = "hi"
  /\ lo' = count % K /\ at' = count
  /\ UNCHANGED <<count, us, ticks, tend, began, torn>>

(* Fault: the shift of the high half is lost with its cast to uint64_t. *)
JoinLowOnly(h, l) == h + l

(* (hi << 32) | lo *)
Join(h, l) == h * K + l

ReadHi ==
  /\ timer_pc = "hi" /\ timer_pc' = "use"
  /\ ticks' = Join(count \div K, lo)
  /\ torn' = (torn \/ count \div K # at \div K)
  /\ UNCHANGED <<count, us, lo, tend, began, at>>

(* tend = systimer_getticks() + us *)
Deadline ==
  /\ timer_pc = "use" /\ timer_pc' = "lo"
  /\ tend = Unset /\ tend' = ticks + us
  /\ UNCHANGED <<count, us, lo, ticks, began, at, torn>>

(* Faults: one tick too early; until the reading is exactly tend. *)
AlmostThere == ticks + 1 >= tend
ExactlyThere == ticks = tend

(* The negation of the condition of the loop. *)
Reached == ticks >= tend

Again ==
  /\ timer_pc = "use" /\ tend # Unset /\ ~Reached
  /\ timer_pc' = "lo"
  /\ UNCHANGED <<count, us, lo, ticks, tend, began, at, torn>>

WaitReturns ==
  /\ timer_pc = "use" /\ tend # Unset /\ Reached
  /\ timer_pc' = "idle"
  /\ UNCHANGED <<count, us, lo, ticks, tend, began, at, torn>>

WaitStep == ReadLo \/ ReadHi \/ Deadline \/ Again \/ WaitReturns

TimerNext == Tick \/ WaitStep \/ \E u \in Waits : WaitUs(u)

TimerSafeSpec == TimerInit /\ [][TimerNext]_timerVars

(* The counter never stops, and the core executes its loop. *)
TimerSpec == TimerSafeSpec /\ WF_timerVars(Tick) /\ WF_timerVars(WaitStep)

-----------------------------------------------------------------------------
(* A reading is the count at the moment the low half was read, or, when    *)
(* the low register rolled over before the high half was read, exactly K   *)
(* more: nothing in between, and never less (systimer_getticks).           *)
ReadingIsNear ==
  timer_pc = "use" => \/ ticks = at
                      \/ ticks = at + K /\ torn

(* systimer_wait_us(us) returns after us ticks or more; only when its last *)
(* reading is torn, whatever the ones before, is it too early, and then by *)
(* one period of the low register at most.                                 *)
WaitsLongEnough ==
  [][WaitReturns => count - began >= IF ticks = at THEN us ELSE us - K]_timerVars

(* Every wait ends, whatever its readings were: a reading never falls      *)
(* behind the counter, so the loop cannot step over its deadline (the      *)
(* waits whose deadline is beyond the bound of the counter excepted).      *)
WaitEnds == timer_pc # "idle" ~> timer_pc = "idle" \/ tend > MaxCount

(* The deadline leaves the caller its us ticks, and unless the reading it  *)
(* comes from was torn, it is at most us ticks after that reading.         *)
DeadlineIsNear ==
  tend # Unset => began + us <= tend /\ (torn \/ tend <= at + us)
=============================================================================
