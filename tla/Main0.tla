------------------------------- MODULE Main0 -------------------------------
(***************************************************************************)
(* main0 (app-common/main.c) on core 0, with the serial line of Uart and   *)
(* the demonstration of Screen, while any core, 0 included, may take an    *)
(* exception and report it on the same line.                               *)
(***************************************************************************)
EXTENDS Uart, Screen

vars == <<uartVars, screenVars>>

Init == UartInit /\ ScreenInit

(* uart_print("Hello world!\r\n"); systimer_wait_us, atomic_or and the     *)
(* check take any amount of time; uart_print("Core check: ?\r\n").         *)
Hello == BeginText(0, "hello", "wait")
Check == BeginText(0, "wait", "fb")

(* app_screen_demo: uart_print_hex(fb_init(&fb, WIDTH, HEIGHT)). *)
FbInit ==
  /\ BeginText(0, "fb", "demo")
  /\ FbInitFails \/ \E m \in Modes : FbInitOk(m)

Demo == pc[0] = "demo" /\ ScreenStep /\ UNCHANGED uartVars

CoreStep(c) ==
  \/ (UartStep(c) \/ (c = 0 /\ (Hello \/ Check))) /\ UNCHANGED screenVars
  \/ c = 0 /\ (FbInit \/ Demo)

Next ==
  \/ \E c \in Cores : CoreStep(c) \/ (Exception(c) /\ UNCHANGED screenVars)
  \/ Transmit /\ UNCHANGED screenVars

(* Every core executes its own instructions, and the UART sends what its   *)
(* FIFO holds.                                                             *)
Spec ==
  /\ Init /\ [][Next]_vars
  /\ \A c \in Cores : WF_vars(CoreStep(c))
  /\ WF_vars(Transmit /\ UNCHANGED screenVars)

-----------------------------------------------------------------------------
TypeOK ==
  /\ pc \in [Cores -> {"run", "select", "set", "off", "on", "hello", "test", "put", "wait",
                       "fb", "demo", "huart_pins", "huart_off", "huart_on", "huart_read",
                       "huart_enable", "report", "halt"}]
  /\ UartTypeOK /\ ScreenTypeOK

(* Core c waits for room in a full FIFO, and two overlapping set-ups have  *)
(* left the transmitter off: the last write of huart_init is that of a     *)
(* value it read before the other core turned the UART off.                *)
LeftOff(c) == overlap /\ pc[c] = "test" /\ fifo = Capacity /\ ~({UARTEN, TXE} \subseteq cr)

(* Every text ends, or waits for ever on a transmitter left off; nothing   *)
(* else keeps a core from the room it waits for.                           *)
PrintEnds == \A c \in Cores : Printing(c) ~> ~Printing(c) \/ []LeftOff(c)
=============================================================================
