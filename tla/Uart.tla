-------------------------------- MODULE Uart --------------------------------
(***************************************************************************)
(* The serial line and the pins it uses, as every core may drive them:     *)
(* core 0 through gpio.c and uart.c, and a core that takes an exception    *)
(* through huart.c, which sets everything up again (basic_exception_handler*)
(* in start.s).  Nothing protects the registers.                           *)
(*                                                                         *)
(* A character is what takes a place in the TX FIFO.  The baud rate and    *)
(* the line settings are the same in both drivers, and the resistors of    *)
(* the pins do not matter here.                                            *)
(***************************************************************************)
EXTENDS Integers, FiniteSets

CONSTANTS
  Cores,            \* the cores, of which 0 runs main0
  Boards,           \* the boards, as in the makefile (RPI=...)
  Capacity,         \* the characters the TX FIFO holds
  TextLength,       \* the characters of a text
  MaxExceptions     \* bound on the exceptions

ASSUME UartAssumption ==
  /\ 0 \in Cores /\ Cores \subseteq Nat /\ Boards \subseteq Nat
  /\ {Capacity, TextLength} \subseteq Nat \ {0} /\ MaxExceptions \in Nat

VARIABLES
  rpi,          \* the board, chosen for ever by Init
  pc,           \* where each core is
  trap,         \* the cores that have taken an exception
  text,         \* what each core has still to print, and what it does then
  pin,          \* the pin core 0 sets up
  gpfsel,       \* what gpio_select_function read
  fn,           \* the function of each pin, as a set of bits
  cr, crRead,   \* the UART's CR, and what each core read in it
  fifo,         \* the characters in the TX FIFO
  raced,        \* the cores about to write that another has overtaken
  overlap       \* a core began to set the UART up before another was done

pinVars  == <<pin, gpfsel, fn>>
crVars   == <<cr, crRead, overlap>>
fifoVars == <<fifo, raced>>
coreVars == <<rpi, trap, text>>
uartVars == <<pc, coreVars, pinVars, crVars, fifoVars>>

GPIO_TX == 14
GPIO_RX == 15
GPIO_TEST == 26
Pins == {GPIO_TX, GPIO_RX, GPIO_TEST}
Bank(p) == {q \in Pins : q \div 10 = p \div 10}     \* the pins of GPFSEL<p/10>

GPIO_FUNC == {2}                                \* ALT0 on BCM2835, ALT4 on RP1
TestFunc  == IF rpi < 5 THEN {} ELSE {0, 1, 2}  \* GPIO_INPUT, GPIO_PIO

UARTEN == 0
TXE    == 8
RXE    == 9

SettingUp(c) == \/ c = 0 /\ pc[0] \in {"select", "set"} /\ pin # GPIO_TEST
                \/ pc[c] \in {"on", "huart_on", "huart_read", "huart_enable"}
Printing(c) == pc[c] \in {"test", "put"}

Goto(c, from, to) == pc[c] = from /\ pc' = [pc EXCEPT ![c] = to]

UartInit ==
  /\ rpi \in Boards
  /\ pc = [c \in Cores |-> IF c = 0 THEN "select" ELSE "run"]
  /\ trap = {} /\ text = [c \in Cores |-> [left |-> 0, then |-> "run"]]
  /\ pin = GPIO_TEST /\ gpfsel = [q \in {} |-> {}]
  /\ fn = [q \in Pins |-> IF rpi < 5 THEN {} ELSE 0 .. 4]
  /\ cr = {} /\ crRead = [c \in Cores |-> {}]
  /\ fifo = 0 /\ raced = {} /\ overlap = FALSE

(* Fault: the other pins of the register are not read. *)
SelectAlone ==
  /\ Goto(0, "select", "set")
  /\ gpfsel' = [q \in Bank(pin) |-> {}]
  /\ fn' = IF rpi < 5 THEN fn ELSE [fn EXCEPT ![pin] = {}]
  /\ UNCHANGED <<coreVars, pin, crVars, fifoVars>>

(* gpio_select_function: a register of ten pins is read, or the field of   *)
(* the pin is cleared, ...                                                 *)
Select ==
  /\ Goto(0, "select", "set")
  /\ gpfsel' = [q \in Bank(pin) |-> fn[q]]
  /\ fn' = IF rpi < 5 THEN fn ELSE [fn EXCEPT ![pin] = {}]
  /\ UNCHANGED <<coreVars, pin, crVars, fifoVars>>

(* ... and the register is written, or the bits of the field are set.      *)
Set ==
  LET f == IF pin = GPIO_TEST THEN TestFunc ELSE GPIO_FUNC
  IN  /\ Goto(0, "set", IF pin = GPIO_TEST THEN "off"
                          ELSE IF pin = GPIO_TX THEN "select" ELSE "on")
      /\ pin' = IF pin = GPIO_TX THEN GPIO_RX ELSE pin
      /\ fn' = IF rpi < 5 THEN [q \in Pins |-> IF q = pin THEN f
                                               ELSE IF q \in Bank(pin) THEN gpfsel[q]
                                               ELSE fn[q]]
               ELSE [fn EXCEPT ![pin] = @ \union f]
      /\ gpfsel' = [q \in {} |-> {}]
      /\ UNCHANGED <<coreVars, crVars, fifoVars>>

(* A core begins to set the UART up: CR = 0. *)
TurnOff(c) ==
  /\ cr' = {}
  /\ overlap' = (overlap \/ \E d \in Cores \ {c} : SettingUp(d))
  /\ UNCHANGED <<coreVars, crRead, fifoVars>>

TurnOn(bits) ==
  /\ cr' = bits
  /\ UNCHANGED <<coreVars, pinVars, crRead, overlap, fifoVars>>

(* uart_init_1415: CR = 0, then the pins, then CR = 0x301. *)
InitOff == Goto(0, "off", "select") /\ TurnOff(0) /\ pin' = GPIO_TX /\ UNCHANGED <<gpfsel, fn>>
InitOn  == Goto(0, "on", "hello") /\ TurnOn({UARTEN, TXE, RXE})

(* uart_print, puts_nonewline: core c begins a text. *)
BeginText(c, from, then) ==
  /\ Goto(c, from, "test")
  /\ text' = [text EXCEPT ![c] = [left |-> TextLength, then |-> then]]
  /\ UNCHANGED <<rpi, trap, pinVars, crVars, fifoVars>>

(* Fault: no look at FR. *)
PutAtOnce(c) ==
  /\ Goto(c, "test", "put") /\ raced' = raced \ {c}
  /\ UNCHANGED <<coreVars, pinVars, crVars, fifo>>

(* uart_putc, putc: the FIFO has room in FR, ... *)
Test(c) ==
  /\ Goto(c, "test", "put") /\ fifo < Capacity /\ raced' = raced \ {c}
  /\ UNCHANGED <<coreVars, pinVars, crVars, fifo>>

(* ... and the character is written in DR, room or not. *)
Put(c) ==
  /\ Goto(c, "put", IF text[c].left > 1 THEN "test" ELSE text[c].then)
  /\ text' = [text EXCEPT ![c].left = @ - 1]
  /\ fifo' = IF fifo < Capacity THEN fifo + 1 ELSE fifo
  /\ raced' = {d \in Cores \ {c} : pc[d] = "put"}
  /\ UNCHANGED <<rpi, trap, pinVars, crVars>>

(* A core takes an exception, from which it does not return. *)
Exception(c) ==
  /\ c \notin trap /\ Cardinality(trap) < MaxExceptions
  /\ trap' = trap \union {c}
  /\ pc' = [pc EXCEPT ![c] = "huart_pins"]
  /\ UNCHANGED <<rpi, text, pinVars, crVars, fifoVars>>

(* huart_init: both pins, with the others of their register; then CR.      *)
HuartPins(c) ==
  /\ Goto(c, "huart_pins", "huart_off")
  /\ fn' = [fn EXCEPT ![GPIO_TX] = GPIO_FUNC, ![GPIO_RX] = GPIO_FUNC]
  /\ UNCHANGED <<coreVars, pin, gpfsel, crVars, fifoVars>>

HuartOff(c) == Goto(c, "huart_off", "huart_on") /\ TurnOff(c) /\ UNCHANGED pinVars
HuartOn(c)  == Goto(c, "huart_on", "huart_read") /\ TurnOn({TXE, RXE})

(* CR |= 1: a read, then a write. *)
HuartRead(c) ==
  /\ Goto(c, "huart_read", "huart_enable")
  /\ crRead' = [crRead EXCEPT ![c] = cr]
  /\ UNCHANGED <<coreVars, pinVars, cr, overlap, fifoVars>>

(* Fault: CR = 1. *)
HuartEnableOnly(c) == Goto(c, "huart_enable", "report") /\ TurnOn({UARTEN})

HuartEnable(c) ==
  /\ Goto(c, "huart_enable", "report")
  /\ cr' = crRead[c] \union {UARTEN} /\ crRead' = [crRead EXCEPT ![c] = {}]
  /\ UNCHANGED <<coreVars, pinVars, overlap, fifoVars>>

(* huart_print_exception, then a wfe loop. *)
Report(c) == BeginText(c, "report", "halt")

(* All that a core does here, but for the texts of main0. *)
UartStep(c) ==
  \/ c = 0 /\ (Select \/ Set \/ InitOff \/ InitOn)
  \/ Test(c) \/ Put(c)
  \/ HuartPins(c) \/ HuartOff(c) \/ HuartOn(c) \/ HuartRead(c) \/ HuartEnable(c) \/ Report(c)

(* The UART sends a character. *)
Transmit ==
  /\ {UARTEN, TXE} \subseteq cr /\ fifo > 0
  /\ fifo' = fifo - 1
  /\ UNCHANGED <<pc, coreVars, pinVars, crVars, raced>>

-----------------------------------------------------------------------------
UartTypeOK ==
  /\ rpi \in Boards /\ trap \subseteq Cores /\ pin \in Pins
  /\ text \in [Cores -> [left : 0 .. TextLength, then : {"run", "halt", "wait", "fb", "demo"}]]
  /\ DOMAIN gpfsel \subseteq Pins /\ fn \in [Pins -> SUBSET (0 .. 4)]
  /\ cr \subseteq {UARTEN, TXE, RXE} /\ crRead \in [Cores -> SUBSET {UARTEN, TXE, RXE}]
  /\ fifo \in 0 .. Capacity /\ raced \subseteq Cores /\ overlap \in BOOLEAN

(* A character is written to a full FIFO, and lost, only when another core *)
(* has written one since its core looked at FR (uart_putc, putc).          *)
NothingLost == \A c \in Cores : pc[c] = "put" /\ fifo = Capacity => c \in raced

(* Some core has set both pins up. *)
PinsSet == \/ \E c \in trap : pc[c] # "huart_pins"
           \/ 0 \notin trap /\ pc[0] \notin {"select", "set", "off"}

(* Core 0 is setting the pins up, or was when its exception came. *)
SettingPins == pc[0] \in {"select", "set", "huart_pins"} /\ pin # GPIO_TEST

(* Both pins stay the UART's once a core has set them up, whatever the     *)
(* read-modify-writes of core 0 wrote back, except while it is at it; and  *)
(* on the boards that read and write the whole register, TX does even then *)
(* (gpio_select_function against huart_init).                              *)
PinsServed ==
  PinsSet => /\ SettingPins \/ fn[GPIO_RX] = GPIO_FUNC
             /\ (SettingPins /\ rpi >= 5) \/ fn[GPIO_TX] = GPIO_FUNC
=============================================================================
