----------------------------- MODULE Main0_proof -----------------------------
(***************************************************************************)
(* What the run of Main0 checks for two cores and short texts, proved for  *)
(* any number of cores, of exceptions and of characters, any FIFO and any  *)
(* screen: a character is lost only to a core that wrote in between, the   *)
(* pins of the UART stay the UART's, and every frame is drawn right.       *)
(***************************************************************************)
EXTENDS Main0, FiniteSetTheorems, TLAPS

-----------------------------------------------------------------------------
(* The arithmetic of mix8 and pixel_at. *)
LEMMA PowerOfTwo ==
  ASSUME NEW n \in Nat
  PROVE  2^n \in Nat \ {0}
<1>1. IsFiniteSet(1 .. n) /\ Cardinality(1 .. n) = n
      BY FS_Interval
<1>2. IsFiniteSet(SUBSET (1 .. n)) /\ Cardinality(SUBSET (1 .. n)) = 2^n
      BY <1>1, FS_SUBSET
<1>3. SUBSET (1 .. n) # {}
      OBVIOUS
<1> QED
    BY <1>2, <1>3, FS_CardinalityType, FS_EmptySet

LEMMA Quotient ==
  ASSUME NEW a \in Nat, NEW n \in Nat \ {0}, NEW s \in Nat
  PROVE  /\ a \div n \in Nat
         /\ a <= n * s => a \div n <= s
         /\ a < n * s => a \div n < s
         /\ n * s <= a => s <= a \div n
<1> DEFINE q == a \div n
           r == a % n
<1>0. q \in Int
      OBVIOUS
<1>1. a = n * q + r
      OBVIOUS
<1>a. r \in 0 .. n - 1
      OBVIOUS
<1> HIDE DEF q, r
<1>b. ASSUME q <= -1
      PROVE  FALSE
  <2>1. n * q <= n * (-1)
        BY <1>0, <1>b
  <2> QED
      BY <1>0, <1>1, <1>a, <2>1
<1>2. q \in Nat /\ n * q <= a /\ a < n * q + n
      BY <1>0, <1>1, <1>a, <1>b
<1>3. ASSUME a <= n * s
      PROVE  q <= s
  <2>1. SUFFICES ASSUME s + 1 <= q PROVE FALSE
        BY <1>2
  <2>2. n * (s + 1) <= n * q
        BY <1>2, <2>1
  <2> QED
      BY <1>2, <1>3, <2>2
<1>4. ASSUME a < n * s
      PROVE  q < s
  <2>1. SUFFICES ASSUME s <= q PROVE FALSE
        BY <1>2
  <2>2. n * s <= n * q
        BY <1>2, <2>1
  <2> QED
      BY <1>2, <1>4, <2>2
<1>5. ASSUME n * s <= a
      PROVE  s <= q
  <2>1. SUFFICES ASSUME q + 1 <= s PROVE FALSE
        BY <1>2
  <2>2. n * (q + 1) <= n * s
        BY <1>2, <2>1
  <2> QED
      BY <1>2, <1>5, <2>2
<1> QED
    BY <1>2, <1>3, <1>4, <1>5 DEF q

LEMMA Halves ==
  ASSUME NEW n \in Nat, NEW p \in Nat \ {0}
  PROVE  /\ n \div p \in Nat
         /\ n % p \in 0 .. p - 1
         /\ n = p * (n \div p) + (n % p)
<1> DEFINE q == n \div p
           r == n % p
<1>1. q \in Nat
      BY Quotient
<1>2. r \in 0 .. p - 1
      OBVIOUS
<1>3. n = p * q + r
      OBVIOUS
<1> QED
    BY <1>1, <1>2, <1>3

LEMMA Rows ==
  ASSUME NEW p \in Nat, NEW a \in Nat, NEW b \in Nat, a < b
  PROVE  a * p + p <= b * p
<1> DEFINE d == b - a - 1
<1>1. d \in Nat /\ b = a + 1 + d
      OBVIOUS
<1> HIDE DEF d
<1>2. b * p = a * p + p + d * p
      BY <1>1
<1>3. d * p \in Nat
      BY <1>1
<1> QED
    BY <1>2, <1>3

IsByte(n) == n \in Int /\ 0 <= n /\ n <= 255

LEMMA Bytes ==
  ASSUME NEW n, IsByte(n)
  PROVE  Byte(n) = n
  BY SMT DEF IsByte, Byte

(* The weights of a pair of pixels share their two colors out. *)
LEMMA Mixed ==
  ASSUME NEW a \in Nat, a < 2^RATIO_WIDTH, NEW b, NEW c, IsByte(b), IsByte(c), b <= c
  PROVE  LET m == Mix8(b, c, a)
             o == Mix8(c, b, a)
         IN  /\ m \in Int /\ b <= m /\ m <= c
             /\ o \in Int /\ b <= o /\ o <= c
             /\ b + c - m - o \in {0, 1}
<1> DEFINE P == 2^RATIO_WIDTH
<1>p. P \in Nat \ {0}
      BY PowerOfTwo, ScreenAssumption
<1> USE <1>p
<1> HIDE DEF P
<1>q. a < P
      BY DEF P
<1>0. b \in Nat /\ c \in Nat
      BY SMT DEF IsByte
<1> DEFINE m == a * b + (P - a) * c
           n == a * c + (P - a) * b
<1>1. m \in Nat /\ n \in Nat /\ m + n = P * (b + c)
      BY <1>0, <1>q
<1>2. P * b <= n /\ n <= P * c /\ P * b <= m /\ m <= P * c
  <2>1. n = P * b + a * (c - b) /\ n = P * c - (P - a) * (c - b)
        BY <1>0
  <2>2. m = P * b + (P - a) * (c - b) /\ m = P * c - a * (c - b)
        BY <1>0
  <2>3. a * (c - b) \in Nat /\ (P - a) * (c - b) \in Nat
        BY <1>0, <1>q
  <2> HIDE DEF m, n
  <2> QED
      BY <1>1, <2>1, <2>2, <2>3, <1>0
<1> HIDE DEF m, n
<1> DEFINE mq == m \div P
           nq == n \div P
           mr == m % P
           nr == n % P
<1>3. /\ mq \in Nat /\ b <= mq /\ mq <= c
      /\ nq \in Nat /\ b <= nq /\ nq <= c
      BY <1>0, <1>1, <1>2, Quotient
<1>4. /\ mr \in 0 .. P - 1 /\ m = P * mq + mr
      /\ nr \in 0 .. P - 1 /\ n = P * nq + nr
      BY <1>1, Halves
<1>5. Byte(mq) = mq /\ Byte(nq) = nq
      BY <1>0, <1>3, Bytes, SMT DEF IsByte
<1> HIDE DEF mq, nq, mr, nr
<1>6. b + c - mq - nq \in {0, 1}
  <2> DEFINE d == b + c - mq - nq
  <2>1. d \in Int /\ P * d = mr + nr
        BY <1>0, <1>1, <1>3, <1>4
  <2> HIDE DEF d
  <2>2. d < 2
    <3>1. SUFFICES ASSUME d >= 2 PROVE FALSE
          BY <2>1
    <3>2. P * d >= P * 2
          BY <2>1, <3>1
    <3> QED
        BY <1>4, <2>1, <3>2
  <2>3. d > -1
    <3>1. SUFFICES ASSUME d <= -1 PROVE FALSE
          BY <2>1
    <3>2. P * d <= P * (-1)
          BY <2>1, <3>1
    <3> QED
        BY <1>4, <2>1, <3>2
  <2>4. d \in {0, 1}
        BY <2>1, <2>2, <2>3
  <2> QED
      BY <2>4 DEF d
<1>7. Mix8(b, c, a) = mq /\ Mix8(c, b, a) = nq
      BY <1>5 DEF Mix8, Shr, P, m, n, mq, nq
<1> QED
    BY <1>3, <1>6, <1>7, <1>0

LEMMA Centred ==
  ASSUME NEW n \in Nat \ {0}, NEW i \in 0 .. n - 1
  PROVE  LET c == i - n \div 2
             d == c + n - 1 - 2 * i
         IN  /\ c \in Int /\ -n <= 2 * c /\ 2 * c <= n - 1
             /\ d \in Int /\ -n <= 2 * d /\ 2 * d <= n - 1
  OBVIOUS

(* A coordinate scaled to s on either side of the middle. *)
Within(c, s) == c \in Int /\ -s <= c /\ c < s

LEMMA Scaled ==
  ASSUME NEW n \in Nat \ {0}, NEW a \in Int, NEW s \in Nat \ {0}, Within(a, n * s)
  PROVE  Within(Div(a, n), s)
<1>0. n * s \in Nat
      OBVIOUS
<1>1. CASE a >= 0
  <2>2. a \div n \in Nat /\ a \div n < s
        BY <1>0, <1>1, Quotient DEF Within
  <2> QED
      BY <1>1, <2>2 DEF Div, Within
<1>2. CASE a < 0
  <2> DEFINE b == -a
  <2>1. b \in Nat \ {0} /\ b <= n * s
        BY <1>0, <1>2 DEF Within
  <2>4. a = -b
        OBVIOUS
  <2> HIDE DEF b
  <2>2. b \div n \in Nat /\ b \div n <= s
        BY <2>1, Quotient
  <2>3. Div(-b, n) = -(b \div n)
        BY <2>1 DEF Div
  <2> QED
      BY <2>2, <2>3, <2>4 DEF Within
<1> QED
    BY <1>1, <1>2

(* No component of a color is cut to a byte. *)
LEMMA PixelInRange ==
  ASSUME NEW w \in Nat \ {0}, NEW h \in Nat \ {0}, NEW x \in 0 .. w - 1, NEW yy \in 0 .. h - 1,
         NEW k \in 1 .. 3
  PROVE  IsByte(PixelAt(w, h, x, yy)[k])
<1> DEFINE u0 == x - w \div 2
           v0 == yy - h \div 2
           ring == u0 * u0 + v0 * v0 \in RingMin .. RingMax
           u == IF ring THEN u0 + w - 1 - 2 * x ELSE u0
           v == IF ring THEN v0 + h - 1 - 2 * yy ELSE v0
<1>1. PixelAt(w, h, x, yy) = <<Shr(2^19 + Div(v * 2^20, h), 12),
                               Shr(2^17 - Div(50900 * u, w) - Div(133480 * v, h), 10),
                               Shr(2^19 + Div(u * 2^20, w), 12)>>
      BY SMT DEF PixelAt
<1>2. /\ u \in Int /\ -w <= 2 * u /\ 2 * u <= w - 1
      /\ v \in Int /\ -h <= 2 * v /\ 2 * v <= h - 1
      BY Centred
<1> HIDE DEF u, v
<1> DEFINE d1 == Div(v * 2^20, h)
           d2 == Div(u * 2^20, w)
           e1 == Div(50900 * u, w)
           e2 == Div(133480 * v, h)
<1>3. Within(d1, 524288) /\ Within(d2, 524288)
  <2>1. /\ v * 2^20 \in Int /\ Within(v * 2^20, h * 524288)
        /\ u * 2^20 \in Int /\ Within(u * 2^20, w * 524288)
        BY <1>2, SMT DEF Within
  <2>2. 524288 \in Nat \ {0}
        BY SMT
  <2> QED
      BY <2>1, <2>2, Scaled, SMT
<1>4. Within(e1, 25450) /\ Within(e2, 66740)
  <2>1. /\ 50900 * u \in Int /\ Within(50900 * u, w * 25450)
        /\ 133480 * v \in Int /\ Within(133480 * v, h * 66740)
        BY <1>2, SMT DEF Within
  <2>2. 25450 \in Nat \ {0} /\ 66740 \in Nat \ {0}
        BY SMT
  <2> QED
      BY <2>1, <2>2, Scaled, SMT
<1> HIDE DEF d1, d2, e1, e2
<1>5. ASSUME NEW d, Within(d, 524288)
      PROVE  /\ Shr(2^19 + d, 12) \in Int
             /\ 0 <= Shr(2^19 + d, 12) /\ Shr(2^19 + d, 12) <= 255
      BY <1>5, SMT DEF Shr, Within
<1>6. /\ Shr(2^17 - e1 - e2, 10) \in Int
      /\ 0 <= Shr(2^17 - e1 - e2, 10) /\ Shr(2^17 - e1 - e2, 10) <= 255
      BY <1>4, SMT DEF Shr, Within
<1>7. PixelAt(w, h, x, yy) = <<Shr(2^19 + d1, 12), Shr(2^17 - e1 - e2, 10), Shr(2^19 + d2, 12)>>
      BY <1>1, SMT DEF d1, d2, e1, e2
<1> QED
    BY <1>3, <1>5, <1>6, <1>7, SMT DEF IsByte

-----------------------------------------------------------------------------
(* The serial line. *)
USE UartAssumption

PcType == pc \in [Cores -> {"run", "select", "set", "off", "on", "hello", "test", "put",
                            "wait", "fb", "demo", "huart_pins", "huart_off", "huart_on",
                            "huart_read", "huart_enable", "report", "halt"}]

(* Where a core may be before and after its exception. *)
TrapInv ==
  \A c \in Cores :
    /\ pc[c] \in {"huart_pins", "huart_off", "huart_on", "huart_read", "huart_enable",
                  "report", "halt"} => c \in trap
    /\ pc[c] \in {"select", "set", "off", "on", "hello", "wait", "fb", "demo"} => c \notin trap
    /\ Printing(c) => text[c].left > 0 /\ (text[c].then = "halt" <=> c \in trap)
    /\ Printing(c) => text[c].then # "run"

(* Core 0 has the pins in the order TEST, TX, RX. *)
PinOrder ==
  /\ 0 \notin trap /\ pc[0] \notin {"select", "set", "off"} => pin = GPIO_RX
  /\ pc[0] = "off" => pin = GPIO_TEST

(* What core 0 leaves in the registers, and what it is about to write back.*)
TxDone == pin = GPIO_RX => fn[GPIO_TX] = GPIO_FUNC
WritesBack ==
  pc[0] = "set" => /\ rpi < 5 => gpfsel \in [Bank(pin) -> SUBSET (0 .. 4)]
                   /\ rpi < 5 /\ pin = GPIO_RX => gpfsel[GPIO_TX] = GPIO_FUNC
                   /\ rpi >= 5 /\ pin # GPIO_TEST => fn[pin] \in {{}, GPIO_FUNC}

TypeInv == PcType /\ UartTypeOK
PinsInv == PinOrder /\ TxDone /\ WritesBack /\ PinsServed
IInv == TypeInv /\ TrapInv /\ NothingLost /\ PinsInv
-----------------------------------------------------------------------------
(* The pins of the UART share a register, in which the test pin is not.    *)
LEMMA Banks == /\ Bank(GPIO_TEST) = {GPIO_TEST}
               /\ Bank(GPIO_TX) = {GPIO_TX, GPIO_RX} /\ Bank(GPIO_RX) = {GPIO_TX, GPIO_RX}
BY DEF Bank, Pins, GPIO_TX, GPIO_RX, GPIO_TEST

(* Of what Main0 does, the serial line sees the actions of Uart and the    *)
(* beginnings of its texts.                                                *)
Begins(c) ==
  \/ BeginText(c, "report", "halt")
  \/ c = 0 /\ BeginText(c, "hello", "wait")
  \/ c = 0 /\ BeginText(c, "wait", "fb")
  \/ c = 0 /\ BeginText(c, "fb", "demo")

SetUp(c) ==
  HuartPins(c) \/ HuartOff(c) \/ HuartOn(c) \/ HuartRead(c) \/ HuartEnable(c)

LEMMA Moves ==
  ASSUME [Next]_vars
  PROVE  \/ UNCHANGED uartVars
         \/ Select \/ Set \/ InitOff \/ InitOn \/ Transmit
         \/ \E c \in Cores : Begins(c) \/ Test(c) \/ Put(c) \/ SetUp(c) \/ Exception(c)
  BY DEF Next, vars, CoreStep, UartStep, Hello, Check, FbInit, Demo, Report, Begins, SetUp

LEMMA TypeStep ==
  ASSUME TypeInv, TrapInv, WritesBack, [Next]_vars
  PROVE  TypeInv'
<1> USE DEF TypeInv, PcType, UartTypeOK, Goto, coreVars, pinVars, crVars, fifoVars,
            GPIO_FUNC, TestFunc, UARTEN, TXE, RXE
<1> 0 \in Cores
    OBVIOUS
<1>1. CASE UNCHANGED uartVars
      BY <1>1 DEF uartVars
<1>2. CASE Select
      BY <1>2, Banks DEF Select, Pins, Bank
<1>3. CASE Set
  <2>1. fn' \in [Pins -> SUBSET (0 .. 4)]
    <3>1. CASE rpi < 5
      <4>1. pc[0] = "set"
            BY <1>3 DEF Set
      <4> QED
          BY <1>3, <3>1, <4>1 DEF Set, WritesBack
    <3>2. CASE ~(rpi < 5)
          BY <1>3, <3>2 DEF Set, Pins
    <3> QED
        BY <3>1, <3>2
  <2> QED
      BY <1>3, <2>1 DEF Set, Pins
<1>4. CASE InitOff
      BY <1>4 DEF InitOff, TurnOff, Pins
<1>5. CASE InitOn
      BY <1>5 DEF InitOn, TurnOn
<1>6. CASE Transmit
      BY <1>6 DEF Transmit
<1>7. ASSUME NEW c \in Cores, Begins(c)
      PROVE  TypeInv'
  <2>1. PICK then \in {"halt", "wait", "fb", "demo"} :
          /\ text' = [text EXCEPT ![c] = [left |-> TextLength, then |-> then]]
          /\ pc' = [pc EXCEPT ![c] = "test"]
          /\ UNCHANGED <<rpi, trap, pinVars, crVars, fifoVars>>
        BY <1>7 DEF Begins, BeginText
  <2>2. TextLength \in 0 .. TextLength
        OBVIOUS
  <2> QED
      BY <2>1, <2>2
<1>8. ASSUME NEW c \in Cores, Test(c)
      PROVE  TypeInv'
      BY <1>8 DEF Test
<1>9. ASSUME NEW c \in Cores, Put(c)
      PROVE  TypeInv'
      BY <1>9 DEF Put, TrapInv, Printing
<1>10. ASSUME NEW c \in Cores, SetUp(c)
       PROVE  TypeInv'
  <2>1. CASE HuartPins(c)
        BY <2>1 DEF HuartPins, Pins
  <2>2. CASE HuartOff(c)
        BY <2>2 DEF HuartOff, TurnOff
  <2>3. CASE HuartOn(c)
        BY <2>3 DEF HuartOn, TurnOn
  <2>4. CASE HuartRead(c)
        BY <2>4 DEF HuartRead
  <2>5. CASE HuartEnable(c)
        BY <2>5 DEF HuartEnable
  <2> QED
      BY <1>10, <2>1, <2>2, <2>3, <2>4, <2>5 DEF SetUp
<1>11. ASSUME NEW c \in Cores, Exception(c)
       PROVE  TypeInv'
       BY <1>11 DEF Exception
<1> QED
    BY <1>1, <1>2, <1>3, <1>4, <1>5, <1>6, <1>7, <1>8, <1>9, <1>10, <1>11, Moves

LEMMA TrapStep ==
  ASSUME TypeInv, TrapInv, [Next]_vars
  PROVE  TrapInv'
<1> USE DEF TypeInv, PcType, UartTypeOK, TrapInv, Goto, coreVars, Printing
<1> 0 \in Cores
    OBVIOUS
<1>1. CASE UNCHANGED uartVars
      BY <1>1 DEF uartVars
<1>2. CASE Select
      BY <1>2 DEF Select
<1>3. CASE Set
      BY <1>3 DEF Set, Pins
<1>4. CASE InitOff
      BY <1>4 DEF InitOff, TurnOff
<1>5. CASE InitOn
      BY <1>5 DEF InitOn, TurnOn
<1>6. CASE Transmit
      BY <1>6 DEF Transmit
<1>7. ASSUME NEW c \in Cores, Begins(c)
      PROVE  TrapInv'
      BY <1>7 DEF Begins, BeginText
<1>8. ASSUME NEW c \in Cores, Test(c)
      PROVE  TrapInv'
      BY <1>8 DEF Test
<1>9. ASSUME NEW c \in Cores, Put(c)
      PROVE  TrapInv'
      BY <1>9 DEF Put
<1>10. ASSUME NEW c \in Cores, SetUp(c)
       PROVE  TrapInv'
       BY <1>10 DEF SetUp, HuartPins, HuartOff, HuartOn, HuartRead, HuartEnable,
                    TurnOff, TurnOn
<1>11. ASSUME NEW c \in Cores, Exception(c)
       PROVE  TrapInv'
       BY <1>11 DEF Exception
<1> QED
    BY <1>1, <1>2, <1>3, <1>4, <1>5, <1>6, <1>7, <1>8, <1>9, <1>10, <1>11, Moves

(* Put marks every core that has looked at FR and not written yet: when it *)
(* fills the FIFO, none of them goes unmarked.                             *)
LEMMA FifoStep ==
  ASSUME TypeInv, TrapInv, NothingLost, [Next]_vars
  PROVE  NothingLost'
<1> USE DEF TypeInv, PcType, UartTypeOK, NothingLost, Goto, coreVars, fifoVars
<1> 0 \in Cores
    OBVIOUS
<1>1. CASE UNCHANGED uartVars
      BY <1>1 DEF uartVars
<1>2. CASE Select
      BY <1>2 DEF Select
<1>3. CASE Set
      BY <1>3 DEF Set, Pins
<1>4. CASE InitOff
      BY <1>4 DEF InitOff, TurnOff
<1>5. CASE InitOn
      BY <1>5 DEF InitOn, TurnOn
<1>6. CASE Transmit
      BY <1>6 DEF Transmit
<1>7. ASSUME NEW c \in Cores, Begins(c)
      PROVE  NothingLost'
      BY <1>7 DEF Begins, BeginText
<1>8. ASSUME NEW c \in Cores, Test(c)
      PROVE  NothingLost'
      BY <1>8 DEF Test
<1>9. ASSUME NEW c \in Cores, Put(c)
      PROVE  NothingLost'
      BY <1>9 DEF Put
<1>10. ASSUME NEW c \in Cores, SetUp(c)
       PROVE  NothingLost'
       BY <1>10 DEF SetUp, HuartPins, HuartOff, HuartOn, HuartRead, HuartEnable,
                    TurnOff, TurnOn
<1>11. ASSUME NEW c \in Cores, Exception(c)
       PROVE  NothingLost'
       BY <1>11 DEF Exception
<1> QED
    BY <1>1, <1>2, <1>3, <1>4, <1>5, <1>6, <1>7, <1>8, <1>9, <1>10, <1>11, Moves
(* The stale bits that core 0 writes back are those of the pin it sets up  *)
(* or, on TX's turn, those of RX, which comes next.                        *)
LEMMA PinsStep ==
  ASSUME TypeInv, TrapInv, PinsInv, [Next]_vars
  PROVE  PinsInv'
<1> USE DEF TypeInv, PcType, UartTypeOK, PinsInv, PinOrder, TxDone, WritesBack, PinsServed,
            PinsSet, SettingPins, Goto, coreVars, pinVars, crVars, fifoVars, Pins
<1> 0 \in Cores
    OBVIOUS
<1>0. /\ GPIO_TX # GPIO_RX /\ GPIO_TX # GPIO_TEST /\ GPIO_RX # GPIO_TEST
      /\ rpi \in Nat
      BY DEF GPIO_TX, GPIO_RX, GPIO_TEST
<1>1. CASE UNCHANGED uartVars
      BY <1>1 DEF uartVars
<1>2. CASE Select
      BY <1>0, <1>2, Banks DEF Select, TrapInv
<1>3. CASE Set
      BY <1>0, <1>3, Banks DEF Set, TrapInv
<1>4. CASE InitOff
      BY <1>0, <1>4 DEF InitOff, TurnOff, TrapInv
<1>5. CASE InitOn
      BY <1>0, <1>5 DEF InitOn, TurnOn, TrapInv
<1>6. CASE Transmit
      BY <1>6 DEF Transmit
<1>7. ASSUME NEW c \in Cores, Begins(c)
      PROVE  PinsInv'
      BY <1>7 DEF Begins, BeginText, TrapInv
<1>8. ASSUME NEW c \in Cores, Test(c)
      PROVE  PinsInv'
      BY <1>8 DEF Test, TrapInv
<1>9. ASSUME NEW c \in Cores, Put(c)
      PROVE  PinsInv'
      BY <1>9 DEF Put, TrapInv, Printing
<1>10. ASSUME NEW c \in Cores, SetUp(c)
       PROVE  PinsInv'
  <2>1. CASE HuartPins(c)
        BY <1>0, <2>1 DEF HuartPins, TrapInv
  <2>2. CASE HuartOff(c)
        BY <2>2 DEF HuartOff, TurnOff, TrapInv
  <2>3. CASE HuartOn(c)
        BY <2>3 DEF HuartOn, TurnOn, TrapInv
  <2>4. CASE HuartRead(c)
        BY <2>4 DEF HuartRead, TrapInv
  <2>5. CASE HuartEnable(c)
        BY <2>5 DEF HuartEnable, TrapInv
  <2> QED
      BY <1>10, <2>1, <2>2, <2>3, <2>4, <2>5 DEF SetUp
<1>11. ASSUME NEW c \in Cores, Exception(c)
       PROVE  PinsInv'
       BY <1>0, <1>11 DEF Exception, TrapInv
<1> QED
    BY <1>1, <1>2, <1>3, <1>4, <1>5, <1>6, <1>7, <1>8, <1>9, <1>10, <1>11, Moves

LEMMA InitInv ==
  ASSUME Init
  PROVE  IInv
<1> USE DEF Init, UartInit
<1> 0 \in Cores
    OBVIOUS
<1>1. TypeInv
  <2>1. PcType
        BY DEF PcType
  <2>2. text \in [Cores -> [left : 0 .. TextLength,
                            then : {"run", "halt", "wait", "fb", "demo"}]]
    <3>1. 0 \in 0 .. TextLength
          OBVIOUS
    <3> QED
        BY <3>1
  <2>3. fn \in [Pins -> SUBSET (0 .. 4)]
        OBVIOUS
  <2>4. fifo \in 0 .. Capacity
        OBVIOUS
  <2> QED
      BY <2>1, <2>2, <2>3, <2>4 DEF TypeInv, UartTypeOK, Pins
<1>2. TrapInv /\ NothingLost
      BY DEF TrapInv, Printing, NothingLost
<1>3. PinsInv
      BY DEF PinsInv, PinOrder, TxDone, WritesBack, PinsServed, PinsSet, GPIO_TX, GPIO_RX,
             GPIO_TEST
<1> QED
    BY <1>1, <1>2, <1>3 DEF IInv

(* The invariant from which the properties of the serial line follow. *)
THEOREM Invariant == Spec => []IInv
<1>1. Init => IInv
      BY InitInv
<1>2. IInv /\ [Next]_vars => IInv'
      BY TypeStep, TrapStep, FifoStep, PinsStep DEF IInv, PinsInv
<1> QED
    BY <1>1, <1>2, PTL DEF Spec

(* However many cores print at once, a character that uart_putc or putc    *)
(* loses has been overtaken by one of another core.                        *)
THEOREM LossesAreRaces == Spec => []NothingLost
<1>1. IInv => NothingLost
      BY DEF IInv
<1> QED
    BY <1>1, Invariant, PTL

(* The read-modify-writes of gpio_select_function never take a pin from    *)
(* the UART once it is set up, whichever cores are in huart_init.          *)
THEOREM PinsKept == Spec => []PinsServed
<1>1. IInv => PinsServed
      BY DEF IInv, PinsInv
<1> QED
    BY <1>1, Invariant, PTL

-----------------------------------------------------------------------------
(* The screen. *)
HIDE UartAssumption

Half      == fb.height \div 2
Pix(x, yy) == PixelAt(fb.width, fb.height, x, yy)
Opp(x, yy) == Pix(fb.width - 1 - x, fb.height - 1 - yy)

ModeInv ==
  /\ stage \notin {"off", "wild"} => fb \in Modes
  /\ stage \in {"off", "wild", "vpu"} => glyphs = 0 /\ DOMAIN tmp = {}
  /\ stage = "error" => glyphs < 2 * Texts

(* The two pointers, from the lines already drawn. *)
PointersInv ==
  stage = "lines" => /\ y <= Half /\ ptr = y * fb.pitch
                     /\ rptr = (fb.height - 1 - y) * fb.pitch + fb.width - 1

OnScreen == DOMAIN tmp \subseteq Visible

(* A line drawn, and the one opposite. *)
LineDrawn(yy) ==
  \A x \in 0 .. fb.width - 1 :
    LET i == x + yy * fb.pitch
        j == fb.width - 1 - x + (fb.height - 1 - yy) * fb.pitch
    IN  /\ {i, j} \subseteq DOMAIN tmp
        /\ tmp[i] = Rgb(Pix(x, yy), Opp(x, yy), ratio)
        /\ tmp[j] = Rgb(Opp(x, yy), Pix(x, yy), ratio)

LinesInv == stage = "lines" => \A yy \in 0 .. y - 1 : LineDrawn(yy)

ScreenInv == ScreenTypeOK /\ ModeInv /\ PointersInv /\ OnScreen /\ LinesInv

LEMMA ScreenMoves ==
  ASSUME [Next]_vars
  PROVE  \/ UNCHANGED screenVars
         \/ FbInitFails \/ \E m \in Modes : FbInitOk(m)
         \/ VpuReturns \/ DisplayChar \/ Show \/ Frame \/ Line \/ FrameDone
  BY DEF Next, vars, CoreStep, FbInit, Demo, ScreenStep

LEMMA ModeSizes ==
  ASSUME NEW m \in Modes
  PROVE  /\ m.width \in Nat \ {0} /\ m.height \in Nat \ {0} /\ m.pitch \in Nat \ {0}
         /\ m.width <= m.pitch /\ 3 <= m.height
         /\ GLYPH_W \in Nat \ {0} /\ Texts \in Nat \ {0} /\ (1 + Texts) * GLYPH_W <= m.width
  BY ScreenAssumption

(* A word belongs to one line and one column. *)
LEMMA Places ==
  ASSUME NEW w \in Nat, NEW p \in Nat, w <= p,
         NEW x \in 0 .. w - 1, NEW z \in 0 .. w - 1, NEW a \in Nat, NEW b \in Nat, a # b
  PROVE  x + a * p # z + b * p
<1>0. a * p \in Nat /\ b * p \in Nat
      OBVIOUS
<1>1. CASE a < b
  <2>1. a * p + p <= b * p
        BY <1>1, Rows
  <2> QED
      BY <1>0, <2>1
<1>2. CASE b < a
  <2>1. b * p + p <= a * p
        BY <1>2, Rows
  <2> QED
      BY <1>0, <2>1
<1> QED
    BY <1>1, <1>2

(* What a pair of pixels becomes. *)
LEMMA Colors ==
  ASSUME NEW f, NEW g, NEW a \in Nat, a < 2^RATIO_WIDTH,
         \A k \in 1 .. 3 : IsByte(f[k]) /\ IsByte(g[k])
  PROVE  /\ Rgb(f, g, a) \in Color
         /\ \A k \in 1 .. 3 :
              LET m == Rgb(f, g, a)[k]
                  o == Rgb(g, f, a)[k]
              IN  /\ IF f[k] <= g[k] THEN m \in f[k] .. g[k] ELSE m \in g[k] .. f[k]
                  /\ f[k] + g[k] - m - o \in {0, 1}
<1>1. ASSUME NEW k \in 1 .. 3
      PROVE  LET m == Rgb(f, g, a)[k]
                 o == Rgb(g, f, a)[k]
             IN  /\ IsByte(m)
                 /\ IF f[k] <= g[k] THEN m \in f[k] .. g[k] ELSE m \in g[k] .. f[k]
                 /\ f[k] + g[k] - m - o \in {0, 1}
  <2> DEFINE b == f[k]
             c == g[k]
             m == Mix8(b, c, a)
             o == Mix8(c, b, a)
  <2>1. IsByte(b) /\ IsByte(c)
        OBVIOUS
  <2>2. Byte(b) = b /\ Byte(c) = c
        BY <2>1, Bytes
  <2>3. Rgb(f, g, a)[k] = m /\ Rgb(g, f, a)[k] = o
        BY <2>2 DEF Rgb
  <2> HIDE DEF b, c, m, o
  <2>4. /\ IsByte(m) /\ (IF b <= c THEN m \in b .. c ELSE m \in c .. b)
        /\ b + c - m - o \in {0, 1}
    <3>1. CASE b <= c
      <4>1. /\ m \in Int /\ b <= m /\ m <= c
            /\ b + c - m - o \in {0, 1}
            BY <2>1, <3>1, Mixed DEF m, o
      <4> QED
          BY <2>1, <3>1, <4>1, SMT DEF IsByte
    <3>2. CASE ~(b <= c)
      <4>1. c <= b
            BY <2>1, <3>2, SMT DEF IsByte
      <4>2. /\ m \in Int /\ c <= m /\ m <= b /\ o \in Int
            /\ c + b - o - m \in {0, 1}
            BY <2>1, <4>1, Mixed DEF m, o
      <4> QED
          BY <2>1, <3>2, <4>2, SMT DEF IsByte
    <3> QED
        BY <3>1, <3>2
  <2> QED
      BY <2>3, <2>4 DEF b, c
<1>2. ASSUME NEW k \in 1 .. 3
      PROVE  Rgb(f, g, a)[k] \in 0 .. 255
  <2>1. IsByte(Rgb(f, g, a)[k])
        BY <1>1
  <2> QED
      BY <2>1, SMT DEF IsByte
<1>3. Rgb(f, g, a) \in Color
      BY <1>2 DEF Rgb, Color
<1> QED
    BY <1>1, <1>3

LEMMA Pairs ==
  ASSUME ScreenInv, fb \in Modes,
         NEW x \in 0 .. fb.width - 1, NEW yy \in 0 .. fb.height - 1
  PROVE  LET a == Pix(x, yy)
             b == Opp(x, yy)
         IN  /\ Rgb(a, b, ratio) \in Color /\ Rgb(b, a, ratio) \in Color
             /\ \A k \in 1 .. 3 :
                  LET m == Rgb(a, b, ratio)[k]
                      o == Rgb(b, a, ratio)[k]
                  IN  /\ IF a[k] <= b[k] THEN m \in a[k] .. b[k] ELSE m \in b[k] .. a[k]
                      /\ IF b[k] <= a[k] THEN o \in b[k] .. a[k] ELSE o \in a[k] .. b[k]
                      /\ a[k] + b[k] - m - o \in {0, 1}
                      /\ b[k] + a[k] - o - m \in {0, 1}
<1>1. fb.width \in Nat \ {0} /\ fb.height \in Nat \ {0}
      BY ModeSizes
<1>2. fb.width - 1 - x \in 0 .. fb.width - 1 /\ fb.height - 1 - yy \in 0 .. fb.height - 1
      BY <1>1
<1>3. \A k \in 1 .. 3 : IsByte(Pix(x, yy)[k]) /\ IsByte(Opp(x, yy)[k])
      BY <1>1, <1>2, PixelInRange DEF Pix, Opp
<1>4. 2^RATIO_WIDTH \in Nat \ {0}
      BY PowerOfTwo, ScreenAssumption
<1>5. ratio \in 0 .. 2^RATIO_WIDTH - 1
      BY DEF ScreenInv, ScreenTypeOK
<1>6. ratio \in Nat /\ ratio < 2^RATIO_WIDTH
      BY <1>4, <1>5
<1> DEFINE a == Pix(x, yy)
           b == Opp(x, yy)
<1> HIDE DEF a, b
<1>7. \A k \in 1 .. 3 : IsByte(a[k]) /\ IsByte(b[k])
      BY <1>3 DEF a, b
<1>8. /\ Rgb(a, b, ratio) \in Color
      /\ \A k \in 1 .. 3 :
           LET m == Rgb(a, b, ratio)[k]
               o == Rgb(b, a, ratio)[k]
           IN  /\ IF a[k] <= b[k] THEN m \in a[k] .. b[k] ELSE m \in b[k] .. a[k]
               /\ a[k] + b[k] - m - o \in {0, 1}
      BY <1>6, <1>7, Colors
<1>9. /\ Rgb(b, a, ratio) \in Color
      /\ \A k \in 1 .. 3 :
           LET m == Rgb(b, a, ratio)[k]
               o == Rgb(a, b, ratio)[k]
           IN  /\ IF b[k] <= a[k] THEN m \in b[k] .. a[k] ELSE m \in a[k] .. b[k]
               /\ b[k] + a[k] - m - o \in {0, 1}
      BY <1>6, <1>7, Colors
<1>10. /\ Rgb(a, b, ratio) \in Color /\ Rgb(b, a, ratio) \in Color
       /\ \A k \in 1 .. 3 :
            LET m == Rgb(a, b, ratio)[k]
                o == Rgb(b, a, ratio)[k]
            IN  /\ IF a[k] <= b[k] THEN m \in a[k] .. b[k] ELSE m \in b[k] .. a[k]
                /\ IF b[k] <= a[k] THEN o \in b[k] .. a[k] ELSE o \in a[k] .. b[k]
                /\ a[k] + b[k] - m - o \in {0, 1}
                /\ b[k] + a[k] - o - m \in {0, 1}
       BY <1>8, <1>9
<1> QED
    BY <1>10 DEF a, b

(* A pair of lines at y: the words of the two rows, and no other. *)
LEMMA LineDraws ==
  ASSUME ScreenInv, Line
  PROVE  /\ fb \in Modes /\ y \in 0 .. fb.height - 1 /\ fb.height - 1 - y > y
         /\ \A x \in 0 .. fb.width - 1 :
              LET i == x + y * fb.pitch
                  j == fb.width - 1 - x + (fb.height - 1 - y) * fb.pitch
              IN  /\ {i, j} \subseteq DOMAIN tmp'
                  /\ tmp'[i] = Rgb(Pix(x, y), Opp(x, y), ratio)
                  /\ tmp'[j] = Rgb(Opp(x, y), Pix(x, y), ratio)
         /\ \A i \in DOMAIN tmp' :
              \/ \E x \in 0 .. fb.width - 1 :
                   \/ i = x + y * fb.pitch
                   \/ i = fb.width - 1 - x + (fb.height - 1 - y) * fb.pitch
              \/ i \in DOMAIN tmp /\ tmp'[i] = tmp[i]
         /\ DOMAIN tmp \subseteq DOMAIN tmp'
<1> DEFINE w == fb.width
           h == fb.height
           p == fb.pitch
           last == h - 1 - y
           up_ == y * p
           down == last * p
           U == ptr .. ptr + w - 1
           D == rptr - w + 1 .. rptr
<1>1. /\ stage = "lines" /\ y < h \div 2
      /\ tmp' = [i \in U \union D \union DOMAIN tmp |->
                   IF i \in U THEN Rgb(Pix(i - ptr, y), Opp(i - ptr, y), ratio)
                   ELSE IF i \in D THEN Rgb(Opp(rptr - i, y), Pix(rptr - i, y), ratio)
                   ELSE tmp[i]]
      BY DEF Line, Pix, Opp
<1>2. fb \in Modes
      BY <1>1 DEF ScreenInv, ModeInv
<1>3. w \in Nat \ {0} /\ h \in Nat \ {0} /\ p \in Nat \ {0} /\ w <= p
      BY <1>2, ModeSizes
<1>4. y \in Nat
      BY DEF ScreenInv, ScreenTypeOK
<1>5. y \in 0 .. h - 1 /\ last \in 0 .. h - 1 /\ y < last
      BY <1>1, <1>3, <1>4
<1>6. up_ \in Nat /\ down \in Nat
      BY <1>3, <1>5
<1>7. ptr = up_ /\ rptr = down + w - 1
      BY <1>1 DEF ScreenInv, PointersInv
<1>8. U = up_ .. up_ + w - 1 /\ D = down .. down + w - 1
      BY <1>3, <1>6, <1>7
<1>9. up_ + p <= down
      BY <1>3, <1>5, Rows
<1>a. ASSUME NEW x \in 0 .. w - 1
      PROVE  /\ x + up_ \in U /\ (x + up_) - ptr = x
             /\ w - 1 - x + down \in D /\ rptr - (w - 1 - x + down) = x
             /\ w - 1 - x + down \notin U
  <2>1. /\ x + up_ \in up_ .. up_ + w - 1 /\ (x + up_) - ptr = x
        /\ w - 1 - x + down \in down .. down + w - 1 /\ rptr - (w - 1 - x + down) = x
        /\ w - 1 - x + down \notin up_ .. up_ + w - 1
        BY <1>3, <1>6, <1>7, <1>9
  <2> QED
      BY <2>1, <1>8
<1> HIDE DEF U, D
<1>b. ASSUME NEW i \in U \union D
      PROVE  \E x \in 0 .. w - 1 : i = x + up_ \/ i = w - 1 - x + down
  <2>1. CASE i \in U
    <3>1. i - up_ \in 0 .. w - 1 /\ i = (i - up_) + up_
          BY SMTT(30), <2>1, <1>3, <1>6, <1>8
    <3> QED
        BY <3>1
  <2>2. CASE i \in D
    <3>1. /\ down + w - 1 - i \in 0 .. w - 1
          /\ i = w - 1 - (down + w - 1 - i) + down
          BY <2>2, <1>3, <1>6, <1>8
    <3> QED
        BY <3>1
  <2> QED
      BY <2>1, <2>2
<1> HIDE DEF w, h, p, last, up_, down
<1>d. /\ DOMAIN tmp' = U \union D \union DOMAIN tmp
      /\ \A i \in U : tmp'[i] = Rgb(Pix(i - ptr, y), Opp(i - ptr, y), ratio)
      /\ \A i \in D : i \notin U => tmp'[i] = Rgb(Opp(rptr - i, y), Pix(rptr - i, y), ratio)
      /\ \A i \in DOMAIN tmp : i \notin U \union D => tmp'[i] = tmp[i]
      BY <1>1
<1>e. ASSUME NEW x \in 0 .. w - 1
      PROVE  LET i == x + up_
                 j == w - 1 - x + down
             IN  /\ {i, j} \subseteq DOMAIN tmp'
                 /\ tmp'[i] = Rgb(Pix(x, y), Opp(x, y), ratio)
                 /\ tmp'[j] = Rgb(Opp(x, y), Pix(x, y), ratio)
      BY <1>a, <1>d
<1>f. ASSUME NEW i \in DOMAIN tmp'
      PROVE  \/ \E x \in 0 .. w - 1 : i = x + up_ \/ i = w - 1 - x + down
             \/ i \in DOMAIN tmp /\ tmp'[i] = tmp[i]
      BY <1>b, <1>d
<1> QED
    BY <1>2, <1>5, <1>d, <1>e, <1>f DEF w, h, p, last, up_, down

(* A glyph lies on the second or the third line, within the screen. *)
LEMMA GlyphDraws ==
  ASSUME ScreenInv, DisplayChar
  PROVE  /\ DOMAIN tmp' \subseteq Visible
         /\ \A i \in DOMAIN tmp' : tmp'[i] = Glyph \/ (i \in DOMAIN tmp /\ tmp'[i] = tmp[i])
<1> DEFINE w == fb.width
           h == fb.height
           p == fb.pitch
           line == 1 + (glyphs \div Texts)
           col == 1 + (glyphs % Texts)
           px == col * GLYPH_W
           py == line * p
           G == px + py .. px + py + GLYPH_W - 1
<1>1. /\ stage = "error"
      /\ tmp' = [i \in G \union DOMAIN tmp |-> IF i \in G THEN Glyph ELSE tmp[i]]
      BY DEF DisplayChar
<1>2. fb \in Modes /\ glyphs < 2 * Texts
      BY <1>1 DEF ScreenInv, ModeInv
<1>3. /\ w \in Nat \ {0} /\ p \in Nat \ {0} /\ h \in Nat \ {0} /\ 3 <= h
      /\ GLYPH_W \in Nat \ {0} /\ Texts \in Nat \ {0} /\ (1 + Texts) * GLYPH_W <= w
      BY <1>2, ModeSizes
<1>4. glyphs \in Nat
      BY <1>3 DEF ScreenInv, ScreenTypeOK
<1>5. line \in 1 .. 2
  <2>1. glyphs < Texts * 2
        BY <1>2, <1>3, <1>4
  <2>2. glyphs \div Texts \in Nat /\ glyphs \div Texts < 2
        BY <2>1, <1>3, <1>4, Quotient
  <2> QED
      BY <2>2
<1>6. col \in 1 .. Texts
  <2>1. glyphs % Texts \in 0 .. Texts - 1
        BY <1>3, <1>4
  <2> QED
      BY <2>1, <1>3
<1>7. px \in Nat /\ px + GLYPH_W <= w /\ py \in Nat
  <2>1. col \in Nat /\ 1 + Texts \in Nat /\ col < 1 + Texts
        BY <1>3, <1>6
  <2>2. px + GLYPH_W <= (1 + Texts) * GLYPH_W
        BY <2>1, <1>3, Rows
  <2>3. px \in Nat /\ py \in Nat
        BY <2>1, <1>3, <1>5
  <2> HIDE DEF px, py
  <2> QED
      BY <2>2, <2>3, <1>3
<1>8. line \in 0 .. h - 1
      BY <1>3, <1>5
<1> HIDE DEF line, col, px, w, h, p
<1>9. ASSUME NEW i \in G
      PROVE  i \in Visible
  <2>1. i - py \in 0 .. w - 1 /\ i = (i - py) + line * p
        BY <1>3, <1>7
  <2> QED
      BY <2>1, <1>8 DEF Visible, w, h, p
<1> HIDE DEF G
<1>10. DOMAIN tmp \subseteq Visible
       BY DEF ScreenInv, OnScreen
<1>11. DOMAIN tmp' \subseteq Visible
       BY <1>1, <1>9, <1>10
<1>12. \A i \in DOMAIN tmp' : tmp'[i] = Glyph \/ (i \in DOMAIN tmp /\ tmp'[i] = tmp[i])
       BY <1>1
<1> QED
    BY <1>11, <1>12

(* The next ratio is one again. *)
LEMMA RatioStep ==
  ASSUME ScreenInv, FrameDone
  PROVE  ratio' \in 0 .. 2^RATIO_WIDTH - 1 /\ up' \in BOOLEAN
<1> DEFINE one == 2^RATIO_WIDTH
           step == 2^(RATIO_WIDTH - LOG2_INV_SPEED)
           r == IF up THEN ratio + step ELSE ratio - step
<1>1. one \in Nat \ {0} /\ step \in Nat \ {0}
  <2>1. RATIO_WIDTH \in Nat /\ RATIO_WIDTH - LOG2_INV_SPEED \in Nat
        BY ScreenAssumption
  <2> QED
      BY <2>1, PowerOfTwo
<1>2. ratio \in 0 .. one - 1 /\ up \in BOOLEAN
      BY DEF ScreenInv, ScreenTypeOK
<1>3. /\ ratio' = IF r \div one # 0 THEN one - 1 ELSE IF r < 0 THEN 0 ELSE r
      /\ up' = IF r \div one # 0 THEN FALSE ELSE IF r < 0 THEN TRUE ELSE up
      BY DEF FrameDone, Shr
<1> HIDE DEF one, step
<1>4. r \in Int
      BY <1>1, <1>2
<1> HIDE DEF r
<1>5. ASSUME r \div one = 0, r >= 0
      PROVE  r < one
  <2>1. SUFFICES ASSUME one * 1 <= r PROVE FALSE
        BY <1>1, <1>4
  <2>2. 1 <= r \div one
        BY <1>1, <1>4, <1>5, <2>1, Quotient
  <2> QED
      BY <2>2, <1>5
<1>6. ratio' \in 0 .. one - 1
      BY <1>1, <1>3, <1>4, <1>5
<1>7. up' \in BOOLEAN
      BY <1>2, <1>3
<1> QED
    BY <1>6, <1>7 DEF one

LEMMA LineStep ==
  ASSUME ScreenInv, Line
  PROVE  ScreenInv'
<1> DEFINE w == fb.width
           h == fb.height
           p == fb.pitch
<1>1. /\ stage = "lines" /\ y < Half /\ y' = y + 1
      /\ ptr' = ptr + p /\ rptr' = rptr - p
      /\ UNCHANGED <<vc4, stage, fb, ratio, up, glyphs>>
      BY DEF Line, Half
<1>2. /\ fb \in Modes /\ y \in 0 .. h - 1 /\ h - 1 - y > y
      /\ \A x \in 0 .. w - 1 :
           LET i == x + y * p
               j == w - 1 - x + (h - 1 - y) * p
           IN  /\ {i, j} \subseteq DOMAIN tmp'
               /\ tmp'[i] = Rgb(Pix(x, y), Opp(x, y), ratio)
               /\ tmp'[j] = Rgb(Opp(x, y), Pix(x, y), ratio)
      /\ \A i \in DOMAIN tmp' :
           \/ \E x \in 0 .. w - 1 : i = x + y * p \/ i = w - 1 - x + (h - 1 - y) * p
           \/ i \in DOMAIN tmp /\ tmp'[i] = tmp[i]
      /\ DOMAIN tmp \subseteq DOMAIN tmp'
      BY LineDraws
<1>3. w \in Nat \ {0} /\ h \in Nat \ {0} /\ p \in Nat \ {0} /\ w <= p
      BY <1>2, ModeSizes
<1>4. y \in Nat /\ h - 1 - y \in 0 .. h - 1
      BY <1>2, <1>3
<1> HIDE DEF w, h, p
<1>5. ScreenTypeOK'
  <2>1. ASSUME NEW i \in DOMAIN tmp'
        PROVE  tmp'[i] \in Color \/ tmp'[i] = Glyph
    <3>1. CASE i \in DOMAIN tmp /\ tmp'[i] = tmp[i]
          BY <3>1 DEF ScreenInv, ScreenTypeOK
    <3>2. ASSUME NEW x \in 0 .. w - 1,
                 i = x + y * p \/ i = w - 1 - x + (h - 1 - y) * p
          PROVE  tmp'[i] \in Color
      <4>1. Rgb(Pix(x, y), Opp(x, y), ratio) \in Color /\ Rgb(Opp(x, y), Pix(x, y), ratio) \in Color
            BY <1>2, <1>4, Pairs DEF w, h
      <4> QED
          BY <1>2, <3>2, <4>1
    <3> QED
        BY <1>2, <3>1, <3>2
  <2>2. \A i \in DOMAIN tmp' : tmp'[i] \in Color \/ tmp'[i] = Glyph
        BY <2>1
  <2>3. /\ vc4 \in BOOLEAN /\ up \in BOOLEAN /\ glyphs \in 0 .. 2 * Texts
        /\ stage \in {"off", "wild", "vpu", "error", "show", "end", "frame", "lines"}
        /\ ptr \in Nat /\ rptr \in Int
        /\ ratio \in 0 .. 2^RATIO_WIDTH - 1
        BY DEF ScreenInv, ScreenTypeOK
  <2>4. y' \in Nat /\ ptr' \in Nat /\ rptr' \in Int
        BY <1>1, <1>3, <1>4, <2>3
  <2> QED
      BY <1>1, <2>2, <2>3, <2>4 DEF ScreenTypeOK
<1>6. ModeInv'
      BY <1>1 DEF ScreenInv, ModeInv
<1>7. PointersInv'
  <2>1. Half \in Nat /\ Half' = Half
        BY <1>1, <1>3, Quotient DEF Half, h
  <2>2. /\ ptr = y * p
        /\ rptr = (h - 1 - y) * p + w - 1
        BY <1>1 DEF ScreenInv, PointersInv, w, h, p
  <2>3. ptr' = y' * p
        BY <1>1, <1>3, <1>4, <2>2
  <2>4. rptr' = (h - 1 - y') * p + w - 1
        BY <1>1, <1>3, <1>4, <2>2
  <2>5. y' <= Half
        BY <1>1, <1>4, <2>1
  <2> QED
      BY <1>1, <2>1, <2>3, <2>4, <2>5 DEF PointersInv, w, h, p
<1>8. OnScreen'
  <2>1. Visible' = Visible
        BY <1>1 DEF Visible
  <2>2. ASSUME NEW i \in DOMAIN tmp'
        PROVE  i \in Visible
    <3>1. CASE i \in DOMAIN tmp
          BY <3>1 DEF ScreenInv, OnScreen
    <3>2. ASSUME NEW x \in 0 .. w - 1,
                 i = x + y * p \/ i = w - 1 - x + (h - 1 - y) * p
          PROVE  i \in Visible
      <4>1. w - 1 - x \in 0 .. w - 1
            BY <1>3
      <4> QED
          BY <1>2, <1>4, <3>2, <4>1 DEF Visible, w, h, p
    <3> QED
        BY <1>2, <3>1, <3>2
  <2> QED
      BY <2>1, <2>2 DEF OnScreen
<1>9. LinesInv'
  <2>1. ASSUME NEW yy \in 0 .. y, NEW x \in 0 .. w - 1
        PROVE  LET i == x + yy * p
                   j == w - 1 - x + (h - 1 - yy) * p
               IN  /\ {i, j} \subseteq DOMAIN tmp'
                   /\ tmp'[i] = Rgb(Pix(x, yy), Opp(x, yy), ratio)
                   /\ tmp'[j] = Rgb(Opp(x, yy), Pix(x, yy), ratio)
    <3> DEFINE i == x + yy * p
               j == w - 1 - x + (h - 1 - yy) * p
    <3>1. CASE yy = y
          BY <1>2, <3>1
    <3>2. CASE yy # y
      <4>1. yy \in 0 .. y - 1 /\ yy \in Nat
            BY <1>4, <3>2
      <4>2. LineDrawn(yy)
            BY <1>1, <4>1 DEF ScreenInv, LinesInv
      <4>3. /\ {i, j} \subseteq DOMAIN tmp
            /\ tmp[i] = Rgb(Pix(x, yy), Opp(x, yy), ratio)
            /\ tmp[j] = Rgb(Opp(x, yy), Pix(x, yy), ratio)
            BY <4>2 DEF LineDrawn, w, h, p
      <4>4. h - 1 - yy \in Nat /\ yy < y /\ y < h - 1 - y /\ h - 1 - y < h - 1 - yy
            BY <1>2, <1>3, <1>4, <4>1
      <4>5. w - 1 - x \in 0 .. w - 1 /\ w \in Nat /\ p \in Nat
            BY <1>3
      <4>6. ASSUME NEW z \in 0 .. w - 1
            PROVE  /\ i # z + y * p /\ i # w - 1 - z + (h - 1 - y) * p
                   /\ j # z + y * p /\ j # w - 1 - z + (h - 1 - y) * p
        <5>1. w - 1 - z \in 0 .. w - 1 /\ h - 1 - y \in Nat
              BY <1>3, <1>4
        <5>2. yy # y /\ yy # h - 1 - y /\ h - 1 - yy # y /\ h - 1 - yy # h - 1 - y
              BY <4>1, <4>4, <1>4, <5>1
        <5>3. i # z + y * p /\ i # w - 1 - z + (h - 1 - y) * p
              BY <1>3, <1>4, <4>1, <4>5, <5>1, <5>2, Places
        <5>4. j # z + y * p /\ j # w - 1 - z + (h - 1 - y) * p
              BY <1>3, <1>4, <4>4, <4>5, <5>1, <5>2, Places
        <5> QED
            BY <5>3, <5>4
      <4> HIDE DEF i, j
      <4>7. tmp'[i] = tmp[i] /\ tmp'[j] = tmp[j]
            BY <1>2, <4>3, <4>6
      <4>8. {i, j} \subseteq DOMAIN tmp'
            BY <1>2, <4>3
      <4>9. /\ {i, j} \subseteq DOMAIN tmp'
            /\ tmp'[i] = Rgb(Pix(x, yy), Opp(x, yy), ratio)
            /\ tmp'[j] = Rgb(Opp(x, yy), Pix(x, yy), ratio)
            BY <4>3, <4>7, <4>8
      <4> QED
          BY <4>9 DEF i, j
    <3> QED
        BY <3>1, <3>2
  <2>2. ASSUME NEW yy \in 0 .. y
        PROVE  LineDrawn(yy)'
        BY <1>1, <2>1 DEF LineDrawn, Pix, Opp, w, h, p
  <2>3. y' - 1 = y
        BY <1>1, <1>4
  <2> QED
      BY <2>2, <2>3 DEF LinesInv
<1> QED
    BY <1>5, <1>6, <1>7, <1>8, <1>9 DEF ScreenInv

LEMMA ScreenInvStep ==
  ASSUME ScreenInv, [Next]_vars
  PROVE  ScreenInv'
<1> USE DEF Visible, Half
<1>1. CASE UNCHANGED screenVars
      BY <1>1 DEF screenVars, drawVars, ScreenInv, ScreenTypeOK, ModeInv, PointersInv,
                  OnScreen, LinesInv, LineDrawn, Pix, Opp
<1>2. CASE FbInitFails
      BY <1>2 DEF FbInitFails, drawVars, ScreenInv, ScreenTypeOK, ModeInv, PointersInv,
                  OnScreen, LinesInv
<1>3. ASSUME NEW m \in Modes, FbInitOk(m)
      PROVE  ScreenInv'
      BY <1>3 DEF FbInitOk, drawVars, ScreenInv, ScreenTypeOK, ModeInv, PointersInv,
                  OnScreen, LinesInv
<1>4. CASE VpuReturns
  <2>1. Texts \in Nat \ {0}
        BY ScreenAssumption
  <2>2. 0 < 2 * Texts
        BY <2>1
  <2> QED
      BY <1>4, <2>2 DEF VpuReturns, drawVars, ScreenInv, ScreenTypeOK, ModeInv,
                        PointersInv, OnScreen, LinesInv
<1>5. CASE DisplayChar
  <2>1. /\ stage = "error" /\ stage' = IF glyphs + 1 = 2 * Texts THEN "show" ELSE stage
        /\ glyphs' = glyphs + 1
        /\ UNCHANGED <<vc4, fb, ptr, rptr, y, ratio, up>>
        BY <1>5 DEF DisplayChar, drawVars
  <2>2. /\ DOMAIN tmp' \subseteq Visible
        /\ \A i \in DOMAIN tmp' : tmp'[i] = Glyph \/ (i \in DOMAIN tmp /\ tmp'[i] = tmp[i])
        BY <1>5, GlyphDraws
  <2>3. glyphs < 2 * Texts /\ fb \in Modes
        BY <2>1 DEF ScreenInv, ModeInv
  <2>4. Texts \in Nat \ {0}
        BY ScreenAssumption
  <2>5. glyphs' \in 0 .. 2 * Texts /\ (glyphs' # 2 * Texts => glyphs' < 2 * Texts)
        BY <2>1, <2>3, <2>4 DEF ScreenInv, ScreenTypeOK
  <2>6. \A i \in DOMAIN tmp' : tmp'[i] \in Color \/ tmp'[i] = Glyph
        BY <2>2 DEF ScreenInv, ScreenTypeOK
  <2>7. ScreenTypeOK'
        BY <2>1, <2>5, <2>6 DEF ScreenInv, ScreenTypeOK
  <2>8. ModeInv' /\ PointersInv' /\ LinesInv'
        BY <2>1, <2>3, <2>5 DEF ModeInv, PointersInv, LinesInv
  <2>9. OnScreen'
        BY <2>1, <2>2 DEF OnScreen
  <2> QED
      BY <2>7, <2>8, <2>9 DEF ScreenInv
<1>6. CASE Show
      BY <1>6 DEF Show, drawVars, ScreenInv, ScreenTypeOK, ModeInv, PointersInv,
                  OnScreen, LinesInv
<1>7. CASE Frame
  <2>1. /\ stage = "frame" /\ stage' = "lines" /\ ptr' = 0 /\ y' = 0
        /\ rptr' = fb.pitch * (fb.height - 1) + fb.width - 1
        /\ UNCHANGED <<vc4, fb, tmp, ratio, up, glyphs>>
        BY <1>7 DEF Frame
  <2>2. fb \in Modes
        BY <2>1 DEF ScreenInv, ModeInv
  <2>3. fb.width \in Nat \ {0} /\ fb.height \in Nat \ {0} /\ fb.pitch \in Nat \ {0}
        BY <2>2, ModeSizes
  <2>4. fb.height \div 2 \in Nat
        BY <2>3, Quotient
  <2>5. rptr' \in Int /\ rptr' = (fb.height - 1 - 0) * fb.pitch + fb.width - 1 /\ 0 * fb.pitch = 0
        BY <2>1, <2>3
  <2>6. ScreenTypeOK'
        BY <2>1, <2>5 DEF ScreenInv, ScreenTypeOK
  <2>7. ModeInv' /\ OnScreen'
        BY <2>1 DEF ScreenInv, ModeInv, OnScreen
  <2>8. PointersInv'
        BY <2>1, <2>4, <2>5 DEF PointersInv
  <2>9. LinesInv'
        BY <2>1 DEF LinesInv
  <2> QED
      BY <2>6, <2>7, <2>8, <2>9 DEF ScreenInv
<1>8. CASE Line
      BY <1>8, LineStep
<1>9. CASE FrameDone
  <2>1. /\ stage = "lines" /\ stage' = "frame"
        /\ UNCHANGED <<vc4, fb, tmp, ptr, rptr, y, glyphs>>
        BY <1>9 DEF FrameDone, drawVars
  <2>2. ratio' \in 0 .. 2^RATIO_WIDTH - 1 /\ up' \in BOOLEAN
        BY <1>9, RatioStep
  <2> QED
      BY <2>1, <2>2 DEF ScreenInv, ScreenTypeOK, ModeInv, PointersInv, OnScreen, LinesInv
<1> QED
    BY <1>1, <1>2, <1>3, <1>4, <1>5, <1>6, <1>7, <1>8, <1>9, ScreenMoves

LEMMA ScreenInvariant == Spec => []ScreenInv
<1>1. Init => ScreenInv
  <2>1. 0 \in 0 .. 2^RATIO_WIDTH - 1 /\ Texts \in Nat
    <3>1. 2^RATIO_WIDTH \in Nat \ {0} /\ Texts \in Nat
          BY PowerOfTwo, ScreenAssumption
    <3> QED
        BY <3>1
  <2> QED
      BY <2>1 DEF Init, ScreenInit, ScreenInv, ScreenTypeOK, ModeInv, PointersInv, OnScreen,
                  LinesInv
<1>2. ScreenInv /\ [Next]_vars => ScreenInv'
      BY ScreenInvStep
<1> QED
    BY <1>1, <1>2, PTL DEF Spec

(* The variables of main0, of the serial line and of the demonstration     *)
(* keep their types: above all, the ratio is one of mix8's weights, and    *)
(* the pointer to the lower line stays a number of the buffer.             *)
THEOREM TypeCorrect == Spec => []TypeOK
<1>1. IInv /\ ScreenInv => TypeOK
      BY DEF IInv, TypeInv, PcType, ScreenInv, TypeOK
<1> QED
    BY <1>1, Invariant, ScreenInvariant, PTL

(* For every screen the firmware may answer, of an odd or an even number   *)
(* of lines and whatever its pitch, for every ring and width of the ratio: *)
(* app_screen_demo writes no word that is not visible, every frame covers  *)
(* all lines but the middle one, and the two pixels of a pair share their  *)
(* two colors out.                                                         *)
THEOREM FramesAreRight == Spec => []FrameIsRight
<1>1. ASSUME ScreenInv
      PROVE  FrameIsRight
  <2>1. DOMAIN tmp \subseteq Visible
        BY <1>1 DEF ScreenInv, OnScreen
  <2>2. ASSUME stage = "lines", y >= Half, NEW q \in Drawn, NEW k \in 1 .. 3
        PROVE  LET a == Pix(q[1], q[2])[k]
                   b == Opp(q[1], q[2])[k]
                   m == At(q[1], q[2])[k]
               IN  /\ IF a <= b THEN m \in a .. b ELSE m \in b .. a
                   /\ a + b - m - At(fb.width - 1 - q[1], fb.height - 1 - q[2])[k] \in {0, 1}
    <3> DEFINE w == fb.width
               h == fb.height
               p == fb.pitch
               x == q[1]
               yy == q[2]
    <3>1. fb \in Modes
          BY <1>1, <2>2 DEF ScreenInv, ModeInv
    <3>2. w \in Nat \ {0} /\ h \in Nat \ {0} /\ p \in Nat \ {0}
          BY <3>1, ModeSizes
    <3>3. x \in 0 .. w - 1 /\ yy \in 0 .. h - 1 /\ (yy < Half \/ yy >= h - Half)
          BY <2>2 DEF Drawn, Half
    <3>4. Half \in Nat
          BY <3>2, Quotient DEF Half
    <3>5. \A z \in 0 .. Half - 1 : LineDrawn(z)
      <4>1. y \in Nat /\ y <= Half
            BY <1>1, <2>2 DEF ScreenInv, ScreenTypeOK, PointersInv
      <4>2. y = Half
            BY <2>2, <3>4, <4>1
      <4> QED
          BY <1>1, <2>2, <4>2 DEF ScreenInv, LinesInv
    <3> HIDE DEF w, h, p, x, yy
    <3>6. CASE yy < Half
      <4>1. LineDrawn(yy)
            BY <3>3, <3>4, <3>5, <3>6, <3>2
      <4>2. /\ At(x, yy) = Rgb(Pix(x, yy), Opp(x, yy), ratio)
            /\ At(w - 1 - x, h - 1 - yy) = Rgb(Opp(x, yy), Pix(x, yy), ratio)
            BY <4>1, <3>3 DEF LineDrawn, At, w, h
      <4> QED
          BY <1>1, <3>1, <3>3, <4>2, Pairs DEF x, yy, w, h
    <3>7. CASE ~(yy < Half)
      <4> DEFINE x2 == w - 1 - x
                 y2 == h - 1 - yy
      <4>1. /\ x2 \in 0 .. w - 1 /\ y2 \in 0 .. h - 1 /\ y2 \in 0 .. Half - 1
            /\ w - 1 - x2 = x /\ h - 1 - y2 = yy
            BY <3>2, <3>3, <3>4, <3>7
      <4>2. LineDrawn(y2)
            BY <3>5, <4>1
      <4>3. Opp(x2, y2) = Pix(x, yy) /\ Opp(x, yy) = Pix(x2, y2)
            BY <4>1 DEF Opp, w, h
      <4> HIDE DEF x2, y2
      <4>4. /\ At(x2, y2) = Rgb(Pix(x2, y2), Opp(x2, y2), ratio)
            /\ At(x, yy) = Rgb(Opp(x2, y2), Pix(x2, y2), ratio)
            BY <4>1, <4>2 DEF LineDrawn, At, w, h
      <4>5. LET a == Pix(x, yy)[k]
                b == Opp(x, yy)[k]
                m == At(x, yy)[k]
            IN  /\ IF a <= b THEN m \in a .. b ELSE m \in b .. a
                /\ a + b - m - At(x2, y2)[k] \in {0, 1}
            BY <1>1, <2>2, <3>1, <4>1, <4>3, <4>4, Pairs DEF w, h
      <4> QED
          BY <4>5 DEF x, yy, x2, y2, w, h
    <3> QED
        BY <3>6, <3>7
  <2> QED
      BY <2>1, <2>2 DEF FrameIsRight, Pix, Opp, Half
<1> QED
    BY <1>1, ScreenInvariant, PTL
=============================================================================
