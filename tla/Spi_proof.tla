------------------------------ MODULE Spi_proof ------------------------------
(***************************************************************************)
(* What the run of Spi checks for FIFOs of three bytes, proved for every   *)
(* capacity, every size of a frame and every length of a stream: a polled  *)
(* transfer returns the answer to its own command, and a stream publishes  *)
(* no word that is not there.                                              *)
(***************************************************************************)
EXTENDS Spi, SequenceTheorems, TLAPS

USE SpiAssumption

Polled   == {"start", "write", "read", "ta16", "write16", "done16", "read16"}
Sending  == {"write", "read", "write16", "done16"}
ByDma    == {"dma", "dmaLoop", "dmaReceive", "dmaWait"}

(* The command whose answer this frame brings; a frame of two bytes is     *)
(* still being read when the converter has taken the next command.         *)
Answered == IF pc \in {"read16", "idle"} THEN expected ELSE latched

(* Every byte of a frame is to be written, in the TX FIFO, in the RX FIFO  *)
(* or in the buffer, in that order.                                        *)
BytesInv ==
  /\ \A k \in 1 .. Len(got) : got[k][2] = k
  /\ pc \in Sending \union {"read16"} =>
       /\ left + Len(tx) + Len(rx) + Len(got) = size
       /\ shifted = Len(got) + Len(rx)
       /\ \A k \in 1 .. Len(got) : got[k] = <<Answered, k>>
       /\ \A k \in 1 .. Len(rx) : rx[k] = <<Answered, Len(got) + k>>
  /\ pc \in {"write", "write16"} => left > 0
  /\ pc \in {"read", "done16", "read16"} => left = 0
  /\ pc = "read16" => Len(got) < 2
  /\ pc \in {"write16", "done16"} => Len(got) = 0
  /\ pc \in {"ta16", "write16", "done16", "read16"} => size = 2

(* No transfer leaves anything in a FIFO. *)
FifosEmpty ==
  /\ pc \notin Sending => tx = <<>>
  /\ pc \in {"idle", "start", "ta16", "dma", "dmaLoop"} => rx = <<>>

(* In the last frame the converter has the command the caller is after.    *)
CallInv ==
  /\ pc # "idle" => (pc \in Polled <=> expected # None)
  /\ pc \in Polled => size > 0
  /\ pc \in {"start", "write", "read"} =>
       /\ frames \in {0, 1}
       /\ IF frames = 0 THEN latched = expected ELSE command = expected
  /\ pc \in {"ta16", "write16", "done16"} => latched = expected
  /\ pc \in {"idle", "ta16", "write16", "done16", "read16"} => frames = 0

(* A word goes through the RX FIFO alone, and channel 1 takes it last. *)
DmaInv ==
  /\ pc \notin {"dmaReceive", "dmaWait"} => active = {}
  /\ pc \in ByDma => frames <= MaxWords + 1 /\ size <= MaxWords + 1
  /\ pc \in {"dmaLoop", "dmaReceive", "dmaWait"} =>
       /\ shifted = Len(got) + Len(rx)
       /\ \A k \in 1 .. Len(rx) : rx[k][2] = Len(got) + k
       /\ left <= size
  /\ pc = "dmaLoop" => Len(got) = size - left
  /\ pc \in {"dmaReceive", "dmaWait"} /\ (pc = "dmaWait" => 1 \in active) =>
       /\ Len(got) = size - left - 1
       /\ Len(rx) = IF 0 \in active THEN 0 ELSE 1
  /\ pc = "dmaReceive" => 1 \notin active
  /\ pc = "dmaWait" /\ 1 \notin active =>
       Len(got) = size - left /\ rx = <<>> /\ active = {}

(* What a stream has counted and published, against the words it has       *)
(* stored.                                                                 *)
ReadyInv ==
  expected = None =>
    /\ Watched => size <= MaxWords \/ pc = "idle"
    /\ ~Watched \/ pc = "dma" => ready = 0
    /\ Watched /\ pc = "dmaLoop" => ready = Len(got)
    /\ Watched /\ pc \in {"dmaReceive", "dmaWait"} => ready = size - left - 1
    /\ nonblocking /\ (cleared \/ ready > 0) => ready_bytes = ready
    /\ stop.set => nonblocking /\ ready <= stop.at + 1
    /\ stop.set /\ pc \in {"dmaReceive", "dmaWait"} => ready <= stop.at

BusInv == TypeOK /\ BytesInv /\ FifosEmpty /\ CallInv /\ GetsItsAnswer
StreamInv == DmaInv /\ ReadyInv /\ ReadyIsThere
IInv == BusInv /\ StreamInv

-----------------------------------------------------------------------------
Bytes == Commands \X (Nat \ {0})

(* The byte at the head of a FIFO goes to the end of the buffer. *)
LEMMA Taken ==
  ASSUME NEW S, NEW s \in Seq(S), NEW t \in Seq(S), s # <<>>
  PROVE  /\ Tail(s) \in Seq(S) /\ Len(Tail(s)) = Len(s) - 1
         /\ \A k \in 1 .. Len(s) - 1 : Tail(s)[k] = s[k + 1]
         /\ Append(t, Head(s)) \in Seq(S) /\ Len(Append(t, Head(s))) = Len(t) + 1
         /\ \A k \in 1 .. Len(t) : Append(t, Head(s))[k] = t[k]
         /\ Append(t, Head(s))[Len(t) + 1] = s[1]
  OBVIOUS

LEMMA Appended ==
  ASSUME NEW S, NEW s \in Seq(S), NEW e \in S
  PROVE  /\ Append(s, e) \in Seq(S) /\ Len(Append(s, e)) = Len(s) + 1
         /\ \A k \in 1 .. Len(s) : Append(s, e)[k] = s[k]
         /\ Append(s, e)[Len(s) + 1] = e
  OBVIOUS

LEMMA Capacities == Capacity \in Nat /\ Capacity >= 2 /\ MaxWords \in Nat /\ MaxCalls \in Nat
  OBVIOUS

(* What a call of either kind leaves behind. *)
Called ==
  \/ \E s \in Sizes : RwBuffer(s) /\ UNCHANGED dmaVars
  \/ \E a \in Addresses : Ads8661Read(a) /\ UNCHANGED dmaVars
  \/ (Ads8661Sense \/ Read16) /\ UNCHANGED dmaVars

CalledByDma ==
  \/ \E a \in Addresses : Ads8661Write(a)
  \/ \E n \in 0 .. MaxWords : Ads8661StreamBlocking(n) \/ Ads8661StreamNonblocking(n)

LEMMA OneTaken ==
  ASSUME NEW r \in Nat, NEW g \in Nat, NEW r2 \in Nat, NEW g2 \in Nat,
         r2 = r - 1, g2 = g + 1
  PROVE  r2 + g2 = r + g
  OBVIOUS

LEMMA NoneTaken == \A g \in Nat : g < 2 /\ g # 1 => g + 1 < 2
  OBVIOUS

LEMMA Whole ==
  ASSUME NEW S, NEW s \in Seq(S), NEW a, \A k \in 1 .. Len(s) : s[k] = <<a, k>>
  PROVE  s = [k \in 1 .. Len(s) |-> <<a, k>>]
<1>1. s \in [1 .. Len(s) -> S]
      BY LenProperties
<1> QED
    BY <1>1

LEMMA GotWhole ==
  ASSUME got' \in Seq(Bytes), \A k \in 1 .. Len(got') : got'[k] = <<expected, k>>
  PROVE  got' = [k \in 1 .. Len(got') |-> <<expected, k>>]
  BY Whole

LEMMA Lengths ==
  ASSUME TypeOK
  PROVE  /\ Len(got) \in Nat /\ Len(tx) \in Nat /\ Len(rx) \in Nat
         /\ left \in Nat /\ size \in Nat /\ shifted \in Nat
<1>1. got \in Seq(Bytes) /\ rx \in Seq(Bytes) /\ tx \in Seq(Commands)
      BY DEF TypeOK, Bytes
<1>2. left \in Nat /\ size \in Nat /\ shifted \in Nat
      BY DEF TypeOK
<1> QED
    BY <1>1, <1>2

LEMMA TakesByte ==
  ASSUME TypeOK, TakeByte, rx # <<>>
  PROVE  /\ Len(rx) > 0 /\ Len(rx') = Len(rx) - 1 /\ Len(got') = Len(got) + 1
         /\ \A k \in 1 .. Len(rx) - 1 : rx'[k] = rx[k + 1]
         /\ \A k \in 1 .. Len(got) : got'[k] = got[k]
         /\ got'[Len(got) + 1] = rx[1]
<1>1. rx \in Seq(Bytes) /\ got \in Seq(Bytes)
      BY DEF TypeOK, Bytes
<1>2. rx' = Tail(rx) /\ got' = Append(got, Head(rx))
      BY DEF TakeByte
<1> QED
    BY <1>1, <1>2, Taken

(* What a byte taken, and a byte put, leave of the types. *)
LEMMA TakesTyped ==
  ASSUME TypeOK, TakeByte, rx # <<>>
  PROVE  got' \in Seq(Bytes) /\ rx' \in Seq(Bytes) /\ Len(rx') <= Capacity
<1>1. rx \in Seq(Bytes) /\ got \in Seq(Bytes) /\ Len(rx) <= Capacity /\ Len(rx) \in Nat
      BY DEF TypeOK, Bytes
<1>2. rx' = Tail(rx) /\ got' = Append(got, Head(rx))
      BY DEF TakeByte
<1> QED
    BY <1>1, <1>2, Taken, Capacities

LEMMA PutsTyped ==
  ASSUME TypeOK, tx' = Append(tx, command), Len(tx) < Capacity
  PROVE  tx' \in Seq(Commands) /\ Len(tx') <= Capacity
<1>1. tx \in Seq(Commands) /\ command \in Commands /\ Len(tx) \in Nat
      BY DEF TypeOK
<1> QED
    BY <1>1, Appended, Capacities

LEMMA ReadyAgain ==
  ASSUME TypeOK, ReadyInv, expected = None, Watched, pc = "dmaWait"
  PROVE  ready + 1 \in 0 .. MaxWords
<1>1. ready = size - left - 1 /\ size <= MaxWords
      BY DEF ReadyInv
<1>2. ready \in 0 .. MaxWords /\ left \in Nat /\ size \in Nat
      BY Lengths DEF TypeOK
<1> QED
    BY <1>1, <1>2, Capacities

(* The second byte of spi_read16_bidirectional empties the RX FIFO.        *)
LEMMA LastByte ==
  ASSUME TypeOK, TakeByte, rx # <<>>, Len(rx) + Len(got) = 2, Len(got) = 1
  PROVE  rx' = <<>>
<1>1. Len(rx') = 0
      BY TakesByte, Lengths
<1>2. rx' \in Seq(Bytes)
      BY TakesTyped
<1> QED
    BY <1>1, <1>2

(* The numbers of the bytes of a frame, when one of them is taken. *)
LEMMA TakesNumbered ==
  ASSUME TypeOK, TakeByte, rx # <<>>, NEW a,
         \A k \in 1 .. Len(got) : got[k] = <<a, k>>,
         \A k \in 1 .. Len(rx) : rx[k] = <<a, Len(got) + k>>
  PROVE  /\ \A k \in 1 .. Len(got') : got'[k] = <<a, k>> /\ got'[k][2] = k
         /\ \A k \in 1 .. Len(rx') : rx'[k] = <<a, Len(got') + k>>
<1>1. Len(got) \in Nat /\ Len(rx) \in Nat \ {0}
      BY Lengths, TakesByte
<1>2. /\ Len(rx') = Len(rx) - 1 /\ Len(got') = Len(got) + 1
      /\ \A k \in 1 .. Len(rx) - 1 : rx'[k] = rx[k + 1]
      /\ \A k \in 1 .. Len(got) : got'[k] = got[k]
      /\ got'[Len(got) + 1] = rx[1]
      BY TakesByte
<1>3. rx[1] = <<a, Len(got) + 1>>
      BY <1>1
<1>4. ASSUME NEW k \in 1 .. Len(got')
      PROVE  got'[k] = <<a, k>>
  <2>1. CASE k \in 1 .. Len(got)
        BY <1>2, <2>1
  <2>2. CASE k = Len(got) + 1
        BY <1>2, <1>3, <2>2
  <2> QED
      BY <1>1, <1>2, <2>1, <2>2
<1>5. ASSUME NEW k \in 1 .. Len(rx')
      PROVE  rx'[k] = <<a, Len(got') + k>>
  <2>1. k + 1 \in 1 .. Len(rx) /\ Len(got) + (k + 1) = Len(got') + k
        BY <1>1, <1>2
  <2>2. rx'[k] = rx[k + 1] /\ rx[k + 1] = <<a, Len(got) + (k + 1)>>
        BY <1>1, <1>2, <2>1
  <2> QED
      BY <2>1, <2>2
<1> QED
    BY <1>4, <1>5

LEMMA Read16Takes ==
  ASSUME TypeOK, BytesInv, pc = "read16", TakeByte, rx # <<>>
  PROVE  \A k \in 1 .. Len(got') : got'[k] = <<expected, k>>
<1>1. /\ \A k \in 1 .. Len(got) : got[k] = <<expected, k>>
      /\ \A k \in 1 .. Len(rx) : rx[k] = <<expected, Len(got) + k>>
      BY DEF BytesInv, Answered
<1> QED
    BY <1>1, TakesNumbered

LEMMA SendsByte ==
  ASSUME TypeOK, tx' = Append(tx, command)
  PROVE  Len(tx') = Len(tx) + 1
  BY Appended DEF TypeOK

LEMMA ShiftsByte ==
  ASSUME TypeOK, Shift
  PROVE  /\ Len(tx) > 0 /\ Len(tx') = Len(tx) - 1 /\ Len(rx') = Len(rx) + 1
         /\ \A k \in 1 .. Len(rx) : rx'[k] = rx[k]
         /\ rx'[Len(rx) + 1] = <<latched, shifted + 1>>
<1>1. /\ tx \in Seq(Commands) /\ rx \in Seq(Bytes) /\ tx # <<>>
      /\ <<latched, shifted + 1>> \in Bytes
      BY SMTT(30) DEF TypeOK, Bytes, Shift
<1>2. tx' = Tail(tx) /\ rx' = Append(rx, <<latched, shifted + 1>>)
      BY DEF Shift
<1> QED
    BY <1>1, <1>2, Appended

(* A polled call is after the answer to its own command, or to the one the *)
(* converter has.                                                          *)
LEMMA CallIs ==
  ASSUME TypeOK, Called
  PROVE  \E to \in {"start", "ta16"}, s \in Nat \ {0}, c \in Commands, e \in Commands, n \in {0, 1} :
           /\ Call(to, s, c, n, e) /\ UNCHANGED dmaVars
           /\ IF n = 0 THEN e = latched ELSE e = c
           /\ to = "ta16" => s = 2 /\ n = 0
<1> USE DEF TypeOK, Commands
<1>1. CASE \E s \in Sizes : RwBuffer(s) /\ UNCHANGED dmaVars
      BY <1>1 DEF RwBuffer
<1>2. CASE \E a \in Addresses : Ads8661Read(a) /\ UNCHANGED dmaVars
      BY <1>2 DEF Ads8661Read, CommandSize
<1>3. CASE Ads8661Sense /\ UNCHANGED dmaVars
  <2>1. Call("start", 4, Nop, 1, Nop) /\ UNCHANGED dmaVars
        BY <1>3 DEF Ads8661Sense, CommandSize
  <2>2. Nop \in Commands /\ 4 \in Nat \ {0} /\ 1 \in {0, 1}
        OBVIOUS
  <2> QED
      BY <2>1, <2>2
<1>4. CASE Read16 /\ UNCHANGED dmaVars
      BY <1>4 DEF Read16
<1> QED
    BY <1>1, <1>2, <1>3, <1>4 DEF Called

(* A call of a transfer by DMA leaves *ready_bytes as it was, or cleared.  *)
LEMMA DmaCallIs ==
  ASSUME TypeOK, CalledByDma
  PROVE  \E c \in Commands, n \in 0 .. MaxWords + 1, nb \in BOOLEAN :
           /\ CallDma(c, n, nb) /\ (nb => n > 0)
           /\ {cleared'} \subseteq BOOLEAN /\ ready_bytes' \in {0, ready_bytes}
           /\ nb /\ cleared' => ready_bytes' = 0
           /\ \E set \in BOOLEAN : stop' = [set |-> set, at |-> 0] /\ (set => nb)
<1> USE Capacities DEF Commands
<1>1. CASE \E a \in Addresses : Ads8661Write(a)
  <2>1. PICK a \in Addresses : Ads8661Write(a)
        BY <1>1
  <2>2. a \in Commands /\ 0 \in 0 .. MaxWords + 1 /\ cleared \in BOOLEAN
        BY DEF TypeOK
  <2>3. /\ CallDma(a, 0, FALSE) /\ cleared' = cleared /\ ready_bytes' = ready_bytes
        /\ stop' = [set |-> FALSE, at |-> 0]
        BY <2>1 DEF Ads8661Write
  <2> QED
      BY <2>2, <2>3
<1>2. CASE \E n \in 0 .. MaxWords : Ads8661StreamBlocking(n)
  <2>1. PICK n \in 0 .. MaxWords : Ads8661StreamBlocking(n)
        BY <1>2
  <2>2. Nop \in Commands /\ n + 1 \in 0 .. MaxWords + 1 /\ cleared \in BOOLEAN
        BY DEF TypeOK
  <2>3. /\ CallDma(Nop, n + 1, FALSE) /\ cleared' = cleared /\ ready_bytes' = ready_bytes
        /\ stop' = [set |-> FALSE, at |-> 0]
        BY <2>1 DEF Ads8661StreamBlocking
  <2> QED
      BY <2>2, <2>3
<1>3. CASE \E n \in 0 .. MaxWords : Ads8661StreamNonblocking(n)
  <2>1. PICK n \in 0 .. MaxWords : Ads8661StreamNonblocking(n)
        BY <1>3
  <2>2. Nop \in Commands /\ n + 1 \in 0 .. MaxWords + 1 /\ n + 1 > 0
        OBVIOUS
  <2>3. /\ CallDma(Nop, n + 1, TRUE)
        /\ ready_bytes' \in {0, ready_bytes} /\ cleared' = (ready_bytes' = 0)
        /\ stop' \in [set : BOOLEAN, at : {0}]
        BY <2>1 DEF Ads8661StreamNonblocking
  <2>4. \E set \in BOOLEAN : stop' = [set |-> set, at |-> 0]
        BY <2>3
  <2>5. cleared' \in BOOLEAN /\ (cleared' => ready_bytes' = 0)
        BY <2>3
  <2> QED
      BY <2>2, <2>3, <2>4, <2>5
<1> QED
    BY <1>1, <1>2, <1>3 DEF CalledByDma

LEMMA Moves ==
  ASSUME [Next]_vars
  PROVE  \/ UNCHANGED vars
         \/ (Called \/ CalledByDma)
         \/ UNCHANGED dmaVars /\ (Start \/ WriteByte \/ ReadByte \/ Finish)
         \/ UNCHANGED dmaVars /\ (SetTa16 \/ WriteByte16 \/ Done16 \/ ReadByte16)
         \/ UNCHANGED dmaVars /\ Shift
         \/ StartDma \/ SendWord \/ ReceiveWord \/ WaitWord \/ EndDma
         \/ Channel0 \/ Channel1 \/ Evict \/ Stop
  BY DEF Next, PolledCall, CoreStep, DmaStep, Called, CalledByDma

LEMMA TypeStep ==
  ASSUME IInv, [Next]_vars
  PROVE  TypeOK'
<1> USE DEF IInv, BusInv, TypeOK, callVars, countVars, dmaVars, Commands
<1> USE Capacities
<1>1. CASE UNCHANGED vars
      BY <1>1 DEF vars
<1>2. CASE Called
  <2>1. PICK to \in {"start", "ta16"}, s \in Nat \ {0}, c \in Commands, e \in Commands, n \in {0, 1} :
          /\ Call(to, s, c, n, e) /\ UNCHANGED dmaVars
          /\ IF n = 0 THEN e = latched ELSE e = c
          /\ to = "ta16" => s = 2 /\ n = 0
        BY <1>2, CallIs
  <2> QED
      BY <2>1 DEF Call
<1>3. CASE CalledByDma
  <2>1. PICK c \in Commands, n \in 0 .. MaxWords + 1, nb \in BOOLEAN :
          /\ CallDma(c, n, nb) /\ (nb => n > 0)
          /\ {cleared'} \subseteq BOOLEAN /\ ready_bytes' \in {0, ready_bytes}
          /\ nb /\ cleared' => ready_bytes' = 0
          /\ \E set \in BOOLEAN : stop' = [set |-> set, at |-> 0] /\ (set => nb)
        BY <1>3, DmaCallIs
  <2> QED
      BY <2>1 DEF CallDma, Call
<1>4. CASE UNCHANGED dmaVars /\ Start
      BY <1>4 DEF Start
<1>5. CASE UNCHANGED dmaVars /\ WriteByte
  <2>1. /\ pc = "write" /\ pc' \in {"write", "read"} /\ Len(tx) < Capacity /\ left > 0
        /\ tx' = Append(tx, command) /\ left' = left - 1
        /\ UNCHANGED <<callVars, got, rx, ta, shifted, latched, dmaVars>>
        BY <1>5 DEF WriteByte, PutByte, BytesInv
  <2>2. tx' \in Seq(Commands) /\ Len(tx') <= Capacity /\ left' \in Nat
        BY <2>1, PutsTyped
  <2> QED
      BY <2>1, <2>2
<1>6. CASE UNCHANGED dmaVars /\ ReadByte
  <2>1. /\ TakeByte /\ rx # <<>>
        /\ UNCHANGED <<pc, callVars, left, tx, ta, shifted, latched, dmaVars>>
        BY <1>6 DEF ReadByte, TakeByte
  <2> QED
      BY <2>1, TakesTyped DEF Bytes
<1>7. CASE UNCHANGED dmaVars /\ Finish
  <2>1. CASE frames > 0
    <3>1. /\ pc' = "start" /\ command' = Nop /\ frames' = frames - 1
          /\ ta' = FALSE /\ latched' = command
          /\ UNCHANGED <<size, left, got, tx, rx, shifted, expected, calls, dmaVars>>
          BY <1>7, <2>1 DEF Finish, EndFrame
    <3>2. frames' \in 0 .. MaxWords + 1
          BY <2>1, <3>1
    <3> QED
        BY <3>1, <3>2
  <2>2. CASE ~(frames > 0)
        BY <1>7, <2>2 DEF Finish, EndFrame
  <2> QED
      BY <2>1, <2>2
<1>8. CASE UNCHANGED dmaVars /\ SetTa16
      BY <1>8 DEF SetTa16
<1>9. CASE UNCHANGED dmaVars /\ WriteByte16
  <2>1. /\ pc' \in {"write16", "done16"} /\ tx' = Append(tx, command) /\ left' = left - 1
        /\ UNCHANGED <<callVars, got, rx, ta, shifted, latched, dmaVars>>
        BY <1>9 DEF WriteByte16
  <2>2. left > 0 /\ Len(tx) < Capacity
        BY <1>9, Lengths DEF WriteByte16, BytesInv, Sending
  <2>3. tx' \in Seq(Commands) /\ Len(tx') <= Capacity /\ left' \in Nat
        BY <2>1, <2>2, PutsTyped
  <2> QED
      BY <2>1, <2>3
<1>10. CASE UNCHANGED dmaVars /\ Done16
       BY <1>10 DEF Done16, EndFrame
<1>11. CASE UNCHANGED dmaVars /\ ReadByte16
       BY <1>11, Taken DEF ReadByte16, TakeByte, BytesInv, FifosEmpty, Sending
<1>12. CASE UNCHANGED dmaVars /\ Shift
       BY SMTT(30), <1>12, Appended DEF Shift
<1>13. CASE StartDma
       BY <1>13 DEF StartDma
<1>14. CASE SendWord
       BY <1>14 DEF SendWord
<1>15. CASE ReceiveWord
       BY <1>15 DEF ReceiveWord
<1>16. CASE WaitWord
  <2>1. /\ pc = "dmaWait" /\ pc' = "dmaLoop"
        /\ IF Watched THEN ready' = ready + 1 /\ ready_bytes' = ready'
                      ELSE UNCHANGED <<ready, ready_bytes>>
        /\ UNCHANGED <<callVars, left, got, tx, rx, ta, shifted, latched,
                       nonblocking, cleared, stop, line, memory, active>>
        BY <1>16 DEF WaitWord, Publish
  <2>2. expected = None
        BY <2>1 DEF CallInv, Polled
  <2>3. CASE Watched
    <3>1. ready + 1 \in 0 .. MaxWords
          BY <2>1, <2>2, <2>3, ReadyAgain DEF StreamInv
    <3> QED
        BY <2>1, <2>3, <3>1
  <2>4. CASE ~Watched
        BY <2>1, <2>4
  <2> QED
      BY <2>3, <2>4
<1>17. CASE EndDma
       BY SMTT(30), <1>17 DEF EndDma
<1>18. CASE Channel0
  <2>1. /\ active' = active \ {0} /\ latched' = memory /\ memory # None
        /\ shifted' = shifted + 1 /\ rx' = Append(rx, <<latched, shifted + 1>>)
        /\ UNCHANGED <<pc, callVars, left, got, tx, ta, countVars, stop, line, memory>>
        BY <1>18 DEF Channel0, StreamInv, DmaInv
  <2>2. Len(rx) = 0
        BY <1>18 DEF Channel0, StreamInv, DmaInv
  <2>3. <<latched, shifted + 1>> \in Bytes
        BY DEF Bytes
  <2>4. rx' \in Seq(Bytes) /\ Len(rx') = 1
        BY <2>1, <2>2, <2>3, Appended DEF Bytes
  <2> QED
      BY <2>1, <2>4 DEF Bytes
<1>19. CASE Channel1
  <2>1. /\ TakeByte /\ rx # <<>> /\ active' = active \ {1}
        /\ UNCHANGED <<pc, callVars, left, tx, ta, shifted, latched, countVars, stop, line, memory>>
        BY <1>19 DEF Channel1, TakeByte
  <2> QED
      BY <2>1, TakesTyped DEF Bytes
<1>20. CASE Evict
       BY <1>20 DEF Evict
<1>21. CASE Stop
       BY <1>21 DEF Stop
<1> QED
    BY <1>1, <1>2, <1>3, <1>4, <1>5, <1>6, <1>7, <1>8, <1>9, <1>10, <1>11, <1>12, <1>13,
       <1>14, <1>15, <1>16, <1>17, <1>18, <1>19, <1>20, <1>21, Moves
LEMMA CallStep ==
  ASSUME IInv, TypeOK', [Next]_vars
  PROVE  CallInv'
<1> USE DEF IInv, BusInv, TypeOK, callVars, countVars, dmaVars, Commands, CallInv, Polled
<1> USE Capacities
<1>1. CASE UNCHANGED vars
      BY <1>1 DEF vars
<1>2. CASE Called
  <2>1. PICK to \in {"start", "ta16"}, s \in Nat \ {0}, c \in Commands, e \in Commands, n \in {0, 1} :
          /\ Call(to, s, c, n, e) /\ UNCHANGED dmaVars
          /\ IF n = 0 THEN e = latched ELSE e = c
          /\ to = "ta16" => s = 2 /\ n = 0
        BY <1>2, CallIs
  <2> QED
      BY <2>1 DEF Call
<1>3. CASE CalledByDma
  <2>1. PICK c \in Commands, n \in 0 .. MaxWords + 1, nb \in BOOLEAN :
          /\ CallDma(c, n, nb) /\ (nb => n > 0)
          /\ {cleared'} \subseteq BOOLEAN /\ ready_bytes' \in {0, ready_bytes}
          /\ nb /\ cleared' => ready_bytes' = 0
          /\ \E set \in BOOLEAN : stop' = [set |-> set, at |-> 0] /\ (set => nb)
        BY <1>3, DmaCallIs
  <2> QED
      BY <2>1 DEF CallDma, Call
<1>4. CASE UNCHANGED dmaVars /\ Start
      BY <1>4 DEF Start
<1>5. CASE UNCHANGED dmaVars /\ WriteByte
      BY <1>5 DEF WriteByte, PutByte
<1>6. CASE UNCHANGED dmaVars /\ ReadByte
      BY <1>6 DEF ReadByte, TakeByte
<1>7. CASE UNCHANGED dmaVars /\ Finish
      BY <1>7 DEF Finish, EndFrame
<1>8. CASE UNCHANGED dmaVars /\ SetTa16
      BY <1>8 DEF SetTa16
<1>9. CASE UNCHANGED dmaVars /\ WriteByte16
      BY <1>9 DEF WriteByte16
<1>10. CASE UNCHANGED dmaVars /\ Done16
       BY <1>10 DEF Done16, EndFrame
<1>11. CASE UNCHANGED dmaVars /\ ReadByte16
       BY <1>11 DEF ReadByte16, TakeByte
<1>12. CASE UNCHANGED dmaVars /\ Shift
       BY <1>12 DEF Shift
<1>13. CASE StartDma
       BY <1>13 DEF StartDma
<1>14. CASE SendWord
       BY <1>14 DEF SendWord
<1>15. CASE ReceiveWord
       BY <1>15 DEF ReceiveWord
<1>16. CASE WaitWord
       BY <1>16 DEF WaitWord, Publish, StreamInv, DmaInv, ByDma
<1>17. CASE EndDma
       BY <1>17 DEF EndDma
<1>18. CASE Channel0
       BY <1>18 DEF Channel0, StreamInv, DmaInv
<1>19. CASE Channel1
       BY <1>19 DEF Channel1, TakeByte
<1>20. CASE Evict
       BY <1>20 DEF Evict
<1>21. CASE Stop
       BY <1>21 DEF Stop
<1> QED
    BY <1>1, <1>2, <1>3, <1>4, <1>5, <1>6, <1>7, <1>8, <1>9, <1>10, <1>11, <1>12, <1>13, <1>14, <1>15, <1>16, <1>17, <1>18, <1>19, <1>20, <1>21, Moves

LEMMA FifoStep ==
  ASSUME IInv, TypeOK', [Next]_vars
  PROVE  FifosEmpty'
<1> USE DEF IInv, BusInv, TypeOK, callVars, countVars, dmaVars, Commands, FifosEmpty, BytesInv, Sending
<1> USE Capacities
<1>1. CASE UNCHANGED vars
      BY <1>1 DEF vars
<1>2. CASE Called
  <2>1. PICK to \in {"start", "ta16"}, s \in Nat \ {0}, c \in Commands, e \in Commands, n \in {0, 1} :
          /\ Call(to, s, c, n, e) /\ UNCHANGED dmaVars
          /\ IF n = 0 THEN e = latched ELSE e = c
          /\ to = "ta16" => s = 2 /\ n = 0
        BY <1>2, CallIs
  <2> QED
      BY <2>1 DEF Call
<1>3. CASE CalledByDma
  <2>1. PICK c \in Commands, n \in 0 .. MaxWords + 1, nb \in BOOLEAN :
          /\ CallDma(c, n, nb) /\ (nb => n > 0)
          /\ {cleared'} \subseteq BOOLEAN /\ ready_bytes' \in {0, ready_bytes}
          /\ nb /\ cleared' => ready_bytes' = 0
          /\ \E set \in BOOLEAN : stop' = [set |-> set, at |-> 0] /\ (set => nb)
        BY <1>3, DmaCallIs
  <2> QED
      BY <2>1 DEF CallDma, Call
<1>4. CASE UNCHANGED dmaVars /\ Start
      BY <1>4 DEF Start
<1>5. CASE UNCHANGED dmaVars /\ WriteByte
      BY <1>5, Appended DEF WriteByte, PutByte
<1>6. CASE UNCHANGED dmaVars /\ ReadByte
      BY <1>6, Taken DEF ReadByte, TakeByte
<1>7. CASE UNCHANGED dmaVars /\ Finish
      BY <1>7 DEF Finish, EndFrame
<1>8. CASE UNCHANGED dmaVars /\ SetTa16
      BY <1>8 DEF SetTa16
<1>9. CASE UNCHANGED dmaVars /\ WriteByte16
      BY <1>9, Appended DEF WriteByte16
<1>10. CASE UNCHANGED dmaVars /\ Done16
       BY <1>10 DEF Done16, EndFrame
<1>11. CASE UNCHANGED dmaVars /\ ReadByte16
  <2>1. /\ pc = "read16" /\ pc' = (IF Len(got) = 1 THEN "idle" ELSE "read16")
        /\ TakeByte /\ UNCHANGED tx
        BY <1>11 DEF ReadByte16, TakeByte
  <2>2. /\ tx = <<>> /\ Len(rx) + Len(got) = 2 /\ Len(got) < 2 /\ rx # <<>>
        BY <2>1, Lengths
  <2>3. pc' = "idle" => rx' = <<>>
        BY <2>1, <2>2, LastByte
  <2> QED
      BY <2>1, <2>2, <2>3
<1>12. CASE UNCHANGED dmaVars /\ Shift
       BY <1>12, Appended DEF Shift
<1>13. CASE StartDma
       BY <1>13 DEF StartDma
<1>14. CASE SendWord
       BY <1>14 DEF SendWord
<1>15. CASE ReceiveWord
       BY <1>15 DEF ReceiveWord
<1>16. CASE WaitWord
       BY <1>16 DEF WaitWord, Publish, StreamInv, DmaInv
<1>17. CASE EndDma
       BY <1>17 DEF EndDma
<1>18. CASE Channel0
       BY <1>18 DEF Channel0, StreamInv, DmaInv
<1>19. CASE Channel1
       BY <1>19 DEF Channel1, TakeByte, StreamInv, DmaInv
<1>20. CASE Evict
       BY <1>20 DEF Evict
<1>21. CASE Stop
       BY <1>21 DEF Stop
<1> QED
    BY <1>1, <1>2, <1>3, <1>4, <1>5, <1>6, <1>7, <1>8, <1>9, <1>10, <1>11, <1>12, <1>13, <1>14, <1>15, <1>16, <1>17, <1>18, <1>19, <1>20, <1>21, Moves
LEMMA BytesStep ==
  ASSUME IInv, TypeOK', [Next]_vars
  PROVE  BytesInv'
<1>0. TypeOK /\ BytesInv /\ FifosEmpty /\ CallInv /\ StreamInv
      BY DEF IInv, BusInv
<1>a. /\ Len(got) \in Nat /\ Len(tx) \in Nat /\ Len(rx) \in Nat
      /\ left \in Nat /\ size \in Nat /\ shifted \in Nat
      BY <1>0, Lengths
<1> USE <1>0, <1>a
<1>1. CASE UNCHANGED vars
      BY <1>1 DEF vars, callVars, BytesInv, Answered, Sending, TypeOK, FifosEmpty, CallInv
<1>2. CASE Called
  <2>1. PICK to \in {"start", "ta16"}, s \in Nat \ {0}, c \in Commands, e \in Commands, n \in {0, 1} :
          /\ Call(to, s, c, n, e) /\ UNCHANGED dmaVars
          /\ IF n = 0 THEN e = latched ELSE e = c
          /\ to = "ta16" => s = 2 /\ n = 0
        BY <1>2, CallIs
  <2> QED
      BY <2>1 DEF Call, BytesInv, Sending, Polled
<1>3. CASE CalledByDma
  <2>1. PICK c \in Commands, n \in 0 .. MaxWords + 1, nb \in BOOLEAN :
          /\ CallDma(c, n, nb) /\ (nb => n > 0)
          /\ {cleared'} \subseteq BOOLEAN /\ ready_bytes' \in {0, ready_bytes}
          /\ nb /\ cleared' => ready_bytes' = 0
          /\ \E set \in BOOLEAN : stop' = [set |-> set, at |-> 0] /\ (set => nb)
        BY <1>3, DmaCallIs
  <2> QED
      BY <2>1 DEF CallDma, Call, BytesInv, Sending
<1>4. CASE UNCHANGED dmaVars /\ Start
      BY <1>4 DEF Start, callVars, BytesInv, Answered, Sending, TypeOK, FifosEmpty, CallInv, Polled
<1>5. CASE UNCHANGED dmaVars /\ WriteByte
  <2>1. /\ pc = "write" /\ pc' = (IF left = 1 THEN "read" ELSE "write") /\ left' = left - 1
        /\ tx' = Append(tx, command) /\ UNCHANGED <<size, got, rx, latched, shifted>>
        BY <1>5 DEF WriteByte, PutByte, callVars
  <2>2. Len(tx') = Len(tx) + 1
        BY <2>1, SendsByte
  <2>3. left' \in Nat /\ (left = 1 <=> left' = 0) /\ left' + Len(tx') = left + Len(tx)
        BY <2>1, <2>2 DEF TypeOK, BytesInv
  <2>4. Answered' = Answered
        BY <2>1 DEF Answered
  <2>5. left + Len(tx) + Len(rx) + Len(got) = size /\ shifted = Len(got) + Len(rx)
        BY <2>1 DEF BytesInv, Sending
  <2>6. left' + Len(tx') + Len(rx') + Len(got') = size' /\ shifted' = Len(got') + Len(rx')
        BY <2>1, <2>2, <2>3, <2>5
  <2>7. (pc' = "write" => left' > 0) /\ (pc' = "read" => left' = 0)
        BY <2>1, <2>3
  <2> QED
      BY <2>1, <2>4, <2>6, <2>7 DEF BytesInv, Sending
<1>6. CASE UNCHANGED dmaVars /\ ReadByte
  <2>1. /\ pc = "read" /\ pc' = "read" /\ TakeByte /\ rx # <<>>
        /\ UNCHANGED <<size, left, tx, shifted, latched>>
        BY <1>6 DEF ReadByte, TakeByte, callVars
  <2>2. Answered' = Answered
        BY <2>1 DEF Answered
  <2>3. /\ Len(rx) > 0 /\ Len(rx') = Len(rx) - 1 /\ Len(got') = Len(got) + 1
        BY <2>1, <2>2, TakesByte
  <2>4. /\ \A k \in 1 .. Len(got') : got'[k] = <<Answered, k>> /\ got'[k][2] = k
        /\ \A k \in 1 .. Len(rx') : rx'[k] = <<Answered, Len(got') + k>>
        BY <2>1, <2>2, TakesNumbered DEF BytesInv, Sending
  <2>5. left = 0 /\ left + Len(tx) + Len(rx) + Len(got) = size /\ shifted = Len(got) + Len(rx)
        BY <2>1 DEF BytesInv, Sending
  <2>6. left' = 0 /\ left' + Len(tx') + Len(rx') + Len(got') = size' /\ shifted' = Len(got') + Len(rx')
        BY <2>1, <2>3, <2>5
  <2> QED
      BY <2>1, <2>2, <2>4, <2>6 DEF BytesInv, Sending
<1>7. CASE UNCHANGED dmaVars /\ Finish
      BY <1>7 DEF Finish, EndFrame, callVars, BytesInv, Answered, Sending, TypeOK, FifosEmpty, CallInv
<1>8. CASE UNCHANGED dmaVars /\ SetTa16
      BY <1>8 DEF SetTa16, callVars, BytesInv, Answered, Sending, TypeOK, FifosEmpty, CallInv
<1>9. CASE UNCHANGED dmaVars /\ WriteByte16
  <2>1. /\ pc = "write16" /\ pc' = (IF left = 1 THEN "done16" ELSE "write16")
        /\ left' = left - 1 /\ tx' = Append(tx, command)
        /\ UNCHANGED <<size, got, rx, latched, shifted>>
        BY <1>9 DEF WriteByte16, callVars
  <2>2. Len(tx') = Len(tx) + 1
        BY <2>1, SendsByte
  <2>3. left' \in Nat /\ (left = 1 <=> left' = 0) /\ left' + Len(tx') = left + Len(tx)
        BY <2>1, <2>2 DEF TypeOK, BytesInv
  <2>4. Answered' = Answered
        BY <2>1 DEF Answered
  <2>5. /\ left + Len(tx) + Len(rx) + Len(got) = size /\ shifted = Len(got) + Len(rx)
        /\ size = 2 /\ Len(got) = 0
        BY <2>1 DEF BytesInv, Sending
  <2>6. /\ left' + Len(tx') + Len(rx') + Len(got') = size' /\ shifted' = Len(got') + Len(rx')
        /\ size' = 2 /\ Len(got') = 0
        BY <2>1, <2>2, <2>3, <2>5
  <2>7. /\ pc' = "write16" => left' > 0
        /\ pc' = "done16" => left' = 0
        BY <2>1, <2>3
  <2> QED
      BY <2>1, <2>4, <2>6, <2>7 DEF BytesInv, Sending
<1>10. CASE UNCHANGED dmaVars /\ Done16
  <2>1. pc = "done16" /\ pc' = "read16" /\ tx = <<>> /\ UNCHANGED <<size, left, got, tx, rx, shifted>>
        BY <1>10 DEF Done16, EndFrame, callVars
  <2>2. Answered' = Answered
        BY <1>10, <2>1 DEF Answered, CallInv, Done16, callVars
  <2> QED
      BY <2>1, <2>2 DEF BytesInv, Sending
<1>11. CASE UNCHANGED dmaVars /\ ReadByte16
  <2>1. /\ pc = "read16" /\ pc' = (IF Len(got) = 1 THEN "idle" ELSE "read16") /\ TakeByte
        /\ UNCHANGED <<size, left, tx, shifted, expected>>
        BY <1>11 DEF ReadByte16, TakeByte, callVars
  <2>2. rx # <<>>
        BY <2>1 DEF BytesInv, FifosEmpty, Sending
  <2>3. /\ Len(rx) > 0 /\ Len(rx') = Len(rx) - 1 /\ Len(got') = Len(got) + 1
        BY <2>1, <2>2, TakesByte
  <2>4. /\ \A k \in 1 .. Len(got') : got'[k] = <<Answered, k>> /\ got'[k][2] = k
        /\ \A k \in 1 .. Len(rx') : rx'[k] = <<Answered, Len(got') + k>>
        BY <2>1, <2>2, TakesNumbered DEF BytesInv, Sending
  <2>5. Answered' = Answered
        BY <2>1 DEF Answered
  <2>6. /\ left = 0 /\ left + Len(tx) + Len(rx) + Len(got) = size /\ size = 2
        /\ shifted = Len(got) + Len(rx) /\ Len(got) < 2
        BY <2>1 DEF BytesInv, Sending
  <2>7. /\ left' = 0 /\ left' + Len(tx') + Len(rx') + Len(got') = size' /\ size' = 2
        /\ shifted' = Len(got') + Len(rx') /\ (pc' = "read16" => Len(got') < 2)
    <3>1. Len(tx) \in Nat /\ Len(rx) \in Nat /\ Len(got) \in Nat
          BY Lengths
    <3>2. Len(rx') \in Nat /\ Len(got') \in Nat
          BY <2>3, <3>1
    <3>3. Len(rx') + Len(got') = Len(rx) + Len(got)
          BY <2>3, <3>1, <3>2, OneTaken
    <3>4. /\ Len(tx') = Len(tx) /\ left' = left /\ size' = size /\ shifted' = shifted
          /\ pc' = "read16" => Len(got) # 1
          BY <2>1
    <3>5. pc' = "read16" => Len(got') < 2
          BY <2>3, <2>6, <3>1, <3>4, NoneTaken
    <3> QED
        BY <2>6, <3>1, <3>2, <3>3, <3>4, <3>5
  <2> QED
      BY <2>1, <2>4, <2>5, <2>7 DEF BytesInv, Sending
<1>12. CASE UNCHANGED dmaVars /\ Shift
  <2>1. tx # <<>> /\ UNCHANGED <<pc, size, left, got, latched>> /\ shifted' = shifted + 1
        BY <1>12 DEF Shift, callVars
  <2>2. pc \in Sending /\ Answered = latched /\ Answered' = latched
        BY <2>1 DEF FifosEmpty, Sending, Answered
  <2>3. /\ Len(tx') = Len(tx) - 1 /\ Len(rx') = Len(rx) + 1
        /\ \A k \in 1 .. Len(rx) : rx'[k] = rx[k]
        /\ rx'[Len(rx) + 1] = <<latched, shifted + 1>>
        BY <1>12, ShiftsByte
  <2>4. /\ \A k \in 1 .. Len(rx) : rx[k] = <<latched, Len(got) + k>>
        /\ shifted + 1 = Len(got) + (Len(rx) + 1)
        BY <2>2 DEF BytesInv
  <2>5. ASSUME NEW k \in 1 .. Len(rx')
        PROVE  rx'[k] = <<latched, Len(got) + k>>
    <3>1. CASE k \in 1 .. Len(rx)
          BY <2>3, <2>4, <3>1
    <3>2. CASE k = Len(rx) + 1
      <4>1. shifted + 1 = Len(got) + k
            BY <2>4, <3>2
      <4> QED
          BY <2>3, <3>2, <4>1
    <3> QED
        BY SMTT(30), <2>3, <3>1, <3>2
  <2>6. left + Len(tx) + Len(rx) + Len(got) = size
        BY <2>2 DEF BytesInv
  <2>7. /\ left' + Len(tx') + Len(rx') + Len(got') = size'
        /\ shifted' = Len(got') + Len(rx')
    <3>1. left' = left /\ size' = size /\ Len(got') = Len(got) /\ shifted' = shifted + 1
          BY <2>1
    <3>2. Len(tx') = Len(tx) - 1 /\ Len(rx') = Len(rx) + 1
          BY <2>3
    <3>3. shifted + 1 = Len(got) + (Len(rx) + 1)
          BY <2>4
    <3> QED
        BY <2>6, <3>1, <3>2, <3>3
  <2>8. \A k \in 1 .. Len(got') : got'[k] = <<latched, k>>
        BY <2>1, <2>2 DEF BytesInv
  <2> QED
      BY <2>1, <2>2, <2>5, <2>7, <2>8 DEF BytesInv, Sending
<1>13. CASE StartDma
       BY <1>13 DEF StartDma, callVars, BytesInv, Answered, Sending, TypeOK, FifosEmpty, CallInv
<1>14. CASE SendWord
       BY <1>14 DEF SendWord, callVars, BytesInv, Answered, Sending, TypeOK, FifosEmpty, CallInv, StreamInv, DmaInv
<1>15. CASE ReceiveWord
       BY <1>15 DEF ReceiveWord, callVars, BytesInv, Answered, Sending, TypeOK, FifosEmpty, CallInv, StreamInv, DmaInv
<1>16. CASE WaitWord
       BY <1>16 DEF WaitWord, Publish, callVars, BytesInv, Answered, Sending, TypeOK, FifosEmpty, CallInv, StreamInv, DmaInv
<1>17. CASE EndDma
       BY <1>17 DEF EndDma, callVars, BytesInv, Answered, Sending, TypeOK, FifosEmpty, CallInv, StreamInv, DmaInv
<1>18. CASE Channel0
       BY <1>18 DEF Channel0, callVars, BytesInv, Answered, Sending, TypeOK, FifosEmpty, CallInv, StreamInv, DmaInv
<1>19. CASE Channel1
  <2>1. TakeByte /\ rx # <<>> /\ pc \in ByDma /\ pc' = pc /\ UNCHANGED left
        BY <1>19 DEF Channel1, TakeByte, StreamInv, DmaInv, ByDma
  <2>2. rx[1][2] = Len(got) + 1
        BY <1>19, <2>1, TakesByte DEF Channel1, StreamInv, DmaInv, ByDma
  <2>3. /\ Len(got') = Len(got) + 1 /\ got'[Len(got) + 1] = rx[1]
        /\ \A k \in 1 .. Len(got) : got'[k] = got[k]
        BY <2>1, TakesByte
  <2>4. \A k \in 1 .. Len(got) : got[k][2] = k
        BY DEF BytesInv
  <2>5. ASSUME NEW k \in 1 .. Len(got')
        PROVE  got'[k][2] = k
    <3>1. CASE k \in 1 .. Len(got)
          BY <2>3, <2>4, <3>1
    <3>2. CASE k = Len(got) + 1
          BY <2>2, <2>3, <3>2
    <3> QED
        BY <2>3, <3>1, <3>2
  <2> QED
      BY <2>1, <2>5 DEF ByDma, BytesInv, Sending
<1>20. CASE Evict
       BY <1>20 DEF Evict, callVars, BytesInv, Answered, Sending, TypeOK, FifosEmpty, CallInv
<1>21. CASE Stop
       BY <1>21 DEF Stop, callVars, BytesInv, Answered, Sending, TypeOK, FifosEmpty, CallInv
<1> QED
    BY <1>1, <1>2, <1>3, <1>4, <1>5, <1>6, <1>7, <1>8, <1>9, <1>10, <1>11, <1>12, <1>13, <1>14, <1>15, <1>16, <1>17, <1>18, <1>19, <1>20, <1>21, Moves

LEMMA AnswerStep ==
  ASSUME IInv, TypeOK', [Next]_vars
  PROVE  GetsItsAnswer'
<1> USE DEF IInv, BusInv, TypeOK, callVars, countVars, dmaVars, Commands, GetsItsAnswer, CallInv, BytesInv, Answered, Sending, FifosEmpty
<1> USE Capacities
<1>1. CASE UNCHANGED vars
      BY <1>1 DEF vars
<1>2. CASE Called
  <2>1. PICK to \in {"start", "ta16"}, s \in Nat \ {0}, c \in Commands, e \in Commands, n \in {0, 1} :
          /\ Call(to, s, c, n, e) /\ UNCHANGED dmaVars
          /\ IF n = 0 THEN e = latched ELSE e = c
          /\ to = "ta16" => s = 2 /\ n = 0
        BY <1>2, CallIs
  <2> QED
      BY <2>1 DEF Call
<1>3. CASE CalledByDma
  <2>1. PICK c \in Commands, n \in 0 .. MaxWords + 1, nb \in BOOLEAN :
          /\ CallDma(c, n, nb) /\ (nb => n > 0)
          /\ {cleared'} \subseteq BOOLEAN /\ ready_bytes' \in {0, ready_bytes}
          /\ nb /\ cleared' => ready_bytes' = 0
          /\ \E set \in BOOLEAN : stop' = [set |-> set, at |-> 0] /\ (set => nb)
        BY <1>3, DmaCallIs
  <2> QED
      BY <2>1 DEF CallDma, Call
<1>4. CASE UNCHANGED dmaVars /\ Start
      BY <1>4 DEF Start
<1>5. CASE UNCHANGED dmaVars /\ WriteByte
      BY <1>5 DEF WriteByte, PutByte
<1>6. CASE UNCHANGED dmaVars /\ ReadByte
      BY <1>6, Taken DEF ReadByte, TakeByte
<1>7. CASE UNCHANGED dmaVars /\ Finish
  <2>1. CASE pc' # "idle"
        BY <2>1
  <2>2. CASE pc' = "idle"
    <3>1. /\ pc = "read" /\ frames = 0 /\ Len(got) = size
          /\ UNCHANGED <<size, got, expected, calls>>
          BY <1>7, <2>2 DEF Finish
    <3>2. latched = expected /\ \A k \in 1 .. Len(got) : got[k] = <<expected, k>>
          BY <3>1
    <3>3. got = [k \in 1 .. Len(got) |-> <<expected, k>>]
          BY <3>2, Whole
    <3> QED
        BY <3>1, <3>3
  <2> QED
      BY <2>1, <2>2
<1>8. CASE UNCHANGED dmaVars /\ SetTa16
      BY <1>8 DEF SetTa16
<1>9. CASE UNCHANGED dmaVars /\ WriteByte16
      BY <1>9 DEF WriteByte16
<1>10. CASE UNCHANGED dmaVars /\ Done16
       BY <1>10 DEF Done16, EndFrame
<1>11. CASE UNCHANGED dmaVars /\ ReadByte16
  <2>1. /\ pc = "read16" /\ pc' = (IF Len(got) = 1 THEN "idle" ELSE "read16")
        /\ TakeByte /\ UNCHANGED <<callVars, left, tx, shifted, latched>>
        BY <1>11 DEF ReadByte16, TakeByte
  <2>2. rx # <<>>
        BY <2>1
  <2>3. CASE Len(got) = 1
    <3>1. Len(got') = 2 /\ size = 2
          BY <2>1, <2>2, <2>3, TakesByte
    <3>2. \A k \in 1 .. Len(got') : got'[k] = <<expected, k>>
          BY <2>1, <2>2, Read16Takes
    <3>3. got' \in Seq(Bytes)
          BY DEF Bytes
    <3>4. got' = [k \in 1 .. Len(got') |-> <<expected, k>>]
          BY <3>2, <3>3, GotWhole
    <3> QED
        BY <2>1, <3>1, <3>4
  <2>4. CASE Len(got) # 1
        BY <2>1, <2>4
  <2> QED
      BY <2>3, <2>4
<1>12. CASE UNCHANGED dmaVars /\ Shift
       BY <1>12 DEF Shift
<1>13. CASE StartDma
       BY <1>13 DEF StartDma
<1>14. CASE SendWord
       BY <1>14 DEF SendWord
<1>15. CASE ReceiveWord
       BY <1>15 DEF ReceiveWord
<1>16. CASE WaitWord
       BY <1>16 DEF WaitWord, Publish
<1>17. CASE EndDma
       BY <1>17 DEF EndDma, Polled
<1>18. CASE Channel0
       BY <1>18 DEF Channel0, StreamInv, DmaInv
<1>19. CASE Channel1
       BY <1>19 DEF Channel1, TakeByte, StreamInv, DmaInv
<1>20. CASE Evict
       BY <1>20 DEF Evict
<1>21. CASE Stop
       BY <1>21 DEF Stop
<1> QED
    BY <1>1, <1>2, <1>3, <1>4, <1>5, <1>6, <1>7, <1>8, <1>9, <1>10, <1>11, <1>12, <1>13, <1>14, <1>15, <1>16, <1>17, <1>18, <1>19, <1>20, <1>21, Moves
LEMMA StreamStep ==
  ASSUME IInv, TypeOK', CallInv', BytesInv', [Next]_vars
  PROVE  StreamInv'
<1>0. TypeOK /\ BytesInv /\ FifosEmpty /\ CallInv /\ DmaInv /\ ReadyInv /\ ReadyIsThere
      BY DEF IInv, BusInv, StreamInv
<1>a. /\ Len(got) \in Nat /\ Len(rx) \in Nat /\ left \in Nat /\ size \in Nat
      /\ shifted \in Nat /\ ready \in Nat /\ stop.at \in Nat
  <2>1. ready \in Nat /\ stop.at \in Nat
        BY <1>0 DEF TypeOK
  <2> QED
      BY <1>0, <2>1, Lengths
<1>b. (\A k \in 1 .. Len(got) : got[k][2] = k) /\ (\A k \in 1 .. Len(got') : got'[k][2] = k)
      BY <1>0 DEF BytesInv
<1> USE <1>0, <1>a, <1>b DEF StreamInv, callVars, countVars, dmaVars
<1>1. CASE UNCHANGED vars
      BY <1>1 DEF vars, DmaInv, ReadyInv, ReadyIsThere, ByDma, Watched
<1>2. CASE Called
  <2>1. PICK to \in {"start", "ta16"}, s \in Nat \ {0}, c \in Commands, e \in Commands, n \in {0, 1} :
          /\ Call(to, s, c, n, e) /\ UNCHANGED dmaVars
          /\ IF n = 0 THEN e = latched ELSE e = c
          /\ to = "ta16" => s = 2 /\ n = 0
        BY <1>2, CallIs
  <2>2. e # None
        BY DEF Commands
  <2> QED
      BY <2>1, <2>2 DEF Call, DmaInv, ReadyInv, ReadyIsThere, ByDma
<1>3. CASE CalledByDma
  <2>1. PICK c \in Commands, n \in 0 .. MaxWords + 1, nb \in BOOLEAN :
          /\ CallDma(c, n, nb) /\ (nb => n > 0)
          /\ {cleared'} \subseteq BOOLEAN /\ ready_bytes' \in {0, ready_bytes}
          /\ nb /\ cleared' => ready_bytes' = 0
          /\ \E set \in BOOLEAN : stop' = [set |-> set, at |-> 0] /\ (set => nb)
        BY <1>3, DmaCallIs
  <2> QED
      BY <2>1 DEF CallDma, Call, DmaInv, ReadyInv, ReadyIsThere, ByDma, Watched
<1>4. CASE UNCHANGED dmaVars /\ (Start \/ WriteByte \/ ReadByte \/ Finish)
  <2>1. pc \in Polled /\ pc' \in Polled \union {"idle"} /\ UNCHANGED <<expected, active>>
        BY <1>4 DEF Start, WriteByte, PutByte, ReadByte, TakeByte, Finish, Polled
  <2> QED
      BY <2>1 DEF CallInv, DmaInv, ReadyInv, ReadyIsThere, Polled, ByDma
<1>5. CASE UNCHANGED dmaVars /\ (SetTa16 \/ WriteByte16 \/ Done16 \/ ReadByte16)
  <2>1. pc \in Polled /\ pc' \in Polled \union {"idle"} /\ UNCHANGED <<expected, active>>
        BY <1>5 DEF SetTa16, WriteByte16, Done16, ReadByte16, TakeByte, Polled
  <2> QED
      BY <2>1 DEF CallInv, DmaInv, ReadyInv, ReadyIsThere, Polled, ByDma
<1>6. CASE UNCHANGED dmaVars /\ Shift
  <2>1. pc \in Polled /\ pc' = pc /\ UNCHANGED <<expected, active>>
        BY <1>6 DEF Shift, FifosEmpty, Sending, Polled
  <2> QED
      BY <2>1 DEF CallInv, DmaInv, ReadyInv, ReadyIsThere, Polled, ByDma
<1>7. CASE StartDma
      BY <1>7 DEF StartDma, DmaInv, ReadyInv, ReadyIsThere, ByDma, Watched
<1>8. CASE SendWord
      BY SMTT(30), <1>8 DEF SendWord, DmaInv, ReadyInv, ReadyIsThere, ByDma, Watched, FifosEmpty
<1>9. CASE ReceiveWord
      BY <1>9 DEF ReceiveWord, DmaInv, ReadyInv, ReadyIsThere, ByDma, Watched
<1>10. CASE WaitWord
       BY <1>10 DEF WaitWord, Publish, DmaInv, ReadyInv, ReadyIsThere, ByDma, Watched
<1>11. CASE EndDma
  <2>1. CASE frames > 0
    <3>1. /\ pc = "dmaLoop" /\ pc' = "dma" /\ size' = frames - 1 /\ frames' = 0
          /\ UNCHANGED <<expected, got, countVars, stop, active>>
          BY <1>11, <2>1 DEF EndDma
    <3>2. active = {} /\ frames <= MaxWords + 1 /\ ~Watched /\ frames \in Nat
      <4>1. frames \in Nat
            BY Capacities DEF TypeOK
      <4> QED
          BY <2>1, <3>1, <4>1 DEF DmaInv, ByDma, Watched
    <3>3. DmaInv'
          BY <3>1, <3>2, Capacities DEF DmaInv, ByDma
    <3>4. ReadyInv' /\ ReadyIsThere'
          BY <3>1, <3>2 DEF ReadyInv, ReadyIsThere, Watched
    <3> QED
        BY <3>3, <3>4
  <2>2. CASE ~(frames > 0)
    <3>1. /\ pc = "dmaLoop" /\ pc' = "idle" /\ (left = 0 \/ (Watched /\ stop.set))
          /\ UNCHANGED <<size, frames, expected, got, rx, countVars, stop, active>>
          BY <1>11, <2>2 DEF EndDma
    <3>2. Len(got) = size - left /\ active = {}
          BY <3>1 DEF DmaInv
    <3>3. DmaInv'
          BY <3>1, <3>2 DEF DmaInv, ByDma
    <3>4. ReadyInv' /\ ReadyIsThere'
          BY <3>1, <3>2 DEF ReadyInv, ReadyIsThere, Watched
    <3> QED
        BY <3>3, <3>4
  <2> QED
      BY <2>1, <2>2
<1>12. CASE Channel0
       BY SMTT(30), <1>12 DEF Channel0, DmaInv, ReadyInv, ReadyIsThere, ByDma, Watched
<1>13. CASE Channel1
  <2>1. /\ 1 \in active /\ rx # <<>> /\ active' = active \ {1} /\ TakeByte
        /\ UNCHANGED <<pc, size, frames, expected, left, shifted, countVars, stop>>
        BY <1>13 DEF Channel1, TakeByte
  <2>2. Len(rx) > 0 /\ Len(rx') = Len(rx) - 1 /\ Len(got') = Len(got) + 1
        BY <2>1, TakesByte
  <2>3. pc = "dmaWait" /\ 0 \notin active /\ Len(rx) = 1 /\ Len(got) = size - left - 1
        BY <2>1, <2>2 DEF DmaInv
  <2>4. active' = {} /\ Len(rx') = 0 /\ Len(got') = size - left
        BY <2>1, <2>2, <2>3 DEF TypeOK
  <2>5. rx' = <<>>
    <3>1. rx' \in Seq(Bytes)
          BY DEF TypeOK, Bytes
    <3> QED
        BY <2>4, <3>1
  <2>6. shifted = Len(got) + Len(rx) /\ left <= size /\ frames <= MaxWords + 1 /\ size <= MaxWords + 1
        BY <2>3 DEF DmaInv, ByDma
  <2>7. DmaInv'
        BY <2>1, <2>2, <2>3, <2>4, <2>5, <2>6 DEF DmaInv, ByDma
  <2>8. ReadyInv' /\ ReadyIsThere'
        BY <2>1, <2>2, <2>3 DEF ReadyInv, ReadyIsThere, Watched
  <2> QED
      BY <2>7, <2>8
<1>14. CASE Evict
       BY <1>14 DEF Evict, DmaInv, ReadyInv, ReadyIsThere, ByDma, Watched
<1>15. CASE Stop
       BY <1>15 DEF Stop, DmaInv, ReadyInv, ReadyIsThere, ByDma, Watched
<1> QED
    BY <1>1, <1>2, <1>3, <1>4, <1>5, <1>6, <1>7, <1>8, <1>9, <1>10, <1>11, <1>12, <1>13,
       <1>14, <1>15, Moves
LEMMA InitInv ==
  ASSUME Init
  PROVE  IInv
<1> USE DEF Init
<1>1. TypeOK
  <2>1. <<>> \in Seq(Commands) /\ <<>> \in Seq(Commands \X (Nat \ {0})) /\ Len(<<>>) <= Capacity
        BY Capacities
  <2>2. stop \in [set : BOOLEAN, at : 0 .. MaxWords] /\ 0 \in 0 .. MaxWords + 1 /\ 0 \in 0 .. MaxCalls
        BY Capacities
  <2>3. /\ pc = "idle" /\ {size, left, shifted} \subseteq Nat /\ command \in Commands
        /\ latched \in Commands /\ {expected, line, memory} \subseteq Commands \union {None}
        /\ ready \in 0 .. MaxWords /\ active \subseteq {0, 1}
        BY Capacities DEF Commands
  <2> QED
      BY <2>1, <2>2, <2>3 DEF TypeOK
<1>2. BytesInv /\ FifosEmpty /\ CallInv /\ GetsItsAnswer
      BY DEF BytesInv, FifosEmpty, CallInv, GetsItsAnswer, Sending, Polled
<1>3. StreamInv
      BY DEF StreamInv, DmaInv, ReadyInv, ReadyIsThere, ByDma
<1> QED
    BY <1>1, <1>2, <1>3 DEF IInv, BusInv

(* The invariant from which the properties follow. *)
THEOREM Invariant == Spec => []IInv
<1>1. Init => IInv
      BY InitInv
<1>2. ASSUME IInv, [Next]_vars
      PROVE  IInv'
  <2>1. TypeOK'
        BY <1>2, TypeStep
  <2>2. CallInv' /\ FifosEmpty' /\ BytesInv' /\ GetsItsAnswer'
        BY <1>2, <2>1, CallStep, FifoStep, BytesStep, AnswerStep
  <2>3. StreamInv'
        BY <1>2, <2>1, <2>2, StreamStep
  <2> QED
      BY <2>1, <2>2, <2>3 DEF IInv, BusInv
<1> QED
    BY <1>1, <1>2, PTL DEF Spec

(* The FIFOs never hold more than they can, also in                        *)
(* spi_read16_bidirectional, which writes without a look at CS_TXD, and in *)
(* the DMA transfers, whose channels look at nothing.                      *)
THEOREM TypeCorrect == Spec => []TypeOK
<1>1. IInv => TypeOK
      BY DEF IInv, BusInv
<1> QED
    BY <1>1, Invariant, PTL

(* Whatever transfers came before, polled or by DMA, spi_rw_buffer and     *)
(* ads8661_read return the bytes of their own last frame, in place, and    *)
(* those of ads8661_read answer its command.                               *)
THEOREM AnswersMatch == Spec => []GetsItsAnswer
<1>1. IInv => GetsItsAnswer
      BY DEF IInv, BusInv
<1> QED
    BY <1>1, Invariant, PTL

(* From the first word of a stream on, *ready_bytes never passes the words *)
(* channel 1 has stored, and grows by at most one word after *stop; before *)
(* that it does not pass them if the caller had cleared it.                *)
THEOREM PublishedIsStored == Spec => []ReadyIsThere
<1>1. IInv => ReadyIsThere
      BY DEF IInv, StreamInv
<1> QED
    BY <1>1, Invariant, PTL
=============================================================================
