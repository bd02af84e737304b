-------------------------------- MODULE Spi --------------------------------
(***************************************************************************)
(* The transfers of drivers/bcm2835/spi.c, polled and by DMA, and what     *)
(* drivers/adc/ads8661.c makes of them: the converter answers a command in *)
(* the frame AFTER the one that carries it, so a read takes two frames.    *)
(* The bus runs beside the core: it moves a byte from the TX FIFO to the   *)
(* wire, and the byte that comes back to the RX FIFO, and stops while the  *)
(* TX FIFO is empty or the RX FIFO is full.  spi_rw_buffer writes all of   *)
(* its bytes before it reads one.                                          *)
(* With DMA a frame is a word: channel 0 sends the header and the word of  *)
(* dma_payload as MEMORY holds them, channel 1 stores the word received.   *)
(* dma_payload is on the stack and nothing cleans its cache line.          *)
(* A byte sent is the command of its frame; a byte received is the command *)
(* it answers and its place in the frame.                                  *)
(***************************************************************************)
EXTENDS Naturals, Sequences

CONSTANTS
  Capacity,     \* the bytes a FIFO holds
  Sizes,        \* the sizes spi_rw_buffer may be called with
  Addresses,    \* the registers of the converter
  Nop,          \* the command that only fetches an answer
  MaxWords,     \* the longest stream
  None,         \* no command
  MaxCalls      \* bound on the calls

ASSUME SpiAssumption ==
  /\ Capacity \in Nat /\ Capacity >= 2
  /\ Sizes \subseteq Nat \ {0} /\ {MaxWords, MaxCalls} \subseteq Nat
  /\ Nop \notin Addresses /\ None \notin Addresses \union {Nop}

CommandSize == 4    \* sizeof(union command_u)

VARIABLES
  pc,
  size, left,   \* the size of the frame, and the bytes still to write
  command,      \* the command of the frame
  frames,       \* the frames still to come; in the transfer that a stream
                \* begins with, one more than its words
  got,          \* wbuffer, as far as it has been written
  tx, rx, ta,   \* the FIFOs, and CS_TA
  shifted,      \* the bytes the bus has moved in this frame
  latched,      \* the command the converter will answer
  expected,     \* the command whose answer the caller is after, if any
  calls,
  nonblocking,  \* does the stream publish its progress?
  ready,        \* its own count of the words that came
  ready_bytes,  \* *ready_bytes, in words; the caller's, as *stop is
  cleared,      \* history: was *ready_bytes 0 when the stream was called?
  stop,         \* *stop, and the stream's count when it was set
  line, memory, \* dma_payload[1] in a dirty cache line, and in memory after
                \* a header
  active        \* the DMA channels that run

callVars == <<size, command, frames, expected, calls>>
countVars == <<nonblocking, ready, ready_bytes, cleared>>
dmaVars  == <<countVars, stop, line, memory, active>>
vars == <<pc, callVars, left, got, tx, rx, ta, shifted, latched, dmaVars>>

Commands == Addresses \union {Nop}

Init ==
  /\ pc = "idle" /\ size = 0 /\ left = 0
  /\ command = Nop /\ frames = 0 /\ got = <<>>
  /\ tx = <<>> /\ rx = <<>> /\ ta = FALSE /\ shifted = 0
  /\ latched = Nop /\ expected = Nop /\ calls = 0
  /\ nonblocking = FALSE /\ ready = 0 /\ ready_bytes = 0 /\ cleared = FALSE
  /\ stop = [set |-> FALSE, at |-> 0]
  /\ line = None /\ memory = None /\ active = {}

(* A call that makes n + 1 frames of the size s, the first of which        *)
(* carries c, and the others Nop.                                          *)
Call(to, s, c, n, e) ==
  /\ pc = "idle" /\ pc' = to
  /\ calls < MaxCalls /\ calls' = calls + 1
  /\ size' = s /\ command' = c /\ frames' = n /\ expected' = e
  /\ UNCHANGED <<left, got, tx, rx, ta, shifted, latched>>

RwBuffer(s) == Call("start", s, Nop, 0, latched)

(* Fault: the answer is looked for in the frame of the command. *)
Ads8661ReadOnce(a) == Call("start", CommandSize, a, 0, a)

(* ads8661_read: a frame with the command, and one to get the answer. *)
Ads8661Read(a) == Call("start", CommandSize, a, 1, a)

Ads8661Sense == Call("start", CommandSize, Nop, 1, Nop)

(* CS = TA, CLEAR_RX, CLEAR_TX. *)
Start ==
  /\ pc = "start" /\ pc' = "write"
  /\ tx' = <<>> /\ rx' = <<>> /\ ta' = TRUE /\ shifted' = 0
  /\ left' = size /\ got' = <<>>
  /\ UNCHANGED <<callVars, latched>>

PutByte ==
  /\ tx' = Append(tx, command)
  /\ left' = left - 1
  /\ pc' = IF left = 1 THEN "read" ELSE pc
  /\ UNCHANGED <<callVars, got, rx, ta, shifted, latched>>

(* Faults: no wait for CS_TXD; a wait for CS_DONE in its place. *)
WriteByteAtOnce == pc = "write" /\ PutByte
WriteByteWhenDone == pc = "write" /\ tx = <<>> /\ PutByte

(* One iteration of the first loop. *)
WriteByte == pc = "write" /\ Len(tx) < Capacity /\ PutByte

TakeByte ==
  /\ rx' = Tail(rx) /\ got' = Append(got, Head(rx))
  /\ UNCHANGED <<callVars, left, tx, ta, shifted, latched>>

(* One iteration of the second loop. *)
ReadByte ==
  /\ pc = "read" /\ Len(got) < size
  /\ rx # <<>>
  /\ TakeByte /\ UNCHANGED pc

(* CS_DONE; TA drops, and the converter takes the command of the frame.    *)
EndFrame ==
  /\ tx = <<>> /\ ta' = FALSE
  /\ latched' = command

Finish ==
  /\ pc = "read" /\ Len(got) = size
  /\ EndFrame
  /\ IF frames > 0
     THEN pc' = "start" /\ command' = Nop /\ frames' = frames - 1
     ELSE pc' = "idle" /\ UNCHANGED <<command, frames>>
  /\ UNCHANGED <<size, left, got, tx, rx, shifted, expected, calls>>

(* spi_read16_bidirectional: the FIFOs are not cleared, and the two dummy  *)
(* bytes are written without a look at CS_TXD.                             *)
Read16 == Call("ta16", 2, Nop, 0, latched)

SetTa16 ==
  /\ pc = "ta16" /\ pc' = "write16"
  /\ ta' = TRUE /\ shifted' = 0 /\ left' = 2 /\ got' = <<>>
  /\ UNCHANGED <<callVars, tx, rx, latched>>

WriteByte16 ==
  /\ pc = "write16"
  /\ tx' = Append(tx, command) /\ left' = left - 1
  /\ pc' = IF left = 1 THEN "done16" ELSE pc
  /\ UNCHANGED <<callVars, got, rx, ta, shifted, latched>>

Done16 ==
  /\ pc = "done16" /\ pc' = "read16"
  /\ EndFrame
  /\ UNCHANGED <<callVars, left, got, tx, rx, shifted>>

ReadByte16 ==
  /\ pc = "read16"
  /\ TakeByte
  /\ pc' = IF Len(got) = 1 THEN "idle" ELSE pc

CoreStep ==
  \/ Start \/ WriteByte \/ ReadByte \/ Finish
  \/ SetTa16 \/ WriteByte16 \/ Done16 \/ ReadByte16

(* The bus. *)
Shift ==
  /\ ta /\ tx # <<>> /\ Len(rx) < Capacity
  /\ tx' = Tail(tx)
  /\ rx' = Append(rx, <<latched, shifted + 1>>)
  /\ shifted' = shifted + 1
  /\ UNCHANGED <<pc, callVars, left, got, ta, latched>>

(* spi_rw_dma32 and spi_rw_dma32_nonblocking, of which only ads8661.c      *)
(* makes use: a register is written with one word, a stream is one word    *)
(* and then n of them, or none.                                            *)
CallDma(c, n, nb) ==
  /\ Call("dma", 1, c, n, None)
  /\ nonblocking' = nb /\ ready' = 0
  /\ UNCHANGED <<line, memory, active>>

Ads8661Write(a) ==
  /\ CallDma(a, 0, FALSE)
  /\ stop' = [set |-> FALSE, at |-> 0] /\ UNCHANGED <<ready_bytes, cleared>>

Ads8661StreamBlocking(n) ==
  /\ CallDma(Nop, n + 1, FALSE)
  /\ stop' = [set |-> FALSE, at |-> 0] /\ UNCHANGED <<ready_bytes, cleared>>

(* The driver stores nothing to *ready_bytes before the first word of the  *)
(* stream has come: what the caller finds there is what it has put there   *)
(* itself, 0 or the count of an earlier stream.  *stop may be set already. *)
Ads8661StreamNonblocking(n) ==
  /\ CallDma(Nop, n + 1, TRUE)
  /\ ready_bytes' \in {0, ready_bytes} /\ cleared' = (ready_bytes' = 0)
  /\ stop' \in [set : BOOLEAN, at : {0}]

(* The transfer the caller watches is not the one a stream begins with. *)
Watched == nonblocking /\ frames = 0

(* dma_payload is initialised, with 0 for its word, where it was the last  *)
(* time or elsewhere on the stack.                                         *)
StartDma ==
  /\ pc = "dma" /\ pc' = "dmaLoop"
  /\ tx' = <<>> /\ rx' = <<>> /\ shifted' = 0 /\ left' = size /\ got' = <<>>
  /\ line' = Nop /\ memory' \in {memory, None}
  /\ UNCHANGED <<callVars, ta, latched, countVars, stop, active>>

(* Another word, the same for all of them, and channel 0 runs.             *)
SendWord ==
  /\ pc = "dmaLoop" /\ pc' = "dmaReceive"
  /\ left > 0 /\ ~(Watched /\ stop.set)
  /\ left' = left - 1 /\ line' = command /\ active' = active \union {0}
  /\ UNCHANGED <<callVars, got, tx, rx, ta, shifted, latched, countVars, stop, memory>>

ReceiveWord ==
  /\ pc = "dmaReceive" /\ pc' = "dmaWait"
  /\ active' = active \union {1}
  /\ UNCHANGED <<callVars, left, got, tx, rx, ta, shifted, latched,
                 countVars, stop, line, memory>>

Publish ==
  /\ pc' = "dmaLoop"
  /\ IF Watched
     THEN ready' = ready + 1 /\ ready_bytes' = ready'
     ELSE UNCHANGED <<ready, ready_bytes>>
  /\ UNCHANGED <<callVars, left, got, tx, rx, ta, shifted, latched,
                 nonblocking, cleared, stop, line, memory, active>>

(* Fault: dma_wait_transfer_done is left out. *)
DoNotWait == pc = "dmaWait" /\ Publish

(* Only channel 1 is waited for. *)
WaitWord == pc = "dmaWait" /\ 1 \notin active /\ Publish

EndDma ==
  /\ pc = "dmaLoop" /\ (left = 0 \/ (Watched /\ stop.set))
  /\ IF frames > 0
     THEN pc' = "dma" /\ size' = frames - 1 /\ frames' = 0
     ELSE pc' = "idle" /\ UNCHANGED <<size, frames>>
  /\ UNCHANGED <<command, expected, calls, left, got, tx, rx, ta, shifted, latched, dmaVars>>

DmaStep == StartDma \/ SendWord \/ ReceiveWord \/ WaitWord \/ EndDma

(* Channel 0 and the bus: what memory holds is sent.  A header that is not *)
(* there starts no frame.                                                  *)
Channel0 ==
  /\ 0 \in active /\ memory # None /\ active' = active \ {0}
  /\ latched' = memory
  /\ shifted' = shifted + 1 /\ rx' = Append(rx, <<latched, shifted'>>)
  /\ UNCHANGED <<pc, callVars, left, got, tx, ta, countVars, stop, line, memory>>

Channel1 ==
  /\ 1 \in active /\ rx # <<>> /\ active' = active \ {1}
  /\ TakeByte
  /\ UNCHANGED <<pc, countVars, stop, line, memory>>

(* The cache writes the line of dma_payload back. *)
Evict ==
  /\ line # None /\ memory' = line /\ line' = None
  /\ UNCHANGED <<pc, callVars, left, got, tx, rx, ta, shifted, latched,
                 countVars, stop, active>>

(* Another core, or an interrupt, sets *stop. *)
Stop ==
  /\ nonblocking /\ pc # "idle" /\ ~stop.set
  /\ stop' = [set |-> TRUE, at |-> ready]
  /\ UNCHANGED <<pc, callVars, left, got, tx, rx, ta, shifted, latched,
                 countVars, line, memory, active>>

PolledCall ==
  \/ \E s \in Sizes : RwBuffer(s)
  \/ \E a \in Addresses : Ads8661Read(a)
  \/ Ads8661Sense \/ Read16

Next ==
  \/ (PolledCall \/ CoreStep \/ Shift) /\ UNCHANGED dmaVars
  \/ \E a \in Addresses : Ads8661Write(a)
  \/ \E n \in 0 .. MaxWords : Ads8661StreamBlocking(n) \/ Ads8661StreamNonblocking(n)
  \/ DmaStep \/ Channel0 \/ Channel1 \/ Evict \/ Stop

(* The core runs, and so do the clock of the bus and the DMA channels.  No *)
(* cache has to write a line back.                                         *)
Spec ==
  /\ Init /\ [][Next]_vars
  /\ WF_vars(CoreStep /\ UNCHANGED dmaVars) /\ WF_vars(DmaStep)
  /\ WF_vars(Shift /\ UNCHANGED dmaVars) /\ WF_vars(Channel0) /\ WF_vars(Channel1)

-----------------------------------------------------------------------------
TypeOK ==
  /\ pc \in {"idle", "start", "write", "read", "ta16", "write16", "done16", "read16",
             "dma", "dmaLoop", "dmaReceive", "dmaWait"}
  /\ {size, left, shifted} \subseteq Nat
  /\ command \in Commands /\ frames \in 0 .. MaxWords + 1
  /\ got \in Seq(Commands \X (Nat \ {0}))
  /\ tx \in Seq(Commands) /\ Len(tx) <= Capacity
  /\ rx \in Seq(Commands \X (Nat \ {0})) /\ Len(rx) <= Capacity
  /\ ta \in BOOLEAN
  /\ latched \in Commands /\ {expected, line, memory} \subseteq Commands \union {None}
  /\ calls \in 0 .. MaxCalls
  /\ {nonblocking, cleared} \subseteq BOOLEAN
  /\ {ready, ready_bytes} \subseteq 0 .. MaxWords
  /\ stop \in [set : BOOLEAN, at : 0 .. MaxWords] /\ active \subseteq {0, 1}

(* A polled transfer returns every byte of its own last frame, in place:   *)
(* nothing that an earlier transfer left in a FIFO, and, for ads8661_read, *)
(* the answer to its own command.                                          *)
GetsItsAnswer ==
  pc = "idle" /\ calls > 0 /\ expected # None =>
    got = [k \in 1 .. size |-> <<expected, k>>]

(* What a stream says is ready is in wbuffer, frame after frame, from its  *)
(* first word on, and before it if the caller had cleared *ready_bytes; at *)
(* most one word follows a *stop (spi_rw_dma32_nonblocking); any transfer  *)
(* by DMA that was not stopped returns with all of its words.              *)
ReadyIsThere ==
  expected = None =>
    /\ nonblocking /\ (cleared \/ ready > 0) => ready_bytes <= Len(got)
    /\ \A k \in 1 .. Len(got) : got[k][2] = k
    /\ stop.set => ready <= stop.at + 1
    /\ pc = "idle" /\ ~stop.set => Len(got) = size

(* A transfer of up to twice the capacity of a FIFO returns.  A longer     *)
(* polled one fills the RX FIFO, then the TX FIFO, and waits for CS_TXD    *)
(* for ever; a DMA one may wait for the header that is still in the cache. *)
TransferReturns ==
  pc # "idle" /\ size <= 2 * Capacity ~> pc = "idle" \/ (0 \in active /\ memory = None)
=============================================================================
