# A TLA+ model of rpi3-baremetal-template

The repository is a template for bare-metal programs on the Raspberry Pi 1, 3,
4 and 5, in AArch32 and AArch64: start code, page tables, a set of device
drivers, and a demonstration that draws an animated splash screen. There is no
operating system, no scheduler and no interrupt in use. What makes the code
hard is elsewhere: four cores that meet in one word of memory, instructions
whose effect depends on what another core did in between (exclusive stores,
`wfe` and `sev`), caches a DMA engine does not see, a firmware that shares a
buffer with the code, and counters that roll over between two reads.

All paths below are relative to the root of the repository.

## 1. Inventory

| Component | State | Operations | Interacts with |
|---|---|---|---|
| Boot (`aarch64/start.s`, `aarch32/start.s`) | release slots of the secondary cores, event registers | `ResetHandler`, `unlock_cores(_legacy)`, `branch_to_main` | firmware stub, page tables, `main<c>` |
| Core check (`app-common/main.c`) | `core_data`, and `mutex` in AArch32 | `atomic_or`, `main0` to `main3` | boot, UART, system timer |
| System timer (`drivers/bcm2835/systimer.c`) | two registers of a 64-bit counter | `systimer_getticks`, `systimer_wait_us` | `main0`, SPI users |
| Heap (`drivers/mem.c`) | headers inside `heapdata` | `mem_init`, `malloc` | `fb_init` |
| DMA (`drivers/bcm2835/dma.c`, `core/cache*.h`) | `dma_block`, the channel's registers, the caches | `dma_memcpy32`, `dma_run_async`, `dma_wait_transfer_done`, `cache_invalidate_range_to_poc` | framebuffer, SPI |
| Mailbox (`drivers/bcm2835/mailbox.c`) | the static buffer `sequence`, two hardware queues | `mailbox_request` | firmware, `clock.c`, `framebuffer.c`, `vpu.c` |
| VPU (`drivers/bcm2835/vpu.c`) | memory blocks of the firmware | `vpu_malloc`, `vpu_free`, `vpu_execute_code(_with_stack)` | mailbox |
| Clock, framebuffer (`clock.c`, `framebuffer.c`) | `fb_info_t` | `clock_max_out_arm`, `fb_init`, `fb_copy_buffer` | mailbox, heap, DMA |
| Page tables (`aarch64/mmu.c`, `aarch32/mmu.c`) | pools of descriptors | `mmu_init_descriptors`, `mmu_init_registers`, `add_pages` | boot |
| SPI, ADS8661 (`spi.c`, `ads8661.c`) | FIFOs, two DMA control blocks, the converter's last command | `spi_rw_buffer`, `spi_rw_dma32(_nonblocking)`, `ads8661_*` | DMA, GPIO |
| Splash screen, console (`splashscreen.c`, `console.c`) | `fb.tmp`, the ratio of the animation | `app_screen_demo`, `console_print(hex)` | framebuffer, DMA, VPU |
| UARTs (`uart.c`, `huart.c`) | CR, FR and DR of one PL011 | `uart_init_1415`, `uart_print`, `huart_init`, `huart_print_exception` | `main0`, exception handlers, GPIO |
| GPIO (`bcm2835/gpio.c`, `rp1/gpio.c`) | function registers | `gpio_select_function`, `gpio_set_resistor` | UARTs, SPI, `app_init_gpio` |
| Exception handlers (`start.s`) | none | `basic_exception_handler` | UARTs |
| Interrupts, VideoCore program, tools | none that matters here | | |

Which behaviours are hard, and what makes each component correct:

* **Core check.** Four cores read, change and write the same word. Correct
  means: the bit of every core that has answered is in, no other bit is, the
  figure core 0 prints names only cores that did answer, and every core answers
  although a core that fails goes to sleep.
* **Boot.** No core may turn its MMU on before core 0 has built the tables, and
  no core may sleep in the firmware's stub for ever.
* **System timer.** The two halves of the counter are read one after the other;
  between the reads the low half may roll over.
* **Heap.** A header says how long its block is and not whether it is in use.
* **DMA.** Everything the engine reads has to be in memory when it starts, and
  everything it writes has to be visible when the copy returns.
* **Mailbox.** One buffer serves requests of different lengths; the firmware's
  other mails arrive on the same queue.
* **VPU.** Four requests in a row, each of which may be refused.
* **Page tables.** A fixed pool, and ranges that may cut or cover earlier ones.
* **SPI.** Two FIFOs filled and drained by the two sides of one bus; with DMA,
  two channels of which one is waited for, a payload nobody cleans from the
  cache, and a count another core reads meanwhile.
* **UART and GPIO.** Registers that `main0` and an exception handler on any core
  read, change and write without a lock.
* **Splash screen.** Two pointers that meet from both ends of a buffer, and an
  arithmetic of shifts in which one wrong sign leaves the range of a byte.

`PROJECT.json` lists every hazard at its line, with the properties that cover
it, or the reason why none does.

## 2. Modules

| Module | Models | Kind |
|---|---|---|
| `CoreCheck` | what the core check promises | abstract specification |
| `MultiCore` | boot of the cores, `main<c>` around `atomic_or`, events | shared by the next two |
| `AtomicOr64` | `atomic_or`, `ldaxr`/`stlxr` and `ldset` | detailed, implements `CoreCheck` |
| `AtomicOr32` | `atomic_or`, the `ldrex` mutex, with store buffers | detailed, implements `CoreCheck` |
| `AtomicOr64_proof`, `AtomicOr32_proof` | safety and refinement of both | proofs |
| `Systimer` | `systimer.c` | model |
| `Heap` | `mem.c` | model |
| `CacheLines` | which lines a range of bytes covers | operators |
| `Dma`, `MCDma`, `Dma_proof` | `dma_memcpy32`, the cache and the engine | model, its instance, proofs |
| `Mailbox`, `MCMailbox` | `mailbox_request` and the firmware | model, its instance |
| `Vpu` | `vpu_execute_code_with_stack` | model |
| `Drivers_proof` | safety of `Systimer`, `Heap`, `Vpu` and `Mailbox` | proofs |
| `AddressMap` | what the two `mmu.c` promise | abstract specification |
| `Mmu64`, `MCMmu64`, `Mmu64_proof` | `aarch64/mmu.c` | detailed, implements `AddressMap`; its instance; proofs |
| `Mmu32`, `MCMmu32`, `Mmu32_proof` | `aarch32/mmu.c` | detailed, implements `AddressMap`; its instance; proofs |
| `Spi`, `Spi_proof` | `spi.c` and `ads8661.c`, polled and by DMA | model, proofs |
| `Uart` | `gpio_select_function`, `uart.c`, `huart.c` on several cores | component of `Main0` |
| `Screen` | `splashscreen.c`, `console.c`, `fb_init` | component of `Main0` |
| `Main0`, `MCMain0`, `Main0_proof` | `main0` with the exceptions of every core | composition; its instance; proofs |

In every module an action's name is that of the function, instruction or step
it stands for. `Systimer`, `Heap`, `Vpu` and `Mailbox` share no name
(`timer_pc`, `heap_pc`, ...), so that one module can extend them all and prove
what each promises. A definition with `Fault:` in its comment is not part of the
specification: it is a plausible mistake in the action that follows it, used to
show that a property would notice.

### CoreCheck, MultiCore, AtomicOr64, AtomicOr32

`core_data` is the set of the cores whose bit is 1. `MultiCore` holds what the
builds share: core 0 goes `reset` → `unlock` → `regs` → `wait` → `or` → ... →
`check` → `demo`; a secondary core alternates between `spin_wfe` and
`spin_load` in the firmware's stub until its slot is written, then goes `regs`
→ `or` → ... → `idle`. `event[c]` is the event register of core `c`: `sev` sets
all of them, `wfe` waits for it and clears it, and `StrayEvent` stands for the
wake-ups the architecture leaves to the implementation. Its first value is
unknown.

`AtomicOr64` has one action per instruction that touches memory. `excl[c]` is
the exclusive monitor: a successful store opens those of the other cores and
wakes them; `LoseMonitor` opens one for no visible reason. With `RPI` 5 the
whole routine is `Ldset`, and the unlock sequence ends with a `sev`; with 3 it
does not (`SilentBoards`), which is how the code is. `rpi`, the board, is a
variable that `Init` chooses and nothing changes, so that one run has both.

`AtomicOr32` adds the mutex. The stores of `*dst` and of `mutex` are plain: they
wait in `buf[c]` and reach memory in any order; `memoryBarrier` waits for the
buffer. The code has no barrier between the release of the mutex and the
`sev`, so a core may be woken, find the mutex taken and sleep again; it is
woken a second time because its `ldrex` has armed a monitor that the late store
opens.

`CoreCheck` is the specification both implement, with the identity as
refinement mapping: each core ORs its bit in one step, once, and core 0 reports
what it finds once its own bit is in.

### Systimer

`K` is 2^32 in the hardware. `ReadLo` and `ReadHi` are the two register reads,
with `Tick` in between, less than `K` times. `torn` records that a rollover
fell between the reads of the current call. `tend` is the local of that name.

### Heap

Words instead of bytes. `header[a]` is the size at address `a`, `None` where
malloc has never written one; the address `H` is the word past the heap, which
malloc writes too when a block ends there. `given` remembers the blocks handed
out, with the number of the call each was for (`nth`). The requests are of any
size and in any order, so malloc does hand words out twice, and its walk does
stand still; the repository makes one request.

### CacheLines, Dma

Memory is a function of word addresses; a frame's number stands for the
pixels. The cores' caches are one write-back cache (they are coherent with each
other): a line may be fetched or evicted at any time. `dc civac` puts a line in
`pend`, and `Complete` carries it out later; `memoryBarrier` waits for all. The
engine reads its control block, then the words, from memory. The loop of
`cache_invalidate_range_to_poc` is modelled line by line, with the arithmetic of
`CacheLines` and a step that may be smaller than a line, as the code asks the
hardware for it. The destination is written through a device mapping and never
through the cache, which is an assumption on `Jobs`.

### Mailbox

The buffer is a function of words, and the walk over the tags reads it as the
code does, so that a leftover of an earlier request or a wrong step would be
visible. `Answer` is the firmware: it answers every tag with the number of the
call, or refuses the request. `OtherMail` is a mail on another channel, which
`Receive` throws away; there may be enough of them to fill the queue that
`Send` waits on.

### Vpu

One action per `mailbox_request`, each of which may be refused and then has no
effect. `held` and `locked` are the firmware's side, `mem_handle` and `mem_ptr`
the fields of `mem`; `mem_ptr` starts with any value since the struct is not
initialised, and `GiveUp`, which is `vpu_free` after a refused lock, reads it. What
the firmware does with a block freed while it is locked is not known: it drops
the lock, keeps it (a block in `locked` and not in `held`) or refuses.
`refusals` counts the unlocks it refused, which the code does not look at.

### AddressMap, Mmu64, Mmu32

`AddressMap` is the promise: every page is mapped to itself at any time, a call
asks for a set of pages and an attribute, and some of the pages asked for, never
another one, get it at each step. Its `map` is not a variable of the detailed
modules: it is what a walk of their tables gives, `Translation`, as the MMU
would make it. So the refinement says, at every step of `add_pages`, that a table put in
the place of a block still translates every address of the block.

An address is the number of its page. In `Mmu64` a table has `Fan` entries,
`tables` is `mmuspace`, `cursor` that of `alloc_descriptors`. `InitTables` is the beginning
of `mmu_init_descriptors`; then each iteration of `add_pages` is `FindLeaf`
(the level, and `get_leaf_for`), a `Split` for each level it goes down, and
`WriteLeaf`. `GiveUp` is `smc0`. `asked` keeps the calls of a run apart, as
those of `mmu_init_descriptors` are.

In `Mmu32` a descriptor keeps its fields where the hardware has them, so that
`ToSmall`, which moves them from a section to a small page, is checked for what
it does: the MMU reads the fields of a section and of a small page each in its
own layout. There are two pools and two steps, chosen by the address
(`Ttbr0`). A coarse table is kept in its level 0 descriptor, the only one that
points to it; the pool counts the tables left. Calls may overlap. `Served`
gives the ranges the loop handles as asked, and the callers' are of that kind:
the loop takes an address in the first 16kB of a section for an aligned one when
the pages left would fill a section, and steps by 16kB above the boundary.

### Spi

`tx` and `rx` are the FIFOs, `Shift` the bus between them, which stops when it
has nothing to send or nowhere to put what it receives. A byte received is the
command it answers and its place in the frame. The converter takes a command
when its frame ends (`EndFrame`, `latched`) and answers it in the next one,
which is why `ads8661_read` makes two frames; `spi_read16_bidirectional` neither
clears the FIFOs nor waits for room, and is safe because every transfer leaves
them empty.

With DMA a frame is one word. `line` is the word of `dma_payload` in a dirty
cache line, `memory` what memory has after a valid header: channel 0 sends
`memory`, whatever the core wrote last, and nothing as long as no header is
there. `Evict` may write the line back at any time and never has to. `Watched`
distinguishes the transfer that publishes its progress and polls `*stop`; `stop.at`
is the count when it was set. `*rbuffer` is read for every word and never
advances, hence one `command` per transfer. A stream is one word and then 0 or
more.

`ready` is the driver's own count and `ready_bytes` its caller's `*ready_bytes`,
which the driver first writes after the first word. It is the caller who must
clear it: when it has not (`cleared` is false), another core finds there the
count of an earlier stream until the first word of this one is stored.

### Uart, Screen, Main0

`fn` gives the function of each pin as bits. `Select` and `Set` are the two
halves of `gpio_select_function`: on a BCM2835 (`rpi` below 5) a read and a
write of a register of ten pins, of which 14 and 15 share one; on an RP1 the
clearing and the setting of the pin's own field. `cr` is the control register,
`fifo` the transmit FIFO. A character is `Test`, the look at FR, and `Put`, the
write of DR. `Exception` takes a core out of whatever it was doing, once, to
`huart_init` (`HuartPins` ... `HuartEnable`, whose `CR |= 1` is two steps) and
`huart_print_exception`, after which it stops.

`Screen` keeps the buffer as a function of the words written. `Line` is one
iteration of the loop over `y`, which draws an upper and a lower line with the
full arithmetic of `pixel_at` and `mix8`; `FrameDone` is the ratio of the next
frame. In a `VC4_SUPPORT` build the error of the VideoCore program is drawn a glyph at a time.
A failed `fb_init` ends in `wild`: its result is printed and not looked at, and
what the code does next is undefined.

`Main0` composes them: core 0 goes through the texts of `main0` and the demonstration,
and any core, core 0 included, may take an exception. The core check, the
heap, the DMA and the mailbox it calls are the modules above.

## 3. Runs

| Run | Instance | Shows |
|---|---|---|
| `or64` | 4 cores, RPI 3 and RPI 5, one monitor lost | nothing is lost, everyone responds, implements `CoreCheck` with its fairness |
| `or32` | 3 cores (`N` is the number of secondary cores), one monitor lost | the mutex excludes, nothing is lost, implements `CoreCheck` with its fairness |
| `systimer` | K = 4, counts up to 14 | torn readings, waits of 0, 2 and 5 ticks |
| `heap` | 12 words, 4 requests of up to 13 words with their header | walks stay in the heap; words are handed out again only inside the block they were in, and a walk stands still only behind such words |
| `dma` | 5 lines of 2 words, 2 calls of 2 different copies | the engine and the display see the frame |
| `mailbox` | buffer of 12 words, 4 requests, 3 calls, 4 foreign mails, queues of 3 | the callback sees this call's answers; only a queue full of foreign mails keeps a call from returning |
| `vpu` | 4 handles, 4 calls | runs on its own locked stack, leaks only when it fails, leaves a freed block locked only when the unlock was refused |
| `mmu64` | tables of 2 entries, 16 pages of 2 bytes, 8 tables, 3 calls | implements `AddressMap`, four tables a call |
| `mmu32` | 4 sections of 4 pages of 2 bytes, 2 on each side of the boundary, 2 tables for TTBR0 and 1 for TTBR1, 3 calls | implements `AddressMap`, overlapping calls included, two tables a call and none for TTBR1 |
| `spi` | FIFOs of 3 bytes, frames of 1 to 7 bytes, streams of 0 to 3 words, 3 transfers | the answer is that of the frame; what is ready is there; up to 6 bytes the transfer returns |
| `main0` | 2 cores, RPI 3 and 5, a FIFO of 2, texts of 2 characters, 2 exceptions, 2 screens | a character is lost only to a core that wrote in between, the pins stay served, the frames are right, texts end unless overlapping set-ups leave the transmitter off |

Why the bounds are enough. Three cores already show every pattern of two cores
interfering with a third that sleeps; four is what the board has. One lost
monitor is the only way a store can fail without another store; losses do not
add up. K = 4 with 14 counts crosses the rollover three times within one wait
of 5. Twelve words and four requests split the heap as often as it can be
before a request is refused; exact fits, inside the heap and at its end, and the
walk that stands still, which takes three calls, are reached. The DMA jobs begin and end in the middle of lines, and overlap in
source, so that a line of a first call is still there in the second. The second
request of the mailbox is longer than the others, and one is too long; four
foreign mails fill a queue of three between two calls, and one more comes later.
The three transfers of `spi` are enough for a stream that finds the count of an
earlier one.
With two entries per table every level of the 16 pages has a block that a range can hit,
miss or cut, a call needs up to four splits, and the five free tables run out
in the second. The FIFOs of three bytes are smaller than a command of four, and
six and seven are the last size that returns and the first that does not.
The two tables `mmu32` has for TTBR0 are all taken when a section that had one
is mapped as a section again and then cut once more, which is how its `GiveUp`
is reached. In `main0` both cores may be in
`huart_init` at once, or one in it and core 0 in `uart_init_1415` or in the
middle of a text; two texts overfill the FIFO; one screen has an odd number of
lines and words beyond the visible ones, the other an even number and none; a
ratio of 4 bits in steps of 8 reaches both ends.

**Fairness.** `WF(CoreStep(c))`: each core executes its own instructions;
nothing schedules cores, so none can be left out. `WF(Drain(c))`: a store does
not stay in a buffer for ever. `StrayEvent` and `LoseMonitor` are never fair:
no property depends on a lucky wake-up. In `Systimer` the counter never stops.
In `Dma` the engine works and every maintenance operation ends; in `Mailbox`
the firmware answers what it is sent; in
`Spi` the clock of the bus and the DMA channels run, and no cache ever has to
write a line back; in `Main0` every core runs and the UART sends what it has
when its transmitter is on.

The liveness of `or64` and `or32` is that of `CoreCheck`, which their last
property includes: every core responds, and core 0 reports.

The liveness of `or64` and `or32` assumes `LossWakes`: a monitor that is lost
sends an event to its core. The architecture says so of the global monitor. If
a board lost a monitor in silence, a core that was the last to store would
sleep until another event; the safety properties do not depend on it.

**What the runs say of the limits of the code**, without contradicting any of
its comments. The runs reach each of these cases, and the properties say how
far it goes:

* `systimer_getticks` may return a value 2^32 too large (`ReadingIsNear`), which
  ends a wait too early if it is the last reading of the wait, by one period of the low
  register at most, and never otherwise (`WaitsLongEnough`);
* `malloc` hands words out twice, always inside the block they were in
  (`BlocksNest`), so a request larger than those before it gets words of its
  own; after that its walk may stand still on a header of size 0
  (`StuckAfterReuse`), and nothing else keeps it from returning
  (`MallocReturns`); it writes the word past the heap, with a 0 only
  (`WalkInHeap`);
* `mailbox_send` waits for ever when the firmware's own mails have filled the
  inbound queue, and only then (`RequestReturns`);
* `vpu_execute_code_with_stack` leaks its stack: when the execution is refused
  it returns before its third step, and when the lock is refused `vpu_malloc`
  overwrites the handle with `MEM_HANDLE_INVALID` before it calls `vpu_free`. A call that returned an
  error leaks one block at most, one that returned 0 none, and a freed block
  stays locked only after an unlock that was refused (`LeaksAreFailures`);
* a stream published by SPI may show the count of an earlier one before its
  first word, if the caller has not cleared it (`ReadyIsThere`);
* a character is lost when another core wrote one after `FR` was read, and only
  then (`NothingLost`);
* a text does not end when two set-ups of the UART overlapped and `CR |= 1`
  wrote back a value in which the other core had turned the transmitter off,
  and only then (`PrintEnds`);
* the animation rises once and then only falls and jumps back up: the branch of
  `FrameDone` for a negative ratio is never taken, since the test before it is
  true of one.

`TransferReturns` is about sizes up to twice a FIFO, and, by DMA, about a header
of `dma_payload` that has left the cache; the run also has a longer transfer and
a header that stays, neither of which returns. No property says that the word sent
by DMA is the one asked for, since it need not be. `ImplementsAddressMap` has
preconditions, outside of which the runs do not go: calls of the AArch64
`add_pages` that have no page in common, and the ranges `Served` gives in
AArch32.

`TypeOK` of `AtomicOr64`, `AtomicOr32` and `Dma`, `TimerTypeOK` and `VpuTypeOK`
are in no run: they are proved.

## 4. Proofs

Each proof module states an invariant (`IInv`, or `TimerInv`, `HeapInv`, `VpuInv`
and `MailboxInv` in `Drivers_proof`), proves that the initial states
have it and that every step keeps it, with one proof step per action, and draws
the properties from it. TLC has checked every one of these invariants on the
instance of the run. The constants are arbitrary: any number of cores, words,
handles, calls, any size of a FIFO, of a line, of a heap or of a screen.

**`AtomicOr64_proof`** proves `TypeOK`, `NoLostUpdate`, `ReportIsTrue`,
`TablesBeforeMmu`, `BitsStay` and `SafelyImplements`. The invariant adds

* `MonitorsHold`: a core between its `ldaxr` and its `stlxr` whose monitor is
  still closed has loaded the present `core_data`. It is the reason why a
  successful store loses nothing, and none of the properties says it;
* `ReportsOnce`: `report` is empty until core 0 is in `demo`;
* `ReleasedByTables`: a written slot, or a core 0 past `reset`, means that the
  tables are there.

The proof has a lemma per part of the invariant. The refinement proof then maps
`StlxrOk` and `Ldset` to `Respond`, `CoreDataCheck` to `Report`, and everything
else to a stutter.

**`AtomicOr32_proof`** proves `MutualExclusion`, `NoLostUpdate`, `TypeOK`,
`BitsStay` and `SafelyImplements` for the mutex and its store buffers. Here a
closed monitor means that the mutex is free (`MonitorsHold`); `BuffersInOrder`
says where a core may be while a store of its waits: the one of `*dst` no later
than the barrier, the release of the mutex any time after it; `ValuesFresh`
that the word a core has yet to store is `core_data` with its own bit. The OR
of the abstract specification happens when the store leaves the buffer, so it
is `DrainDst` that maps to `Respond`.

**`Drivers_proof`, timer**, proves `ReadingIsNear`, `DeadlineIsNear`,
`WaitsLongEnough` and `TimerTypeOK` for every `K`, every set of waits and every bound
on the counter. The invariant relates the half-read value to the count when it
was read; three lemmas about division carry the arithmetic (`JoinNear`: joining
the halves of two counts less than `K` apart gives the first count, or `K`
more).

**`Drivers_proof`, heap**, proves `WalkInHeap`, `BlocksNest`,
`StuckAfterReuse` and `HeapTypeOK`, for any requests in any order. Headers are
chained (`Chained`): the block of each ends in the heap, at another header or at
the end of the heap, which keeps the walk on headers. `BlocksNest` is not inductive, since no header
says whether its block is in use; what makes it so is that blocks and headers
never cut across each other. No header lies inside another's block (`Apart`);
the block of a header lies outside a block handed out, or in it (`InOrOut`), so
the next block cut from it does too. `EndsGiven` says that a block ends with the
heap or where a block handed out ends; hence a block taken whole, which leaves a
header of size 0 behind it inside the heap, ends where an earlier one did
(`ZeroAfterReuse`). `PastTheHeap` is about the word past the heap.

**`Dma_proof`** proves `Copied`, `EngineSeesTheCall` and `TypeOK`, for any
copies, and `RangeCovered`: for every width and every range of words, the loop
of `cache_invalidate_range_to_poc` starts at or below the range, ends above its
last byte and goes no further than its line. The width has to be a multiple of
a word larger than a byte, since a range whose last byte is the first of a line
would not be covered. The invariant follows the call:

* `Coherent`: a line that is not dirty is as in memory, but for the destination,
  which is never dirty;
* `LoopInv` and `SrcInv`: the part of the source the loop has been through is
  clean or its cleaning is under way, and from the barrier of `dma_run_async`
  on it is clean; `BlockInv` says the same of the control block. The source
  gains from two barriers, the block from the second one only;
* `EngineInv`: the engine has not read its block yet, or works on this call's
  and has copied all but its `left` last words;
* `DstInv`: no load of the part of the destination the last loop has been
  through finds anything but the frame, unless its invalidation is under way.

**`Drivers_proof`, VPU**, proves `RunsOnItsStack`, `LeaksAreFailures` and
`VpuTypeOK`. From
the allocation on the handle is the one of this call (`HandleIsStack`), until
the lock fails and it is lost; the blocks held, and those held or locked, are
counted (`TakenCount`) with the finite-set theorems, the set of handles itself
need not be finite. A block about to be freed while it is still locked has
already been paid for, by the refused unlock.

**`Drivers_proof`, mailbox**, proves `CallbackSeesTheAnswer` and `MailboxTypeOK`,
for any size of the buffer and of the queues, any number of other mails and any
requests laid out as `MailboxAssumption` says those of `clock.c`, `framebuffer.c`
and `vpu.c` are. The mail of a call is in one place at a time: in one of the
queues or with the firmware (`MailInv`). So a mail of channel 8 that comes in
means that this call was answered, and if the response code is good the buffer
holds the request with its answers (`BufferInv`, `Answered`); the code of an
earlier call still in the buffer is never looked at. The walk then stands at a
tag or at the 0 that ends them (`WalkInv`): it reads the size of a tag in a word
that no answer touches (`Places`), so it steps where the caller put the next
tag, and stops before what an earlier request left behind.

**`Spi_proof`** proves `GetsItsAnswer`, `ReadyIsThere` and `TypeOK`. For a
polled transfer, what is in the buffer, in the RX FIFO and in the TX FIFO is one
frame cut in three, numbered without a gap, and both FIFOs are empty between two
frames (`BytesInv`, `FifosEmpty`); in the last frame the converter has the
command the caller is after (`CallInv`). For DMA a word is in one place only,
and channel 1 takes it after channel 0 has sent it (`DmaInv`), hence the words
the driver has counted are stored; the caller's counter is equal to that count
from the first word on, or from the call on when it was cleared (`ReadyInv`).

**`Main0_proof`** has two parts, one for each component of `Main0`, which share
only `pc`. For the serial line it proves `NothingLost` and `PinsServed`: a core
takes one exception, after which it is only in `huart_*` (`TrapInv`); core 0
sets the pins in order (`PinOrder`), so the register it writes back while it
works on the RX pin already has the function of TX (`TxDone`, `WritesBack`). For
the screen it proves `FrameIsRight`: the two pointers are those of the lines `y`
and `height - 1 - y` (`PointersInv`), so each iteration writes two lines of its
own, and a line written stays as it is (`LinesInv`). The lemmas under it are the
arithmetic of `pixel_at` and `mix8`: both weights of a mix add up to a power of
two, so a mix lies between its colors and a pair loses one unit at most to the
shifts (`Mixed`, `Halves`), and every color fits in a byte (`PixelInRange`).
`TypeCorrect` joins the types of both parts.

**`Mmu64_proof`** proves `TypeOK`, `ImplementsAddressMap` and `FewTables`, for
any number of entries, any pool, and any ranges of bytes as long as no two calls
have a page in common.

* `TreeInv`: the tables in use are a tree (`Tree`): there are two functions, the
  level of a table and the number of the block it covers, by which each entry
  either points to a table of the next level for its own part of the block, or
  maps that part to itself. Neither function is in the code; with them, what the
  walk of `get_leaf_for` finds is a matter of digits of the address in base
  `Fan` (`Walk`, `WalkEnds`), and a write to one leaf leaves every walk that
  does not end there as it was (`Elsewhere`, `There`, `Deeper`).
* `Touched`: a table that is not one of the first exists because of a page some
  call asked for and has already written, or of the block being cut. It is why
  the leaf found is never smaller than the block to write (`NotFiner`), and it
  holds because no page is asked for twice.
* `BlockInv`: `leaf` is where the walk for `start` ends, also after each split.

The map is then the attributes of the leaves (`MapIs`), which only `WriteLeaf`
changes. For `FewTables`, `SplitsInv` follows a call: until its first block is
written it has cut that block only (`Taken <= lvl - 1`, two tables at most);
from then on the start is on a block or inside one already cut (`Cut`), so only
the block of each level the range ends in is still to be cut, once (`Ahead`,
`ToCut`).

**`Mmu32_proof`** proves `TypeOK`, `ImplementsAddressMap` and `FewTables`, for
sections, pages and a boundary of any size, any room for tables and any ranges
of bytes that are `Served`, overlapping ones included.

* `DescInv`: every descriptor of level 0 is a section that maps to itself with
  the bits of some set of fields, or a coarse table of which every small page
  does. What `descriptor_section_to_small` does to the bits is a lemma of its
  own (`Moved`): a small page has a field where the hardware looks for it
  exactly when the section had it, so putting a coarse table in the place of a
  section changes no page (`Replaced`).
* `CallInv` is what is left of `Served` in the middle of a call: above the
  boundary only whole sections are left, and the start is on a section, or past
  its first 16kB, or too near the end to fill one. With it `alignment_to_level`
  is right (`Chosen`): a section is written from its first page only, and a page
  only below the boundary, where the step is a page.
* That the pages of a call are those with a byte in its range is arithmetic
  (`StartsAt`, `EndsAt`, `AskedPages`), with the roundings of both granules.

`TablesInv` counts the tables of a call: none yet, or one and the start is on a
section or inside one that has its table, or two and the rest of the range lies
in a section that has one.

Assumptions: those of the constants (`BootAssumption`, `Or64Assumption`,
`Or32Assumption`, `SystimerAssumption`, `WidthAssumption`, `HeapAssumption`,
`DmaAssumption`, `VpuAssumption`, `MailboxAssumption`, `SpiAssumption`, `UartAssumption`,
`ScreenAssumption`, `MmuAssumption` of `Mmu64` and of `Mmu32`), each evaluated by TLC in a run.

Only model-checked: the liveness properties, those of `CoreCheck` in
`ImplementsCoreCheck` included (the prover has no rule for fairness).

## 5. Not modelled

* What the compiler does: an `asm` without a `memory` clobber
  (`memoryBarrier`, `dc civac`) lets it move plain stores; the models take the
  order of the source.
* Several callers at once of `dma_memcpy32` or `mailbox_request`: both use a
  static buffer without a lock, and only core 0 calls them.
* Interrupts (none is enabled), the font, the VideoCore program, the build.
* The values of system registers and the exception levels of the boot,
  `mmu_init_registers`, the registers an exception handler saves.
* The resistors of the pins, the baud rate, and the functions nothing calls:
  `gpio_out`, `gpio_in`, the edge detection, `uart_getc`, `uart_print_raw32`,
  `fb_put_color`.
* A cache whose maintenance width does not divide its line: `DmaAssumption`
  takes `Width` to divide it, while `cache_line_width_for_poc` reads it off one
  field of the cache type register on a Raspberry Pi 1, and off the size of the
  one level it selects elsewhere, which nothing makes the smallest line.
* Integers of 32 bits in the arithmetic of the screen: above a width or a height
  of 4096 the shifts of `pixel_at` overflow; the code asks for 800x600.
* Overlapping ranges in the AArch64 `add_pages` and ranges that are not `Served`
  in AArch32: no caller has any.
* What the core reads of a buffer the DMA of SPI has written: `wbuffer` is not
  invalidated, and a caller that has touched its line may read an old word.
* What follows a failed `fb_init`.

## 6. Plan

1. (done) `CoreCheck`, `MultiCore`, `AtomicOr64`, `AtomicOr32`; `Systimer`;
   `Heap`; `CacheLines`, `Dma`; `Mailbox`; `Vpu`; `AddressMap`, `Mmu64`,
   `Mmu32`; `Spi`; `Uart`, `Screen`, `Main0`; the proofs above.
2. (done) Proofs of `AtomicOr32`, `Heap`, `Dma`, `Vpu`, `Mailbox`, `Spi`, `Uart`,
   `Screen`, `Main0`, `Mmu64` and `Mmu32`: every invariant a run checks.
