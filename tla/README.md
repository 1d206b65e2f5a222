# A TLA+ model of the V85x OpenAMP firmware

The repository is the firmware of the RISC-V core (E907) of an Allwinner V85x.
It talks to Linux on the other core: RPMsg endpoints over virtio queues in
shared memory, notifications through a hardware mailbox. `main.c` sets up two
virtual UARTs and answers whatever the host sends to them. The protocol code is
OpenAMP on libmetal, configured here for one core without an operating system:
the main program and interrupt handlers, which do not nest.

This directory models the protocol code, the platform code around it and the
library code both stand on, checks the models on small instances with TLC, and
proves nearly every safety property that TLC checks for all sizes with TLAPS.

## Inventory

| Component | State | Operations | What is hard |
|---|---|---|---|
| virtqueue (`virtqueue.c`) | descriptor table, free list, avail and used ring, free-running 16-bit indices, notification flags or event indices | add, get, hand back, kick, enable and disable callbacks | two processors on the same memory; index wrap; wakeups |
| libmetal mutex (`mutex.h`, `gcc/atomic.h`) | one word | acquire, try, release | an interrupt handler may want what main owns |
| rpmsg over virtio (`rpmsg_virtio.c`) | both queues, reclaimer list, index and hold count inside each buffer's header | get a transmit buffer, send with and without copy, release, hold, receive dispatch | the lock is dropped in mid-call; callbacks re-enter the library |
| endpoints and name service (`rpmsg.c`, callbacks in `rpmsg_virtio.c`) | list of endpoints, address bitmap, reference counts | create, destroy, bind, unbind, deliver | destruction during delivery; exhaustion; equal names |
| mailbox (`sunxi_mailbox.c`) | two hardware FIFOs, interrupt enable and pending | send, receive interrupt | check-then-write against the handler; full FIFOs |
| platform glue (`sunxi_openamp.c`), UARTs (`sunxi_virt_uart.c`), `main.c` | what is initialised so far | start-up sequence, notify, receive | the interrupt is live while the structures are built |
| heap (`nutheap.c`) | free list in memory | alloc, free, realloc, add region, aligned blocks, reports | splitting, joining, double free, `size_t` wrap |
| remoteproc (`remoteproc.c`, `rsc_table_parser.c`, `remoteproc_virtio.c`) | life-cycle state, notification ids, resource table, devices, memory list | config, load, start, stop, shutdown, create and remove devices | half-parsed tables, ids over many cycles |
| ELF loader (`elf_loader.c`) | load state of an image, headers read so far | header and data steps, release | parsing call by call through a moving window, stores that cannot go back, clean-up half-way |
| soft interrupts (`irq.c`, `softirq.c`) | controllers and their number ranges; pending and enabled flags | register, allocate, set, dispatch | an interrupt set while its handler runs |
| remote system calls (`rpmsg_retarget.c`) | one outstanding call, answer buffer, flag | init, open/read/write/close, callback, unbind, release | answer against flag; host that leaves; a buffer in the caller's frame |
| interrupt controller (`sunxi_irq.c`, `core_rv32.h`) | handler table, enable, pending, priority | request, free, save and restore | requests while the interrupt is live, nesting |
| data cache, memory protection (`core_rv32.h`, `csi_rv32_gcc.h`) | lines; packed region registers | maintenance of a range, region set-up | off-by-one at the ends of a range, shared registers |
| I/O regions (`io.h`, `io.c`) | page map | address translation, block read, write, set | pages out of order, alignment, clipping |
| formatted output (`printf.c`) | bounded buffer and index | snprintf | width against sign, prefix and cut-off; rounding |
| SIMD intrinsics (`csi_rv32_gcc.h`) | none | some hundred lane operations | saturation and sign at single values |
| virtio over MMIO, libmetal devices, serial console | registers and small tables | set-up and dispatch | little |

How they interact: `main` calls `sunxi_openamp_init`, which opens the mailbox,
waits for the host's DRIVER_OK and builds the rpmsg device; a word in the
mailbox interrupts the core, the handler calls `rproc_virtio_notified`, which
calls the receive queue's callback, `rpmsg_virtio_rx_callback`, which looks up
the endpoint and calls the UART's callback, which sends. A send ends in
`virtqueue_kick`, `sunxi_openamp_notify` and a word to the host.

`PROJECT.json` lists every component with its status and, under `hazards`,
what is hard to test in this code, line by line, with the property that would
notice.

## Modules

* **BufferExchange** is the abstract specification of a virtqueue: a buffer is
  with the driver's client, offered, with the device's client, or returned;
  offers and returns are first in, first out.
* **Virtqueue** is `virtqueue.c` with both roles running concurrently. The two
  roles are the same code, so its variables are functions of the side. Each
  access to memory that the other side writes is a step: a slot is written
  (`AddBuffer`, `AddConsumed`), then its index published (`Publish`); an index
  is compared and moved (`Claim`), then the slot read (`TakeAvailable`,
  `TakeUsed`). `Kick` is the notification decision, `EnableCb` and
  `RecheckAfterEnable` the two halves of enabling callbacks. `Resume` is the
  one action for the client: it goes back to work without a notification.
  `AddBuffer` does not test the free count, as the build does not: the checks of
  `virtqueue_add_buffer` are `VQ_PARAM_CHK`s, which without `VQUEUE_DEBUG` are as
  empty as the asserts (`virtqueue.h:208`). With too short a free chain it ends in
  the state `overrun`. What keeps the queue out of it is the client, `ClientLends`.
* **VirtqueueProofs** holds its theorems and the proof that it implements
  BufferExchange; **SequenceLemmas** has the facts about sequences,
  cardinalities and remainders that these and the other proofs use. In the same
  way **RpmsgVirtioProofs**, **RpmsgEndpointsProofs**, **OpenampBootProofs** (with
  the theorems about Mailbox), **MetalProofs** (Rpc, MetalIrq, MetalIo and NutHeap),
  **RemoteprocProofs** (Remoteproc and ElfLoader) and **CoreProofs** (DCache, Clic,
  Pmp and Simd) hold the theorems about the modules they extend.
* **MetalMutex** is the mutex at the granularity of the compare-and-swap,
  `unlocked` being the local variable the macro writes back to.
* **RpmsgVirtio** is `rpmsg_virtio.c` in the device role. Every critical
  section of `rdev->lock` is one step and every stretch outside it another one.
  It uses the two queues as BufferExchange does, which the refinement
  properties check: so the composition is Virtqueue implements BufferExchange,
  and RpmsgVirtio keeps the device's part of the same contract.
* **RpmsgEndpoints** is `rpmsg.c` with the look-ups of the two callbacks.
* **Mailbox** is `sunxi_mailbox.c`: the two FIFOs as fill levels (a word is a
  bare notification), the handler and a send in single register accesses.
* **OpenampBoot** extends Mailbox by the start of the firmware. `Program` is the
  sequence of steps of main, `up` what exists, and the handler's steps say what
  happens for whatever does not exist yet. Reading through a null pointer is a
  choice between a fault and reading zero. Every allocation may fail.
* **NutHeap** is `nutheap.c` with addresses and sizes in bytes and `size_t`
  arithmetic modulo `SIZE_T`.
* **Remoteproc** is the life cycle, the parser's handling of notification ids,
  and the list of devices. Tables are memory: parsing writes the ids it found into
  the entries (`WriteIds`), for `remoteproc_set_rsc_table` in the caller's own
  table, which therefore asks for these ids by number when it is set again.
  Reading the image is left out: a load parses a copy of a table and adopts it, or
  gives it up. `shared` records that an id was handed out that was taken.
* **ElfLoader** is the reading: `remoteproc_load` with the loader it drives, step
  by step, against a store that serves a window of the image (and need not be
  able to go back), and the memory list that translates device addresses. An
  image is its segments and whether and where it has a resource table; header
  layouts are left out. `LoadHeader` chooses among `ElfHeader`,
  `ProgramHeaders`, `SectionHeaders`, `SectionNames` as the load state does.
* **MetalIrq** is `irq.c` and `softirq.c`: the ranges of the controllers, and the
  dispatcher with a step for each access to the pending and enabled flags.
* **Rpc** is `rpmsg_retarget.c`: one caller, the endpoint callback in its two
  halves (copy the answer, clear the flag), and the host, which answers,
  terminates or goes away.
* **Clic** is the interrupt controller and `arch_request_irq`; a request is a step
  for each store, and an enabled interrupt may come between any two.
* **DCache** is the cache as a set of lines with a dirty mark over memory, and the
  maintenance calls line by line; **Pmp** the protection regions in their packed
  registers, with what a region covers worked out from the registers.
* **MetalIo** is the translations of `io.h` and the block transfers of `io.c`, byte
  and word steps apart.
* **Printf** is `_vsnprintf`: `Parse` reads a directive, `IntOut`, `StrOut`, `Ftoa`
  make its characters, `OutBuffer` is the bounded sink. Characters are one-letter
  strings; integers have small widths (`CHARBITS` to `LLBITS`), and `FUNIT`ths stand
  for the fractions a double can hold.
* **Simd** has the intrinsics from `__REV` to `__RRX` and from `__PKHBT` to
  `__UXTB16` as operators with the code's shifts and masks, on words of four lanes
  of `BYTE` bits. `__CLZ` is a compiler builtin, and the unprivileged loads and
  stores and the barriers do not compute.
* **MC...** instantiate modules for TLC. `MCPlatform` and `MCMetal` hold several
  components that share no state (the life cycle of Remoteproc, with the instance
  of `MCRemoteproc`, in the former, ElfLoader in the latter): the variable `unit`,
  chosen at the start, says which of them moves, so that a run covers the union of
  their behaviours and not the product.

What is deliberately left to assumptions, and named where it is used:

* Memory is sequentially consistent (the code fences around index updates).
* A lock section is atomic in RpmsgVirtio and RpmsgEndpoints. That is what the
  code is written for; MetalMutex shows what the lock really gives. The two
  together mean: the results about RpmsgVirtio hold as long as no handler enters
  a critical section of main.
* A client of a virtqueue lends no more descriptors than the ring has
  (`ClientLends`). The driver role of `rpmsg_virtio.c` fills the receive queue with
  at most `vq_nentries` buffers of one descriptor and then returns one for each it
  got. On the transmit queue it takes a new buffer only while `vq_free_cnt` is not
  zero (`:202`), but puts it on the queue in a later lock section, so that several
  senders with a pool larger than the ring could ask for more than there is. This
  firmware is the device and has no such client; the mutant `ClientUnchecked` shows
  what happens to the free list then.
* The application creates an endpoint again only after it was released and
  destroys it once; a client of remoteproc removes its devices before it stops
  the processor (`DevicesRemoved`) and creates devices from a table of its own
  (`current`). It does not run `remoteproc_set_rsc_table`, `remoteproc_remove_virtio`
  or `remoteproc_get_notification` against another call: these three take no lock.
  The memory a table was loaded to keeps it until the next table is loaded.
* `rpmsg_virtio` can be given a wait callback (`rpmsg_virtio.h:122`), and nothing in
  the repository does. One that succeeds ends the call without another look for a
  buffer; one that answers anything but success and `RPMSG_EOPNOTSUPP` repeats the
  attempt without a tick less (`rpmsg_virtio.c:392-398`), so that the tick count no
  longer ends the call. `WaitStatuses` says what it may answer: all three kinds in
  `rpmsg_safe`, the first two in `rpmsg_live`.
* The host follows the virtio rules, but may at any time stop lending,
  stop reclaiming, or withdraw DRIVER_OK.
* The mailbox hardware: a word written to a full FIFO is lost, and the read
  interrupt stays pending while its FIFO has words.

## Runs

| Run | Question | Bounds |
|---|---|---|
| `vq_flags` | Are free list, rings and indices sound, is no wakeup lost, is BufferExchange implemented (flags), for a client that keeps to the ring size? | 2 descriptors, indices modulo 4, chains up to 2, 2 buffers |
| `vq_event` | Is no wakeup lost and does every buffer arrive (event indices)? | 2 descriptors, indices modulo 4, 1 buffer |
| `metal` | Does a handler's lock call return; are interrupt ranges and soft-interrupt blocks disjoint; is every soft interrupt served; does a system call end with its own answer; are segments placed, tables found, resources released, and does a load end? | 2 spinning and 2 trying contexts, one a handler; 3 controllers, 3 soft interrupts; 2 kinds of call, 3 calls in a row; images with up to 4 headers, two memories, each store with and without seeking |
| `mutex_exclusion` | Does the mutex exclude? (**it does not**) | main and one handler |
| `rpmsg_safe` | Has every buffer one owner, are the queues used properly? | 2 descriptors and 2 buffers a queue, 1 thread and the dispatcher |
| `rpmsg_live` | Is every message dispatched, does every call return? | the same with 1 transmit buffer |
| `ept_safe` | Are reference counts and addresses exact, is what is destroyed released? | 2 endpoints, one with `release_cb`, bitmap of 2, a reserved, a dynamic and an out-of-range address |
| `ept_full` | Are addresses unique when all are taken? (**no**) | 3 endpoints, bitmap of 2 |
| `ept_unbind` | Is everything unbound that was bound to a destroyed remote? (**no**) | 2 endpoints of one name |
| `rproc_ids` | Are notification ids unique? (**no**) | 9 ids, 3 tables of images and 2 of clients, 2 parses between two stops |
| `platform` | Heap: partitioned, joined, large enough, honest, safe against a double free? Output: inside its buffer, as wide as asked, readable back, nearest decimal? Intrinsics: equal to arithmetic on lanes? Interrupts: right argument, sections closed, priorities readable? Cache and protection: exactly the range? I/O: translations inverse, transfers exact and aligned? Remote processor: ids reserved, given back and, until a taken one is handed out, unique? | heap: 2 regions, 5 sizes, words of 2 bytes; lanes of 2 bits; integers of 2 to 6 bits, some 8400 calls of `snprintf`; 3 interrupts, 3 calls; 3 lines of 2 bytes, ranges to 4 bytes; addresses of 4 bits, regions 3, 4 and 16 (refused), 3 calls; 3 I/O regions, up to 12 bytes; tables and ids as in `rproc_ids` |
| `boot` | Which faults are possible, is anything lost or stuck during the start? | FIFO depth 3, 2 UARTs, 3 messages |

The properties of `platform` and some of `metal` are conjunctions of named parts, one promise each, stated and commented where they are defined:

| Property | Parts |
|---|---|
| `HeapSound` | `HeapPartitioned`, `Coalesced`, `DoubleFreeHarmless`, `RoomForRequest`, `AlignedInside`, `ReportHonest` |
| `TextExact` | `BufferRespected`, `WidthHonoured`, `ReadsBack`, `FloatNearest` |
| `IntrinsicsExact` | `SaturatesToNearest`, `LanesExact`, `ProductsExact`, `MovesExact` |
| `DriversServed` | `HandlerGetsItsData`, `SectionUninterrupted`, `PrioReadsBack`, `OwnerKept` |
| `RangeExact` | `RangeWrittenBack`, `RangeDropped`, `NeighboursKept` |
| `RegionsExact` | `RegionExact`, `OthersKept` |
| `IoExact` | `TranslationExact`, `BlockExact`, `WordsAligned` |
| `NumbersDisjoint` | `BlocksDisjoint`, `RangesDisjoint` |
| `IdsExact` | `IdsReserved`, `RollbackExact` |
| `LoadExact` | `SegmentsPlaced`, `TableFound`, `NothingLeaked` |

`PROJECT.json` has a mutant for each part: a changed definition of the model, as a
plausible bug would change the code, that makes TLC refute the property. The type
invariants of RpmsgVirtio, RpmsgEndpoints and Mailbox are parts of `TxAccounted`,
`RefcntExact` and `NotificationKept`, and `AddressesUnique` is one of `BitmapExact`.

Why these bounds are enough. A ring of two slots with indices modulo four has
full, empty and wrapped rings and every relative position of the four indices,
with chains and free lists of length zero to two. Two buffers are the fewest
that can be confused. One thread, with the dispatcher whose callbacks re-enter
the library, gives two contexts in every pair of positions; the code has at
most these two on its one core. Two same-named endpoints and a bitmap of two
reach wrap-around and exhaustion. The two heap regions (one of them neither
aligned nor a multiple of a word) hold at most a handful of nodes, enough for a
release between two free neighbours. A FIFO of depth three can be filled by two
sends that race and leave a word to lose. Nine notification ids are more
than the tables between two stops use, so that every id that is shared is shared
because a table asked for it by number; a full bitmap is the behaviour of `ept_full`
in the same bitmap function. Two parses between two stops are enough, as what they
wrote into the tables stays behind for the next two.

In `platform` the small widths keep every edge: a lane of two bits has the largest
and the smallest value of each sign and every carry; the intrinsics run on all
first operands and on second operands around zero and the change of sign. Integers
of two to six bits have a least value, a wrap and more digits than a field. The
formats are all combinations of flags, width, precision and conversion of a small
grammar, into buffers that hold all, some or none of the text. Regions 3 and 4 lie
on the two sides of a configuration register's border, 16 is out of range. A range
of four bytes over lines of two begins and ends in the middle of lines. In `metal`
three controllers include one with a range of its own between two that take what
is free; three soft interrupts run their table full; the images have
section headers next to the program headers, behind the data, unreadable or none;
segments to load and others, with and without padding, with no bytes in the file,
and outside every memory; and first windows that end inside and behind the headers.

`CHECK_DEADLOCK FALSE` is used where the system may stop: in `boot` a core that
faulted stays there, and in the `rpmsg` runs a host that withdrew DRIVER_OK and
clients that keep their buffers leave nothing to do.

Fairness. `vq_event`: each side completes a library call it has begun, takes a
pending interrupt, consumes what is there and kicks what it added; strong
fairness for the two actions that the same side's other calls can disable.
Nobody has to lend, return or wait. `metal`: of the mutex's contexts only the
handler is fair, as it has the core to itself; the main loop calls the soft
interrupt dispatcher again and again and handlers return; the system call's caller
and the receive path go on, the host answers what reached it or goes away, and
a load that was called goes on. `platform` has no liveness. `rpmsg_live`,
`ept_safe`: calls go on and callbacks return, strongly where a callback may call the
library again and again; the host notifies what it added, and never has to lend. `boot`: the core executes
(strongly for main, which each interrupt suspends), the host comes up once and
empties its FIFO. Main's progress needs one more premise, in the property
itself: the host does not go on posting for ever, since the handler's loop has
no bound.

## What the runs show

The protocol code holds up: the virtqueue implements its abstraction in every
interleaving, message buffers and endpoints are accounted for in all
combinations of calls and callbacks, the heap is sound, and no notification is
lost between the cores. `FaultExplained` states exactly when the start can go
wrong: a host that kicks right after it has set DRIVER_OK can hit the handler
before `rpmsg_init_vdev` has assigned the queues, and a failed allocation goes
unnoticed by `sunxi_openamp_init` (which discards the status of
`rpmsg_init_vdev`) and by `main`. `AnnouncedReachable` and `NoStrandedMessage`
say that nothing else is lost: whatever notifications were dropped meanwhile,
no message stays behind.

The library code does what it is for within the limits its properties name. What
the models have, because the code does, and what the properties therefore exclude:

* Heap: a request that wraps `size_t` gets a tiny block; with no free node
  `NutHeapRegionAvailable` reports almost the whole address space. In two windows
  below that wrap the heap itself is at stake, which the proof of `HeapSound` brought
  out and TLC confirms with a size of that window added to `Sizes`. With `SIZE_T` for
  2^32 and `WORD` for 4: for a request of more than `SIZE_T - 2*WORD` and less than
  `SIZE_T - WORD` the sum with the overhead does not wrap, but rounding it up does
  (`nutheap.c:153`), so the node has size 0, is handed out all the same, shares its
  address with the rest of the node it was cut from, and a node of size 0 gets into the
  free list when it is released; for one of more than `SIZE_T - 3*WORD` and at most
  `SIZE_T - 2*WORD` a realloc that has to move asks `NutHeapRootAlloc` for the size with
  the overhead already in it (`nutheap.c:529-545`), which then wraps to the smallest
  block. The sizes of `platform` lie outside both windows, as does every size a
  program on this memory can mean.
* Output: with `#` the prefix overwrites digits that fill the width; a sign is lost
  when the conversion buffer is full; a fraction of exactly one half below a carry
  (`%.1f` of 0.95) is not carried; `-` ignores zeros of the precision.
* Intrinsics: the property says of every operand what the code computes, which is
  not always what the comment above it says. 64-bit accumulators add the two
  products in 32 bits, so the sum of the two extreme ones wraps (`:2735`);
  `__USAT16` takes negative halfwords for large ones (`:1543`); `__USAD8` masks
  differences in place of taking absolute values (`:1788`); the low half of `__PKHTB`
  is cut from the whole second word shifted with its sign, not from its low half
  (`:1512`); `__RRX` returns 0 (`:1386`). Excluded are three operands that C leaves undefined: a shift by 32 in
  `__PKHTB` (`:1509`), `__SSAT` to 32 bits, where the largest value overflows
  (`:1287`), and `__USAT` to none (`:1332`).
* Interrupts: `irq_vectors_init` disables `i - OFFSET`, so the last `OFFSET`
  interrupts keep their state; requesting an owned interrupt returns success
  without effect; a request while the interrupt is enabled may run the handler with
  the old argument (`exposed`).
* Cache: a range of size zero at an unaligned address still touches one line, and
  disabling the cache drops dirty data.
* Protection: disabling a region that was set up with four bytes leaves it on, and
  a locked address behind a new configuration leaves the region half-configured.
* I/O: pages whose base is not aligned to the page size are not found.
* Soft interrupts: the last one is never handed out (`>=`), and a controller moved
  behind one range may run into a range passed before. `BlocksDisjoint` is about the
  set of blocks: one that is handed out twice shows when a block of another size
  overlaps it.
* Remote calls: a TERM message destroys the endpoint and leaves a waiting caller in
  its loop for ever; session set-up does not end if the endpoint goes meanwhile;
  the pointer to the answer buffer stays after the call returned. The client's
  `shutdown_cb` touches none of this state and is left out.
* Loading: a short read of a header is returned as a non-negative result; a store
  that cannot go back loses the resource table if a header that is not LOAD comes
  last; an empty LOAD segment fails the load.

Some hazards the models have but no property is about, since nothing says that it
should be otherwise: a UART's callback is registered after its announcement, so a
message in between is consumed without an answer (`main.c:60`); an endpoint without
`release_cb` is not pinned while its unbind callback runs (`rpmsg_virtio.c:668`);
`remoteproc_stop` clears the ids of devices that may still exist
(`remoteproc.c:267`, excluded by `DevicesRemoved`), `remoteproc_load` returns 0 with
the table of the image before still in force when a table was rejected (`:557`) and
returns the count of a short header read as its result (`:545`), and
`remoteproc_create_virtio` waits for the host with the lock held (`:993`);
`hal_msgbox_free_channel` does not end with a second send-only endpoint
(`sunxi_mailbox.c:144`, never called).

Four runs refute a statement of the code's own comments:

1. `mutex_exclusion`: the compare-and-swap macro overwrites the expected value
   when it fails, and `__metal_mutex_acquire` does not reset it, so the second
   turn of its loop takes a mutex that is locked. On this firmware the effect is
   that a handler which interrupts a critical section of main enters it, and
   `metal` (`HandlerNeverStuck`) shows that without this the handler would hang.
2. `ept_full`: `metal_bitmap_next_clear_bit` never reports that there is no clear
   bit, so `rpmsg_get_address` hands out an address in use once all 128 are.
3. `ept_unbind`: a name-service destroy message unbinds one endpoint. With two
   endpoints of the same name bound to that remote, or with an unbound one in
   front, a bound endpoint keeps its stale destination.
4. `rproc_ids`: the parser writes the ids it hands out into the table. A table that
   is parsed again, after a stop or after another table, asks for them by number,
   and `remoteproc_allocate_id` does not refuse a number that is taken: it looks at
   one bit, the search wraps, and what comes back is taken, too. In the run a table
   is loaded and gets ids 0 and 1; after a stop a client's table gets them, and a
   device is made from it; the loaded table is set again, and a second device gets
   0 and 1. From then on a failing table may also free the ids of another's device,
   so that `OneListener` and `IdsExact` are about behaviours without such an id
   (`~shared`). `NoIdIsShared` proves when there is none.

## Proofs

TLAPS checks every theorem for all values of the constants that satisfy the
modules' named assumptions. Every safety theorem has the same shape: an inductive
invariant holds initially, one lemma per action (or per group of actions with the
same effect) shows that it is kept, and it implies the property.

| Module | Theorem | States |
|---|---|---|
| VirtqueueProofs | `TypeCorrect`, `WakeupNeverLost` | `TypeOK`, `NoLostWakeup` |
| | `FreeListIsSound`, `ChainHasOneOwner`, `IndicesStayInOrder` | `FreeListSound`, `OneOwner`, `IndicesInOrder` |
| | `ImplementsExchange` | `ExchangesBuffers`: Virtqueue implements BufferExchange |
| RpmsgVirtioProofs | `TransmitAccounted`, `HoldsMatch` | `TxAccounted`, `HeldMatches` |
| | `KeepsTxContract`, `KeepsRxContract` | both queues are used as BufferExchange allows |
| RpmsgEndpointsProofs | `CountsExact`, `NothingUsedAfterRelease` | `RefcntExact`, `NoUseAfterRelease` |
| | `BitmapIsExact`, `FewEndpointsBitmapExact` | `BitmapExact`, under a condition |
| OpenampBootProofs | `BootImplementsMailbox`, `NotificationsKept` | the boot is a mailbox behaviour; `NotificationKept` |
| | `FaultsExplained`, `AnnouncedAreReachable`, `NoneStranded` | `FaultExplained`, `AnnouncedReachable`, `NoStrandedMessage` |
| MetalProofs | `AnswersAreOwn` | `AnswerIsOwn` |
| | `NumbersAreDisjoint` | `NumbersDisjoint` |
| | `IoIsExact` | `IoExact` |
| | `HeapIsSound` | `HeapSound`, for sizes outside the two windows above |
| RemoteprocProofs | `NotificationsHaveOneListener`, `IdsAreExact` | `OneListener`, `IdsExact` |
| | `NoIdIsShared` | when their condition `~shared` holds |
| | `LoadIsExact` | `LoadExact` |
| CoreProofs | `RangeCallsExact`, `DriversAreServed` | `RangeExact`, `DriversServed` |
| | `RegionsAreExact` | `RegionsExact` |
| | `IntrinsicsAreExact` | `IntrinsicsExact` |

**Virtqueue** (`SizeAssumption`: a positive ring size that divides a larger index
modulus, fewer unannounced additions than the modulus; and clients that lend no more
descriptors than the ring has, as `ClientLends` in `Next` says). `NoLostWakeup` is not
inductive: that a waiting side with entries has a signal or a peer about to kick
does not say why a peer's *next* kick would notify. `IInv` adds that a side which
is enabling or waiting is *armed* (its flag is clear, or its event index is its
consumer index), and that the entries it has not consumed are covered by the
peer's `vq_queued_cnt` unless a signal is pending. Publishing raises both sides of
that inequality by one; a kick that resets the count must then notify, which for
event indices is the lemma `NeedEventComplete` about `vring_need_event` modulo the
index width.

`VqInv` adds three parts. `TableInv`: there are a list of the free descriptors and
a list for each lent chain that together name every descriptor once and follow the
`next` fields; adding a buffer cuts a chain off the front of the free list, freeing
one glues it back, in whatever order chains return. `RingInv`: the unread entries
of a ring are different heads, a call between two memory accesses works on the
slot its index says (`RegInv`), and the lent chains are exactly those in a ring, in
a call or with the device's client. `CookieInv`: a buffer is with the driver's
client or the cookie of one lent chain. That no call walks past the table follows by
counting: the lent chains cover as many descriptors as the client has asked for
(`Outstanding`), the rest is the free chain, so that it is as long as the client may
still ask for. `IndicesInOrder` follows by counting: at
most as many chains are lent as there are descriptors, and the index differences
count chains. The refinement of BufferExchange maps the offers to the buffers of
the unread avail entries, in order, with the chain that a call has claimed or is
about to publish; it needs all of `VqInv`, since only a table that the other side
cannot have reused tells which buffer a slot stands for.

**RpmsgVirtio** (`SetAssumption`; the set of descriptors is finite). `RvInv` says of
each queue that a descriptor is in one of four places and that lent ones point to
different buffers (`QueueInv`); of a transmit buffer, that its stored index is of
a descriptor the device has, and that a client's unsent buffer has one hold, so
releasing it puts it on the reclaimer list (`TxInv`); of a received buffer, that the
dispatcher's is at the device and not held before its header is written (`RxInv`).
Together with `ImplementsExchange` the two contract theorems close the argument
between the layers: the queue gives what BufferExchange promises, and the device
role asks for no more. Lock sections are atomic, as everywhere in that module.

**RpmsgEndpoints** (`EndpointAssumption`; the null pointer is no endpoint). `EptInv`
adds to the exact counts that an endpoint is listed once, and that a call between
its two critical sections has a listed endpoint of its own that nobody else may
use. `BitmapExact` is false when `rpmsg_get_address` is called with every address
taken, which the run `ept_full` shows; it is proved for behaviours that do
not (`AddressLeft`), and `FewEndpointsBitmapExact` proves that condition from the
constants when there are no more endpoints than bits.

**OpenampBoot and Mailbox** (`BootAssumption`: at least one UART, a ring of positive
length). `MailInductive` proves `NotificationKept` for the mailbox alone and
`BootImplementsMailbox` carries it over. `BootInv` relates where main is to
what exists (`BuildInv`), what was told to the host to what exists (`TellInv`), a
fault to where main was (`FaultInv`), the silence of a host that waits
(`QuietInv`) and the handler's place to the queues it uses (`HandlerInv`).

**Rpc**. `RpcInv` says for each state of the endpoint what may be on the way: while
it is bound and a call waits, the request is at the host, the answer on the way,
copied, or copied and announced. A farewell of the session before may still
precede the new session's messages; it ends the new one.

**DCache** (`CacheAssumption`: a line size that is a power of two up to 64). The loop
keeps `AtLine * LINESIZE + opSize` at the end of the range, whether or not the
address was aligned first (`LoopInv`); with it the lines left behind are those of
the range, and they are as promised unless accessed meanwhile (`DoneInv`). **Clic**
(`ClicAssumption`; the null handler is not one that drivers request). `ClicInv`
says that a request under way found its interrupt disabled or is recorded as
exposed, that every other descriptor in use has its own argument, and that only
the outermost section has saved an enabled state.

**MetalIrq** (`IrqAssumption`). `ListInv`: a controller is listed once, and has a base.
`RangesInOrder`: while the list is in the order of the numbers its ranges follow one
another. The walk of `metal_irq_allocate` is a function of the place in the list; an
range that is declared overlaps none of the controllers passed so far, and, with the
list in the order of the numbers, an undeclared one does not either, since a
controller that it is moved behind lies above all that it has passed (`Allocated`).
`BlocksInv` bounds the blocks handed out by the counter `softAvail`.

**MetalIo** (`IoAssumption`: regions below the top of the address space whose pages are
aligned, different and cover the region). `IoInv` has the transfer's invariant: what was
moved is the first `bufAt` bytes, pointers move in step, and the rest with them makes
the clipped length (`BlockInv`). The translations are facts about a region, whatever
the state: an address lies in one page at most, so walking the pages finds that one.

**NutHeap** (`HeapAssumption`, `RegionsAssumption`: regions apart, each with room for a
node, below the top of the address space). `HeapInv` says that the free list is sorted
with gaps, that every node and block is aligned and at least a `HEAPNODE`, and that
their bytes are apart and make up what was given to the heap (`Sound`). Each call is
`Split`, `Release` or both; `SplitFacts` and `ReleaseFacts` are proved once for any good
list, the latter for every place where the walk can stop. The theorem assumes
`SizesFit`: no requested size lies in the two windows described above, where the
property is false.

**Pmp** (`PmpAssumption`: addresses of any width, and sizes that fit in it). `PmpInv` says
that the mode and the address register of a region are what its last call asked for
(`Recorded`), but for an address that was locked then, which `config` records as
`half`. Three things carry the proof. Powers of two: the library has none of their
laws, so `PowCounts` takes them from its count of the subsets of a set, and `PowNext`,
`PowDivides` and `OneOddPart` (a power of two times an odd number determines both)
follow. The address register: `NapotExact` says that the ones at the end of what is
written give the size back, and the rest the base. The packing: `SetByte`, a write
changes the byte of its region and no other. The attempt to prove an earlier form of
the property failed for a good reason: it recorded nothing of a call whose address was
locked, so that a second such call counted as no change, and `OthersKept` was false
from the third call on, where a bound of two calls had hidden it. `platform` now makes
three.

**ElfLoader** (`ElfAssumption`: images whose loaded segments do not overlap, as the linker
lays them out, and regions of memory apart in physical addresses). `LoadInv` says
which headers are held for each load state and that they are allocated
(`HeaderInv`), that every loaded segment before the index in the load state is in
place (`SegmentInv`; the next one is written to bytes of no other), and when the
section headers must have been read (`TableInv`). One lemma for each step of the
loader and each part of `elf_load_header`.

**Remoteproc** (`RprocAssumption`). `OneListener` and `IdsExact` are false once an id was
handed out that was taken, which the code does when the bitmap is full or a table asks
for a taken id by its number (`rproc_ids`). They say what holds up to there (`~shared`),
for all tables and bitmaps. `RprocInv`: the tables in memory stay tables; and, unless
an id is shared, the ids of every device are different and taken (`VdevsInv`), the
table in force has ids of its own for each entry, all taken (`TableGranted`), and a
device in use is one of that table or has none of its ids (`OldOrNew`). A table is
rewritten by each parse of it, also a failing one; that this never pulls the ids from
under the table in force is `AcceptedAgain`: a table that was accepted once is accepted
again. `NoIdIsShared` proves `[]~shared` for clients that set a table only as they put
it there (`TablesAnew`), if the ids suffice (`IdsFit`: there is a `W` such that no
table asks for more than `W` ids, the bitmap has `W` bits for each table parsed between
two stops, and ids asked for by number are at least `W * MaxTables - 1`, so that a bit
below them is clear). `CountInv` counts at most `W` ids for each table parsed. The
tables of `rproc_ids` meet `IdsFit` with `W` = 3, so what that run shows is due to
`TablesAnew` alone.

**Simd** (`SimdAssumption`: lanes of at least one bit). `BYTE` is any positive number, so
the theorem covers the words of the code and those that TLC enumerates. Shifts are products and
quotients by powers of two; the proof turns each of them into the statement that the
lane cut out by two shifts is the digit of the word at that place, with or without its
sign (`ShiftedField`, `Operands8`, `Operands16`), and that packing puts four or two numbers back as the digits of a word
(`FourOf`, `TwoOf`). An operation on lanes is then a statement about one pair of
digits. Sums that were cut to a lane still differ from the exact ones by a multiple of
it only, which is what the modular, halving and multiplying operations need. The
shifted half of a packed word is followed bit by bit (`BitAbove`, `BitDown`, and
`SignBits` for the copies of the sign), and saturation to fewer bits than a lane
or a word is that of its number (`Narrow16`, `NarrowWords`). For `__RBIT`, after `k`
rounds the low `k + 1` bits of the result mirror those of the value (`MirrorSteps`),
and the last shift moves them to the top.

Walks over lists (in MetalIrq, NutHeap and the two loops of the parser) are functions
of the position. `Recursion` of SequenceLemmas says that such a function exists, as
a lemma about a function of place and value and not about an operator, and `Along`
that what each turn keeps holds at every place; both come from a least
counterexample (`LeastNat`), as an induction theorem with an operator parameter
cannot be instantiated.

Only model-checked, and why:

* Liveness, which with ENABLED is out of the prover's reach: `EveryBufferArrives`,
  `RxDrained`, `CallsReturn`, `DestroyedIsReleased`, `BootCompletes`,
  `FullInboxDrains`, `LoadEnds`, `HandlerNeverStuck`, `SoftirqServed`, `CallEnds`.
* What a conversion computes for every input: `TextExact` (`_vsnprintf` as recursive
  functions and folds over text of any length) needs an induction over data for each
  of them.
* `AddressesUnique` without the condition above, and the other properties that a
  run shows violated; `HeapSound` outside `SizesFit`, where it is false.

## Not modelled

The driver role of `rpmsg_virtio.c` and the memory pool it allocates from, as
this firmware is the device; `rpmsg_deinit_vdev`, `sunxi_openamp_deinit`,
`virt_uart_deinit` and `hal_msgbox_free_channel`, which are never called;
`remoteproc_load_noblock` beyond its handling of the table; virtio over MMIO, a
second transport that this firmware does not use; libmetal's device lists, DMA and
shared-memory registration, which it does not fill; `%e` and `%g`; the RPC client
and server, which are not built (`rpmsg_retarget.c` is not either, but it is the
one with a protocol); register set-up, trap entry, serial console, logging;
generated or constant data such as the resource table. Program headers beyond 256
(the loader's segment counter has eight bits) are outside the bounds of `metal`.

## Plan

Done: Virtqueue with its abstraction and its first theorems; MetalMutex;
RpmsgVirtio; RpmsgEndpoints; Mailbox and OpenampBoot; NutHeap; Remoteproc; then
ElfLoader, MetalIrq, Rpc, Clic, DCache, Pmp, MetalIo, Printf and Simd; then the
proofs for Virtqueue and its refinement, RpmsgVirtio, RpmsgEndpoints, Mailbox,
OpenampBoot, Rpc, Clic, DCache, MetalIrq, MetalIo, NutHeap, Pmp, ElfLoader,
Remoteproc and Simd.

Left, in this order:

1. The consequence of the mutex for the rpmsg device: RpmsgVirtio's transmit
   path in single memory accesses, with the handler entering main's critical
   section.
2. The driver role of `rpmsg_virtio.c`, and its composition with the device role
   over two queues.
3. `remoteproc_load_noblock` against ElfLoader; the serial ring buffer.
4. What holds of MetalMutex without the handler, as a theorem.
