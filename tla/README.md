# A verification development for Objective-HailOS

TLA+ models of the kernel in `src/`, checked with TLC on small instances and, for
the core components, proved with TLAPS for every value of the constants.
`PROJECT.json` lists the runs, the mapping from definitions to source lines, the
hazards and the theorems.

## The system and its parts

HailOS is a small C++ kernel for x86_64.  It runs on one CPU, in one address space,
with cooperative threads.  `main` initialises the parts in the order of this list.

| Part | Source (under `src/Kernel`) | State | Operations that change it | Actors |
|---|---|---|---|---|
| Interrupt dispatch | `Arch/x86_64/CPU/Interrupt`, `Arch/x86_64/Interrupts`, `Utility/CriticalSection.cpp` | handlers, tick count, interrupt flag | register, unregister, dispatch, end of interrupt | local APIC, handlers, thread |
| Page allocator | `Core/Memory/PhysicalMemoryBitmap.*`, `EarlyPageAllocator.*` | bitmap of the physical pages | parse the memory map, allocate, release | all callers |
| Bit operations | `Include/Utility/Bit.hpp` | none: they work on the bitmap | set a bit, set a range, find a run | page allocator |
| `new` and `delete` | `Core/Memory/NewDelete.cpp` | header in front of a block | new, delete | owners of objects |
| Paging | `Arch/x86_64/Paging`, `InitMemory` in `Core/KernelMain.cpp` | page tables, CR3 | build the identity map, load CR3 | boot code, MMU |
| ACPI: MADT parser | `Core/ACPI/MADT.*` | offset, I/O APICs, overrides | walk the entries | boot code, firmware table |
| Reference counts | `Include/Object/RefCountedBase.hpp`, `RefPtr.hpp` | count of each object | copy, move, assign, destroy, release | owners of objects |
| Framebuffer console | `Devices/Console/KernelConsole.*` | cursor, screen | put a character, new line, reset | threads, handlers |
| Serial port | `Devices/Console/Serial*` | transmitter with its FIFO, lock | write a string under the lock; put a character and flush without it | threads and handlers of each CPU |
| Ticket lock | `Sync/SpinLock.hpp` | `Next`, `Owner` | lock, try, unlock | CPUs |
| Run queue | `Core/Scheduler/RunQueue.hpp` | links of the threads | push, pop | scheduler |
| Scheduler, threads | `Core/Scheduler` | states, current thread, queue | create, start, yield, exit, tick | threads, timer |
| Context switch | `Arch/x86_64/CPU/SwitchContext.S` | stacks, registers | fifteen instructions | threads, interrupts |
| Local APIC and its timer | `Arch/x86_64/APIC` | timer registers, requests | enable, measure, program | boot code, timer |
| I/O APIC | `Arch/x86_64/APIC/IOAPIC.cpp` | redirection table | route a line, in two writes | thread, devices |
| Boot order, per-CPU data, panic | `main` in `Core/KernelMain.cpp`, `CPU/PerCPU.cpp`, `Core/ErrorHandling` | what is set up so far | the calls of `main`, exceptions, panic | boot code, firmware, interrupts |
| Main threads | `Core/KernelMain.cpp` | remaining ticks, pages | print, sleep, yield | WorkerA, WorkerB, timer |

Not modelled: see the end of this document.

## Modules

Each module models one part.  Those that compose parts are `Paging`, which works on top of
`PageAllocator`; `SerialWrite`, which instantiates `TicketLock`; `IOAPIC`, which extends
`Interrupts`; `Workers`, which instantiates `Scheduler`; and `Boot`, which extends
`Workers` and brings the whole kernel up to its threads.  Definitions carry the names of
the code.  A definition that begins with the comment "Wrong form" is not part of a model:
it is a plausible mistake in the definition that follows it, and it is there to show that
a property would notice.

- **`PageHeap`** is the abstract specification of a page allocator: every page is
  free or held by one client, and a client gives back exactly what it received.
- **`PageAllocator`** is the implementation: the bitmap as a function from pages to
  bits, `ParseMemoryInfo` (which runs twice at boot, as in the code),
  `AllocatePage` with and without a size, both forms of `FreePage`.  A region that
  begins in page 0 is lost as a whole, as in the code, where `Base` is overwritten
  before `Length` is computed from it.  The scan covers one byte more than the
  bitmap; what is in that byte is chosen freely at each call.
- **`Paging`** extends it to `InitMemory`: parse, build the tables from pages of the
  allocator, load CR3, and then let other callers take, overwrite and release pages.
  `OperatorNew` also writes the header of the block, as long as an entry of a table, at
  the end of the page before it, whoever has that page.  `Walk` is what the MMU makes of
  the tables (external).
- **`Bitmap`** has the loops of `SetBitRange` and `FindAvailableAddress` one bit per
  step, on bytes.  It justifies the set-level operators of `PageAllocator`.
- **`KernelHeap`** has `operator new` and `delete` with the header they write and
  read in the page before the block; the form of `delete` with `nothrow` frees nothing
  when the header does not begin with "KMEM".
- **`RefPtr`** has each operation of `RefPtr` and `RefCountedBase`, and the plain
  references that `new` and `QueryInterface` hand out.
- **`RunQueue`** is the intrusive list, with the FIFO sequence it stands for as an
  auxiliary variable.  **`Scheduler`** uses that sequence; `QueueIsSound` is what
  `Push` requires of its callers.
- **`ContextSwitch`** executes `ArchSwitchContext` by the instruction, on stacks
  that interrupts overwrite below the stack pointer at any point.
- **`TicketLock`** has one action per atomic access, counters that wrap at `M`
  (2^32 in the code), and the failing and succeeding paths of `TryLock`.  Accesses
  happen in program order: the reordering that the relaxed loads of `TryLock` would
  allow a compiler is not modelled.
- **`SerialWrite`** is the serial port: `Write` saves the interrupt flag, takes the
  lock, sends byte by byte with `\r` before `\n` and restores the flag;
  `SerialConsole::PutChar` sends a character and `Flush` waits, both without the lock.
  `WriteByte` is two steps, the poll that finds the port empty and the byte, and
  others act in between; the port (external) takes as many bytes as its FIFO holds,
  and a byte for which there is no room is lost.  On each CPU there is a thread and a
  handler that interrupts it.
- **`Interrupts`** has the request and in-service registers of the local APIC
  (external), the gates, `Dispatch`, the timer handler with its own end of interrupt,
  and critical sections.  The counts of the vectors and the logger, which nothing else
  depends on, are left out.
- **`Console`** has the cursor arithmetic; a screen is the sequence of the places of
  its glyphs.  Coordinates are computed modulo `M`.
- **`IOAPIC`** puts the redirection table in front of the local APIC of `Interrupts`.
  `RouteGSI` is called for any line, live or masked, with vector, CPU, polarity, trigger
  and mask; `WriteRedir` writes the entry in two halves, and interrupts come in between.
- **`Boot`** is `main`, one action per call: CPU, memory, consoles, PIC, local APIC,
  calibration of the timer, per-CPU data, handlers, I/O APICs, threads.  Each takes its
  pages, and each has the failures of the code: some panic, some go on with a
  null pointer.  An exception can
  strike in every call; what it finds (gates, handlers, a console, a page for it, the
  lock of the serial port) decides how the kernel stops.  The calibration keeps
  the integer divisions and the clamping of the code.
- **`Workers`** has the actions of the kernel after boot, which `Boot` takes: WorkerA and
  WorkerB on the scheduler, the ticks, and the pages they use up.  `InitThreads` is
  `Sched::Init` with the page of the bootstrap thread, without which it panics.  The free
  pages are taken to be one run, so that a stack is there as long as enough pages are.
- **`MADT`** is the walk of `ParseMADT` over a table whose types and lengths are
  chosen freely, entry by entry.

`MCPaging` gives a set of memory maps for TLC, and `MCSerialWrite` a set of strings.  The
`…Proofs` modules hold the theorems, `SequentialProofs` those about the parts that one
caller at a time uses (`Bitmap`, `Console`, `RunQueue`), `SchedulerProofs` also those
about `RefPtr`.

## What TLC checks

| Run | Configuration | Bounds, and why they are enough |
|---|---|---|
| `memory` | `Paging.cfg` | Ten pages of two bytes, tables of three entries, one region of any base and length or two with a hole, four sets of reserved regions (none, one, two).  Blocks of one to several pages, some of them from `operator new`, directly behind the tables and elsewhere.  Regions begin and end inside pages, at page 0 and past the bitmap; the map is too large, exactly full or small; the pages run out at each of the tables. |
| `bitmap` | `Bitmap.cfg` | All contents of a bitmap of two bytes of three bits and of the byte after it; runs of up to four bits cross each byte boundary. |
| `scheduler` | `Scheduler.cfg` | Three workers and the idle thread; any creation, that of the bootstrap thread included, may fail, any worker may exit.  All sizes of the queue from none to three occur. |
| `context_switch` | `ContextSwitch.cfg` | Two threads and the bootstrap thread at two call depths, an interrupt frame of three words at every instruction. |
| `ticket_lock` | `TicketLock.cfg` | Three CPUs, counters modulo 4: all CPUs in line is one less than the range, the tightest case the assumption allows, and the counters wrap again and again. |
| `serial_write` | `SerialWrite.cfg` | Two CPUs with a thread and a handler each, three calls of `Write`, `PutChar` or `Flush`: one sends while two wait.  The FIFO holds three bytes, one for each thread and one for the holder of the lock, the least that the assumption allows. |
| `interrupts` | `Interrupts.cfg` | A timer, a line below it, a vector in the last class (241) and spurious ones; three requests, so that two are pending while one is handled.  An I/O APIC of one line that does not begin at 0, with numbers on both sides of it, and a second CPU to route it to; it is routed again while it is live.  Both triggers, one polarity: the two are stored and read alike. |
| `ref_ptr` | `RefPtr.cfg` | Two objects, three pointers, two plain references: assignment within and between objects, and to itself. |
| `console` | `Console.cfg` | Three by three characters and a rest that is too small for another. |
| `boot` | `Boot.cfg` | Memory that runs out at each call of `main` and in each thread that is created, or lasts for two messages and the panic after them; with and without local APIC and serial port; samples of no count, of one, of some and of all.  Periods of two and three ticks, B late by up to two. |
| `madt` | `MADT.cfg` | Tables of up to five bytes with entries of up to four, arrays of two and one: each is full, and entries overlap the end. |
| `header_over_data` | `KernelHeap.cfg` | Six pages; violated, see below. |

The questions these runs answer:

- **Memory.**  Only whole pages that the loader reported free become free; those that are
  free or held are always exactly the whole pages of the regions that are kept
  (`NoPageIsLost`; a region that starts in page 0 or reaches past the bitmap gives none);
  none is held by two callers (`NoSharedPage`), the bitmap and `GetAvailableSize` say
  exactly who holds what, `nullptr` is returned only when no run is free, and every call
  is a step of `PageHeap`.  From `LoadCR3` on, every address below the end of memory is
  mapped to itself, whatever other callers write to their pages, with one exception that
  `MapIsIdentity` names: a header of `operator new` may overwrite the last entry of the
  last directory, since the tables lie before every page that is handed out later.  The
  entry is in use when memory or a reserved region reaches into the last large page of its
  last GiB, and is then lost.  The missing test for a null `pdpt` is harmless: when that
  allocation fails the next one fails as well.  The map fails only for want of pages or for
  too much memory.
- **Bits.**  `SetBitRange` changes its range and nothing else; the search is first fit.
- **Threads.**  A thread is never queued twice, while running or dead; one is lost
  only if it is the last one alive; the null of an idle thread that could not be made
  is run only when at most one worker is alive; threads run in turn, and each one that stays
  alive beside another runs again and again.  Across a switch, with interrupts
  between its instructions, a thread finds its registers and stack as it left them.
- **Locks and output.**  Mutual exclusion, service in order of arrival and no
  starvation.  No byte of a string is lost or out of place, also when `PutChar`
  sends without the lock; strings of `Write` do not mix; the interrupt flag
  is restored as it was found; every call returns, although handlers write too.
- **Interrupts.**  Nothing stays in service without being handled, the second end
  of the timer interrupt ends no other interrupt, each tick is counted once, and all
  requests are served.  A line interrupts with the vector, polarity, trigger and CPU of the
  last call of `RouteGSI` that has returned.  `WriteRedir` does not mask a line: one
  that is live when it is moved has the old vector at the new CPU between the two
  writes, and `LinesGoAsRouted` says that this is the only mix.  (`RouteGSI` has no
  callers yet.)
- **Boot.**  When interrupts are enabled, gates, per-CPU data and handlers are
  there and the legacy PIC is masked.  The period of the timer is the one asked for, up to
  rounding, and never 0.  The null page that `InitPerCPU` does not test for is never
  the record of a running thread: the scheduler finds no page either, and panics first
  (`ThreadsHavePerCPU`).  The boot ends; the message of WorkerA comes
  at most once a period, and again and again until the pages are used up.
- **The rest.**  Objects are deleted once, exactly when nothing refers to them; glyphs
  are whole, in reading order; `ParseMADT` ends on every table.

### Fairness

- `Scheduler`: `WF(Boot)` and `WF(Yield)`.  Scheduling is cooperative; the loops of
  the kernel's threads all reach `Yield`.  Nothing is assumed of exits and ticks.
- `TicketLock`: weak fairness of a CPU that spins or holds the lock; it runs with
  interrupts off.  No fairness for asking, nor for `TryLock`.
- `SerialWrite`: a CPU goes on with the code it is in, thread or handler, and the device
  transmits.  Nothing is assumed of who calls, nor of interrupts.
- `Interrupts`: handlers go on, critical sections end, and `SF(Deliver)`: the CPU
  takes a pending interrupt whenever its flag is set, even if it is not set for long.
  The I/O APIC adds none: whether lines are routed or pulled is left open.
- `Boot`: the boot code and the current thread go on, the timer counts, and what it
  requests is delivered while interrupts are enabled.  None for exceptions.
- `MADT`: the parser goes on.

`KernelHeap` and `SerialWrite` are checked without deadlock detection: the first
panics when its pages are used up, the second stops after `MaxWrites` calls.

### The violated run

`header_over_data`: `operator new` writes its header into the eight bytes *before*
the block, the end of a page that may be someone else's, while the comment at
`EarlyPageAllocator.cpp:15` says that the pages are reserved for their caller.
The first block of all may lie right behind the page tables: its header is then in the last
directory, the exception of `MapIsIdentity`.

### Other departures that the models contain as the code has them

- The scan of `FindAvailableAddress` reads the byte after the bitmap, and a run at
  the very top of 64 GiB could reach into it.  `TopPageReserved` below excludes this.
- The comment at `PhysicalMemoryBitmap.cpp:59` says that regions of one page or less
  are ignored; a region of exactly one page is used (`Kept`).
- `operator delete` frees the page before the block, with the number of pages as
  a size in bytes (`KernelHeap!Delete`).  No object is deleted today, because the
  count of `RefPtr<T>(new T)` stays at 1 or above.
- For the same reason every console that `GetBootstrapConsole` makes costs a page for
  good, and the message of WorkerA ends when they are used up;
  the panic for want of memory needs a page itself.
- `ConfigureTimer` tests for a local APIC with the condition reversed, and without one
  writes its registers at address 0; `MaskTimer`, which nobody calls, has the same test.
- The pages of the per-CPU data and of the I/O APICs are used without a test for null.
- An exception inside `Serial16550::Write` leaves the kernel spinning in the handler,
  which waits for the lock of the code that raised it and shows nothing on the screen.
- An exception without a handler returns to the instruction that raised it.
- Seen in code that is not modelled: the handlers of exceptions print CR3 under the name
  CR2; `FindTable` computes the address of the RSDT entries with a scaled pointer; the
  shutdown of the ACPI manager waits with a timer that was never set.
- `ParseMADT` reads the body of an override at the distance of the table header.  Nothing
  uses the overrides.
- A thread that yields to itself stays `Ready` and is lost at its next `Yield`.  This
  needs a thread that is alone (`LostOnlyWhenAlone`), for instance WorkerA
  when there is no stack for WorkerB.

## What is proved

All theorems hold for every value of the constants that meets the named assumptions.
Those that a module states as `ASSUME` are evaluated by TLC in every run of it.

| Module | Theorems | Assumptions |
|---|---|---|
| `PageAllocatorProofs` | `PagesAreNeverShared`, `BitmapIsExact`, `TypeCorrect`, `FreeMemoryWasReported`, `NullMeansNoRun`, `AllocatorImplementsPageHeap` | `TopPageReserved`: no memory map frees the last page of the bitmap |
| `PagingProofs` | `PagingRespectsAllocator`, `MapFailsOnlyForCause`, `MapStaysIdentity`, `PagesAreNeverLost` (which is about `PageAllocator`) | `TopPageReserved`; `PagingAssumption`: a large page is a whole number of pages, each table has a client number of its own, and a memory map has finitely many reserved regions |
| `SequentialProofs` | of `Bitmap`: `FindIsFirstFitAlways`, `WritesAreAlwaysExact`; of `Console`: `GlyphsAreAlwaysOnScreen`, `AlwaysReadsInOrder`; of `RunQueue`: `ListIsAlwaysFifo`, `PopsAreInOrder` | sizes are positive; the screen holds one character and its coordinates do not wrap; `NullIsNoThread` |
| `SchedulerProofs` | of `Scheduler`: `QueueIsAlwaysSound`, `OnlyTheLastIsLost`, `NullIsRunOnlyWhenAlone`, `WorkersTakeTurns`, `NoThreadIsEverLost`, `TheDeadStayDead`, `TypeCorrect`; of `RefPtr`: `ObjectsGoWithTheirLastHolder` | threads are distinct; `RefPtrAssumption`: finitely many pointers, `nullptr` is no object; `NoThreadIsEverLost`: two workers that never exit or fail |
| `TicketLockProofs` | `LockExcludes`, `LockIsFair`, `TicketsAreNeverLost`, `TypeCorrect` | fewer CPUs than counter values; `NoFullWrap`, see below |
| `InterruptsProofs` | of `Interrupts`: `HandlersNeverNest`, `NothingStaysInService`, `AnEoiEndsItsOwn`, `TicksAreCounted`; of `IOAPIC`: `LinesAlwaysGoAsRouted`, `LinesAreRequests`; of `ContextSwitch`: `SavedContextsAreWhole`, `ThreadsResumeAsTheyLeft`; of `MADT`: `TheFirstAreAlwaysKept` | vectors are in 32 .. 254; the numbers of the lines do not wrap; `MADTAssumption`: sizes are positive; `ContextSwitchAssumption`: the bootstrap thread is none of the others, and a stack has at least one word |
| `SerialWriteProofs` | `WriteIsWhole`, `FlagIsRestored`, `NoByteIsLost`, `AllIsSent` | fewer contexts than counter values; fewer CPUs than bytes in the FIFO |
| `BootProofs` | `InterruptsFindTheirHandlers`, `TimerPeriodIsCalibrated`, `NoThreadWithoutPerCPU`, `MessageIsNotShownEarly`, `KernelUsesScheduler`, `KernelKeepsItsThreads` | the units and periods of the timer are positive and the target is at most a second (`BootAssumption`, `PeriodsAssumption`); the two workers, the idle and the bootstrap thread differ (`ThreadsDiffer`) |

Three of these say that one module implements another: `AllocatorImplementsPageHeap`
(every call is a step of the abstract heap), `PagingRespectsAllocator` and
`LinesAreRequests` with `KernelUsesScheduler` (the larger module uses the smaller
one only in steps that the smaller one has, so its theorems carry over;
`KernelKeepsItsThreads` is that for the scheduler).

The inductive invariants, and why the properties alone do not suffice:

- **Allocator** (`IInv`).  `NoSharedPage` needs `BitmapExact` (a page that is held is
  marked), which on release needs that what is held was free at boot (`HeldWasFree`), and
  that a block is inside the bitmap or entirely past it (`WellPlaced`): `SetBitRange`
  refuses a range that is partly outside, and would leave the pages of such a block
  unmarked.  `TopPageReserved` is what makes `WellPlaced` inductive.
  `OnlyReportedMemoryIsFree` follows from `BitmapExact` and the rounding of
  `ParseMemoryInfo`, `NoPageIsLost` from it, from that rounding in the other direction and
  by counting; `NullOnlyWhenNoRunIsFree` is about what a step returns and is carried
  beside `IInv`.
- **Page tables** (`PInv`).  `MapIsIdentity` is a statement about reads through three
  tables.  The invariant says how far each loop has come: the pages of the tables are
  held by clients of their own and are different, each directory that was entered is
  full and right (`HasDirectory`), the null `pdpt` occurs only when no page is left
  (`TablesBuilt`).  What other callers write to their own pages reaches none of these,
  by `NoSharedPage`.  For the headers of `operator new` it also says that the tables took
  the lowest pages, in their order (`TablesFirst`): a block that is handed out later lies
  behind all of them, and the page before it is none of them but the last
  (`BlocksFollowTables`).
- **Search.**  After `i` bits, the last `run` are clear, the one before is set, and no
  run of the length ends earlier (`ScanInv`).
- **Writes to the bitmap** (`WriteInv`).  After `i` iterations of `SetBitRange`, `i` bits
  from the first on have the new value and all others the old one (`Wrote`);
  `AllocatePage()` has passed set bits only.  That one iteration changes one bit
  (`SetBitSetsOneBit`, `PutSetsOneBit`) is arithmetic: the bits above, at and below the
  one written are quotients by powers of two, of which one divides the other.
- **MADT** (`ParseInv`).  `TheFirstAreKept` is inductive with the types.  Of an
  entry that is read, either it fits and there is room, and it becomes the next of the
  first ones (`OneMore`), or those stay what they were (`StaysFirst`).
- **Run queue.**  `ListIsFifo` is inductive with the types; the proof goes through
  `Spells`, the same over the entries of the sequence.
- **Reference counts** (`RefInv`).  The count of each object is the number of pointers and
  plain references that hold it.  Every operation moves at most one
  holder, and the proof is about what that does to the cardinality of the set of holders.
- **Scheduler.**  `LostOnlyWhenAlone` needs which states the current and the queued
  threads have in each phase, and that one who is `Ready` while running is alone.
- **Context switch** (`SwitchInv`).  Half way through a switch a context is partly on a
  stack and partly in the registers.  `Leaving(k)` and `Resuming(k)` say for each
  instruction which registers are where (`OnStack(k)`); `Whole(t)` says of every
  other thread that its stack holds all of them.  An interrupt writes below the stack
  pointer only, where nothing of this is.
- **Ticket lock.**  Everything is stated in distances on the ring of counter values.
  Tickets in line are distinct and between `Owner` and `Next`, and the `Owner` that a
  `TryLock` has read is not overtaken by `Next` (`Reads`).  The last part rests on the
  bound `NoFullWrap`: the compare-exchange of a `TryLock` cannot tell a `Next` that has
  not moved from one that has gone through all 2^32 values meanwhile, so the model,
  and with it the theorems, exclude that many acquisitions during one `TryLock`.
- **Interrupts.**  There is at most one frame, and what is in service is its vector.
- **Serial port.**  The invariant has that of the lock in it, instantiated with the
  contexts as its CPUs: the steps of `TakeLock` and `ReleaseLock` are steps of the lock, so
  exclusion need not be proved again.  For `StringsNeverMix` it adds that who sends holds
  the lock (`HoldInv`), that calls have different numbers (`CallInv`) and that from the
  first byte of a call under way on there are only its bytes and those of `PutChar`
  (`WireInv`).  `FlagInv` says which context runs and what it has saved.  `PollInv` counts
  who has found the port empty: only threads in `PutChar` and the holder of the lock
  can, so the bytes that may still come fit into the FIFO.  `SpellInv` says how far each
  call has come in its string (`UpTo`): `StringsAreSentWhole` follows, and is kept because
  `PollInv` leaves room for each byte and `CallInv` keeps the bytes of the calls apart.
  The wire records for each byte, as auxiliary state, its call and its place in the
  string, so that the property needs no recursion over the wire.
- **Console.**  Everything drawn is before the cursor, whose line is on the screen.
- **Boot** (`BootInv`).  What main has done by the time of each call (`Progress`), how the
  count of the timer came about (`Timer`: the two roundings cost less than two counts),
  and what memory is left (`Memory`: without a page for the per-CPU data there is
  none when the threads are made).  `SleepInv` relates the ticks a worker
  waits for to those that have passed.

Facts about finite sets and cardinalities are in the lemmas of three modules as a
hypothesis, `FiniteSetFacts`, and proved from the library's theorems at the end of the
module (`FiniteSetFactsHold`); no theorem has it as an assumption.  The same goes for
`PowersOfTwo`, 2^(k + n) = 2^k * 2^n: it is proved without induction, by counting the
subsets of k and of n things (`PowersOfTwoHold`).

Only model-checked, and why:

- `LiveWorkersKeepRunning`, `NoStarvation`, `WritesReturn`, `RequestsAreServed`,
  `BootEnds`, `ShownWhileMemoryLasts`, `ParseEnds`: liveness under fairness is out of the
  prover's reach.

Every safety property of the passing runs is a theorem as well.  Only proved: `RunQueue`,
which has no run of its own, and `TicketsAreNeverLost`.

## Not modelled

- **Third-party C++ library** (`src/ThirdParty`).  The kernel is less than 6000 lines; the
  copy of the GNU C++ library beside it is more than 700000, of which the kernel
  includes four headers (integer types, limits, `new`).  It is not part of
  this system, and the mapped lines, about two in five of the kernel's own, are
  therefore a very small share of everything under `src/`.
- **ACPI manager and timers.**  `main` makes a manager and calls none of its operations;
  they read tables and byte code of the firmware, and only they use the timers.
- **`FindTable`** reads firmware memory: a free choice in `MADT`.
- **PIC, PIT, GDT and TSS, port I/O**: straight register writes; their effects on
  other parts are in `Boot`, `Interrupts` and `Scheduler`.
- **Random device and UUID**: not used by the kernel, and about randomness.
- **Strings, byte copying, C++ runtime, wording of the reports, pixels**: no state that
  a property here depends on.
- **Weak memory**: see `TicketLock`.  `RefPtr` is checked on one CPU, which is what the
  kernel runs on.
