--------------------------------- MODULE Boot ---------------------------------
(***************************************************************************)
(* main of KernelMain.cpp, from the CPU as the firmware leaves it to the   *)
(* threads of module Workers: in which order the CPU, the memory, the      *)
(* consoles, the local APIC, its timer and the handlers are set up, what   *)
(* takes a page, what panics and what does not, and what an interrupt or   *)
(* an exception finds on its way.  What each part does in detail is left   *)
(* to its own module: Paging for InitMemory, MADT for ParseMADT,           *)
(* Interrupts for Dispatch, SerialWrite and Console for the devices.       *)
(***************************************************************************)
EXTENDS Workers

CONSTANTS
  FreePages,               \* how many pages InitMemory may leave
  Samples,                 \* the counts of the timer that may pass during the sample
  startCount,              \* 0x7FFFFFFF in the code
  MS, US,                  \* 1000 and 1000000 in the code
  SAMPLE_MS, TARGET_US,    \* 200 and 1000 in the code
  FALLBACK_INITIAL_COUNT,  \* 62500 in the code
  MaxCount,                \* 0xFFFFFFFF in the code
  MaxShown                 \* bound: the messages that ShownWhileMemoryLasts follows

ASSUME BootAssumption ==
  /\ FreePages \subseteq Nat /\ MaxShown \in Nat
  /\ startCount \in Nat /\ Samples \subseteq 0 .. startCount
  /\ \A n \in {MS, US, SAMPLE_MS, TARGET_US, FALLBACK_INITIAL_COUNT, MaxCount} : n \in Nat \ {0}
  /\ TARGET_US <= US

VARIABLES
  main,        \* the call that main makes next, or how it stopped
  flag,        \* RFLAGS.IF
  gates,       \* whether the IDT is the kernel's
  gs,          \* GS base: "firmware", "page" or "null"
  pic,         \* legacy PIC: "firmware" or "masked"
  lapic,       \* the timer registers of the local APIC, and gLAPICMMIO
  irr,         \* the vectors it has requested
  gHandlers,   \* what is registered: "timer", "exceptions"
  gEOI,
  consoles,    \* the devices that show something: "screen", "serial"
  initial,     \* main's local variable
  sample       \* history: the counts of the calibration

cpuVars == <<flag, gates, gs>>
deviceVars == <<pic, lapic, irr>>
kernelVars == <<gHandlers, gEOI, consoles, initial>>
vars == <<threadVars, pages, main, cpuVars, deviceVars, kernelVars, sample>>

Stops == {"halted", "stuck", "recursing", "refault", "firmware"}

Stopped == main \in Stops \/ phase = "crash"

(* _start has disabled interrupts.  The firmware may have left a timer on,   *)
(* and interrupts pending.                                                   *)
Init ==
  /\ NoThreads /\ pages = 0
  /\ main = "main" /\ flag = FALSE /\ gates = FALSE /\ gs = "firmware" /\ pic = "firmware"
  /\ \E present, masked \in BOOLEAN :
       /\ lapic = [present |-> present, mmio |-> FALSE, vector |-> "firmware",
                   masked |-> masked, periodic |-> TRUE, init |-> 1]
       /\ irr \in IF present THEN {{}, {"firmware"}} ELSE {{}}
  /\ gHandlers = {} /\ gEOI = "null" /\ consoles = {} /\ initial = 0
  /\ sample = 0

Step(call, next) == main = call /\ main' = next

(* operator new takes a page, or panics. *)
New(next) ==
  \/ pages > 0 /\ pages' = pages - 1 /\ main' = next
  \/ pages = 0 /\ UNCHANGED pages /\ main' = "panic"

DisableLegacyPIC == pic' = "masked"

(* StartCriticalSection and DisableLegacyPIC *)
Begin ==
  /\ Step("main", "InitCPU")
  /\ flag' = FALSE
  /\ DisableLegacyPIC
  /\ UNCHANGED <<threadVars, pages, gates, gs, lapic, irr, kernelVars, sample>>

InitCPU ==
  /\ Step("InitCPU", "InitMemory")
  /\ gates' = TRUE
  /\ UNCHANGED <<threadVars, pages, flag, gs, deviceVars, kernelVars, sample>>

(* Module Paging: it panics when the map cannot be built. *)
InitMemory ==
  /\ main = "InitMemory"
  /\ main' \in {"InitKernelConsole", "panic"}
  /\ pages' \in FreePages
  /\ UNCHANGED <<threadVars, cpuVars, deviceVars, kernelVars, sample>>

InitKernelConsole ==
  /\ main = "InitKernelConsole" /\ New("InitSerialConsole")
  /\ consoles' = IF pages > 0 THEN consoles \cup {"screen"} ELSE consoles
  /\ UNCHANGED <<threadVars, cpuVars, deviceVars, gHandlers, gEOI, initial, sample>>

(* A page for the console and one for its port.  A port that is not found is *)
(* written to in vain.                                                       *)
InitSerialConsole ==
  /\ main = "InitSerialConsole"
  /\ \/ /\ pages >= 2 /\ pages' = pages - 2
        /\ main' = "GetBootstrapConsole"
        /\ consoles' \in {consoles, consoles \cup {"serial"}}
     \/ /\ pages < 2 /\ pages' = 0
        /\ main' = "panic"
        /\ UNCHANGED consoles
  /\ UNCHANGED <<threadVars, cpuVars, deviceVars, gHandlers, gEOI, initial, sample>>

MainConsole ==
  /\ main = "GetBootstrapConsole" /\ New("APICController")
  /\ UNCHANGED <<threadVars, cpuVars, deviceVars, kernelVars, sample>>

(* InitAPIC returns false without a local APIC, and nobody asks.  Enable and *)
(* InitEarly leave the timer masked.                                         *)
APICController ==
  /\ Step("APICController", "InitInterruptDispatch")
  /\ \/ /\ lapic.present
        /\ lapic' = [lapic EXCEPT !.mmio = TRUE, !.vector = "0xF0", !.masked = TRUE,
                                  !.periodic = FALSE]
        /\ DisableLegacyPIC
     \/ ~lapic.present /\ UNCHANGED <<lapic, pic>>
  /\ gEOI' = "EndOfInterrupt"
  /\ UNCHANGED <<threadVars, pages, cpuVars, irr, gHandlers, consoles, initial, sample>>

InitInterruptDispatch ==
  /\ Step("InitInterruptDispatch", "InitCoreExceptionHandlers")
  /\ gHandlers' = {} /\ gEOI' = "null"
  /\ UNCHANGED <<threadVars, pages, cpuVars, deviceVars, consoles, initial, sample>>

InitCoreExceptionHandlers ==
  /\ Step("InitCoreExceptionHandlers", "ParseMADT")
  /\ gHandlers' = gHandlers \cup {"exceptions"}
  /\ UNCHANGED <<threadVars, pages, cpuVars, deviceVars, gEOI, consoles, initial, sample>>

ParseMADT ==
  /\ main = "ParseMADT" /\ main' \in {"IOAPIC", "panic"}
  /\ UNCHANGED <<threadVars, pages, cpuVars, deviceVars, kernelVars, sample>>

(* The array of the I/O APICs: none, or as many as fit in a page.  Whether   *)
(* AllocatePage returned one is not tested; without one the array is written *)
(* in page 0, which nobody is given (PageHeap).                              *)
InitIOAPICs ==
  /\ Step("IOAPIC", "InitPerCPU")
  /\ \/ UNCHANGED pages
     \/ pages > 0 /\ pages' = pages - 1
  /\ UNCHANGED <<threadVars, cpuVars, deviceVars, kernelVars, sample>>

(* Nor is it tested here, and GS base is null. *)
InitPerCPU ==
  /\ Step("InitPerCPU", "Calibrate")
  /\ \/ pages > 0 /\ pages' = pages - 1 /\ gs' = "page"
     \/ pages = 0 /\ UNCHANGED pages /\ gs' = "null"
  /\ UNCHANGED <<threadVars, flag, gates, deviceVars, kernelVars, sample>>

\* Wrong form: counts per second are rounded to counts per microsecond.
InitialCountTruncated(deltaApic) ==
  LET countsPerSec == (deltaApic * MS) \div SAMPLE_MS
      initial64    == (countsPerSec \div US) * TARGET_US
  IN  IF deltaApic = 0 THEN FALLBACK_INITIAL_COUNT
      ELSE IF initial64 = 0 THEN 1 ELSE IF initial64 > MaxCount THEN MaxCount ELSE initial64

(* The count whose period is TARGET_US when deltaApic counts take SAMPLE_MS. *)
InitialCount(deltaApic) ==
  LET countsPerSec == (deltaApic * MS) \div SAMPLE_MS
      initial64    == (countsPerSec * TARGET_US) \div US
  IN  IF deltaApic = 0 THEN FALLBACK_INITIAL_COUNT
      ELSE IF initial64 = 0 THEN 1 ELSE IF initial64 > MaxCount THEN MaxCount ELSE initial64

(* CalibrateTimerInitialCountTSC: without a local APIC or a TSC frequency    *)
(* the fallback, else the timer counts down once, masked, for the sample.    *)
Calibrate ==
  /\ Step("Calibrate", "InitTimerHandler")
  /\ \/ /\ initial' = FALLBACK_INITIAL_COUNT
        /\ UNCHANGED <<lapic, sample>>
     \/ /\ lapic.mmio
        /\ lapic' = [lapic EXCEPT !.vector = "timer", !.masked = TRUE, !.periodic = FALSE,
                                  !.init = startCount]
        /\ sample' \in Samples
        /\ initial' = InitialCount(sample')
  /\ UNCHANGED <<threadVars, pages, cpuVars, pic, irr, gHandlers, gEOI, consoles>>

\* Wrong form: the vector that InitEarly gave the timer is registered.
InitTimerHandlerF0 ==
  /\ Step("InitTimerHandler", "ConfigureTimer")
  /\ gHandlers' = gHandlers \cup {"0xF0"}
  /\ UNCHANGED <<threadVars, pages, cpuVars, deviceVars, gEOI, consoles, initial, sample>>

InitTimerHandler ==
  /\ Step("InitTimerHandler", "ConfigureTimer")
  /\ gHandlers' = gHandlers \cup {"timer"}
  /\ UNCHANGED <<threadVars, pages, cpuVars, deviceVars, gEOI, consoles, initial, sample>>

(* Without a local APIC the registers are written in page 0. *)
ConfigureTimer ==
  /\ Step("ConfigureTimer", "PutString")
  /\ \/ /\ lapic.mmio
        /\ lapic' = [lapic EXCEPT !.vector = "timer", !.masked = FALSE, !.periodic = TRUE,
                                  !.init = initial]
     \/ /\ ~lapic.mmio
        /\ UNCHANGED lapic
  /\ UNCHANGED <<threadVars, pages, cpuVars, pic, irr, kernelVars, sample>>

(* What main prints; the clock and the ACPI manager that it sets up on the   *)
(* way are not used.                                                         *)
Report ==
  /\ Step("PutString", "EndCriticalSection")
  /\ UNCHANGED <<threadVars, pages, cpuVars, deviceVars, kernelVars, sample>>

EndCriticalSection ==
  /\ Step("EndCriticalSection", "threads")
  /\ flag' = TRUE
  /\ UNCHANGED <<threadVars, pages, gates, gs, deviceVars, kernelVars, sample>>

Threads ==
  /\ main = "threads" /\ ~Stopped /\ ~Panicking
  /\ KernelStartThreads \/ ThreadStep
  /\ UNCHANGED <<main, cpuVars, deviceVars, kernelVars, sample>>

(* A console for the report takes a page; PutString goes to the serial port  *)
(* first, and waits there for a lock that the CPU itself holds.              *)
Stop(held) ==
  \/ /\ pages = 0
     /\ main' = "recursing"
     /\ UNCHANGED pages
  \/ /\ pages > 0
     /\ main' = IF held THEN "stuck" ELSE "halted"
     /\ pages' = pages - 1

(* PanicEx, and for want of a page again and again. *)
PanicEx ==
  /\ main = "panic" \/ (main = "threads" /\ Panicking)
  /\ flag' = FALSE
  /\ Stop(FALSE)
  /\ UNCHANGED <<threadVars, gates, gs, deviceVars, kernelVars, sample>>

(* Whether the current code may be in Serial16550::Write. *)
Printing ==
  /\ "serial" \in consoles
  /\ \/ main = "PutString"
     \/ main = "threads" /\ (At(A, "print") \/ (At(B, "loop") /\ due <= 0))

(* gHandlers of an exception; #UD, #DF, #GP and #PF have one. *)
CoreHandler(kind) == kind = "core" /\ "exceptions" \in gHandlers

(* An exception.  Dispatch returns to the instruction when it has no handler, *)
(* and before InitCPU it is the firmware's.                                   *)
Exception ==
  /\ ~Stopped /\ ~Panicking /\ main # "panic"
  /\ \E kind \in {"core", "other"}, held \in {FALSE, Printing} :
       \/ ~gates /\ main' = "firmware" /\ UNCHANGED <<pages, flag>>
       \/ gates /\ ~CoreHandler(kind) /\ main' = "refault" /\ UNCHANGED <<pages, flag>>
       \/ gates /\ CoreHandler(kind) /\ flag' = FALSE /\ Stop(held)
  /\ UNCHANGED <<threadVars, gates, gs, deviceVars, kernelVars, sample>>

(* The timer of the local APIC requests its vector. *)
TimerFires ==
  /\ ~Stopped
  /\ lapic.present /\ ~lapic.masked /\ lapic.init > 0 /\ lapic.vector \notin irr
  /\ irr' = irr \cup {lapic.vector}
  /\ UNCHANGED <<threadVars, pages, main, cpuVars, pic, lapic, kernelVars, sample>>

TimerInterrupt ==
  /\ flag /\ ~Stopped /\ "timer" \in irr \cap gHandlers
  /\ Tick
  /\ irr' = irr \ {"timer"}
  /\ UNCHANGED <<main, cpuVars, pic, lapic, kernelVars, sample>>

(* Dispatch of a vector without a handler ends the interrupt and returns. *)
OtherInterrupt ==
  /\ flag /\ ~Stopped /\ ~Panicking
  /\ \E v \in irr \ gHandlers : irr' = irr \ {v}
  /\ UNCHANGED <<threadVars, pages, main, cpuVars, pic, lapic, kernelVars, sample>>

MainStep ==
  \/ Begin \/ InitCPU \/ InitMemory \/ InitKernelConsole \/ InitSerialConsole \/ MainConsole
  \/ APICController \/ InitInterruptDispatch \/ InitCoreExceptionHandlers \/ ParseMADT
  \/ InitIOAPICs \/ InitPerCPU \/ Calibrate \/ InitTimerHandler \/ ConfigureTimer \/ Report
  \/ EndCriticalSection \/ PanicEx

(* Halted, or in a loop that changes nothing. *)
Rest == Stopped /\ UNCHANGED vars

Next ==
  \/ MainStep \/ Threads \/ Exception \/ TimerFires \/ TimerInterrupt \/ OtherInterrupt \/ Rest

Spec == Init /\ [][Next]_vars

(* The CPU goes on with its code, the timer counts, and an interrupt that is *)
(* requested while they are enabled is delivered.                            *)
Fairness ==
  /\ WF_vars(MainStep) /\ WF_vars(Threads)
  /\ WF_vars(TimerFires) /\ WF_vars(TimerInterrupt) /\ WF_vars(OtherInterrupt)

FairSpec == Spec /\ Fairness
-------------------------------------------------------------------------------
(* Properties. *)

(* Interrupts are enabled only when all that they need is there: the gates   *)
(* are the kernel's, OnTimer finds its per-CPU data at GS, the timer requests *)
(* the vector that OnTimer is registered for, and no line of the legacy PIC,  *)
(* whose vectors are those of exceptions, can interrupt.                      *)
ReadyWhenInterruptible ==
  flag =>
    /\ gates /\ gs # "firmware" /\ pic = "masked"
    /\ lapic.present => lapic.vector \in gHandlers

(* The period of the timer is the one asked for: never longer, but for a     *)
(* count of 1, and short by less than two counts, but for the largest count. *)
(* Without a measurement it is the fallback.  The timer is never programmed  *)
(* with 0, which would stop it.                                              *)
CalibratedPeriod ==
  lapic.vector = "timer" /\ ~lapic.masked =>
    IF sample = 0 THEN lapic.init = FALLBACK_INITIAL_COUNT
    ELSE /\ lapic.init > 0
         /\ lapic.init # 1 => lapic.init * US * SAMPLE_MS <= sample * MS * TARGET_US
         /\ lapic.init # MaxCount =>
              sample * MS * TARGET_US < (lapic.init + 2) * US * SAMPLE_MS

(* The scheduler keeps CurrentThread in the per-CPU data, for which          *)
(* InitPerCPU may have got no page without noticing.  It never runs on such  *)
(* a record at address 0: without memory for the record there is none for    *)
(* the bootstrap thread either, and the boot ends in Sched::Init.            *)
ThreadsHavePerCPU == CurrentThread # NULL => gs = "page"

(* The boot comes to an end for every memory, table and clock: A shows its   *)
(* first message, or the kernel has stopped, or A could not be created.      *)
BootEnds == <>(shown > 0 \/ Stopped \/ (phase = "run" /\ State[A] = "Init"))

(* With a local APIC and both workers created, A's message is shown again    *)
(* and again as long as there is memory, as KernelMain.cpp:91 says that it   *)
(* must be.  (A worker that is left alone is lost: LostOnlyWhenAlone.)       *)
ShownWhileMemoryLasts ==
  \A n \in 0 .. MaxShown :
    (/\ phase = "run" /\ shown = n /\ lapic.present
     /\ \A w \in {A, B} : State[w] # "Init")
      ~> (shown > n \/ pages = 0 \/ Stopped)
===============================================================================
