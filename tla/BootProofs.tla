------------------------------ MODULE BootProofs ------------------------------
(***************************************************************************)
(* Proofs about module Boot: what is set up when interrupts are enabled,   *)
(* the period of the timer, the per-CPU data of the threads, the rate of   *)
(* A's message, and what the scheduler's proofs say of the booted kernel.  *)
(***************************************************************************)
EXTENDS Boot, TLAPS

(* The calls of main, by what has been done before they are made. *)
Early        == {"main", "InitCPU"}
Unhandled    == {"InitMemory", "InitKernelConsole", "InitSerialConsole", "GetBootstrapConsole",
                 "APICController", "InitInterruptDispatch", "InitCoreExceptionHandlers"}
Configured   == {"PutString", "EndCriticalSection", "threads"}
Registered   == Configured \cup {"ConfigureTimer"}
Calibrated   == Registered \cup {"InitTimerHandler"}
HasPerCPU    == Calibrated \cup {"Calibrate"}
Handled      == HasPerCPU \cup {"ParseMADT", "IOAPIC", "InitPerCPU"}
HasAPIC      == Handled \cup {"InitInterruptDispatch", "InitCoreExceptionHandlers"}
Calls        == Early \cup Unhandled \cup Handled

Lapic == [present : BOOLEAN, mmio : BOOLEAN, vector : {"firmware", "0xF0", "timer"},
          masked : BOOLEAN, periodic : BOOLEAN, init : Nat]

(* What CalibratedPeriod says of a count. *)
PeriodOf(count, counts) ==
  IF counts = 0 THEN count = FALLBACK_INITIAL_COUNT
  ELSE /\ count > 0
       /\ count # 1 => count * US * SAMPLE_MS <= counts * MS * TARGET_US
       /\ count # MaxCount => counts * MS * TARGET_US < (count + 2) * US * SAMPLE_MS

(* What main has done by the time of each call, while it has not stopped. *)
Progress ==
  /\ main \in Calls \cup {"panic"} \cup Stops
  /\ main \in Calls \ {"main"} => pic = "masked"
  /\ main \in Early => ~gates
  /\ main \in Unhandled \cup Handled => gates
  /\ main \in Handled => "exceptions" \in gHandlers
  /\ main \in Calls \ HasAPIC => ~lapic.mmio
  /\ main \in HasAPIC => (lapic.mmio <=> lapic.present)
  /\ main \in HasPerCPU => gs # "firmware"
  /\ main \in Calls \ HasPerCPU => gs = "firmware"
  /\ main \in Registered => "timer" \in gHandlers
  /\ main \in Configured => (lapic.present => lapic.vector = "timer")
  /\ flag => main \in {"threads"} \cup Stops

(* The timer counts with a period that was calibrated before. *)
Timer ==
  /\ lapic \in Lapic /\ sample \in Nat /\ initial \in Nat
  /\ main \in Calls \ Calibrated => sample = 0 /\ lapic.vector # "timer"
  /\ main \in {"InitTimerHandler", "ConfigureTimer"} =>
       /\ PeriodOf(initial, sample)
       /\ lapic.vector = "timer" => lapic.masked
  /\ CalibratedPeriod

(* Without a page for the per-CPU data there is none for a thread. *)
Memory ==
  /\ pages \in Nat
  /\ main \in HasPerCPU => gs = "page" \/ pages = 0
  /\ gs = "page" \/ (phase \in {"boot", "panic"} /\ CurrentThread = NULL)

BootInv == Progress /\ Timer /\ Memory /\ ReadyWhenInterruptible
-------------------------------------------------------------------------------
USE DEF Calls, Early, Unhandled, Handled, HasAPIC, HasPerCPU, Calibrated, Registered, Configured, Stops,
        cpuVars, deviceVars, kernelVars, threadVars, schedVars

(* The calls of main up to the threads: each leaves what the earlier ones    *)
(* have done, and adds its own part.                                         *)
LEMMA InitBootInv == Init => BootInv
BY BootAssumption DEF Init, NoThreads, S!Reset, BootInv, Progress, Timer, Memory, Lapic, CalibratedPeriod,
   ReadyWhenInterruptible

LEMMA BeginStep ==
  ASSUME BootInv, Begin
  PROVE  BootInv'
BY BootAssumption DEF BootInv, Begin, Step, DisableLegacyPIC, Progress, Timer, Lapic, CalibratedPeriod, PeriodOf, Memory, ReadyWhenInterruptible

LEMMA InitCPUStep ==
  ASSUME BootInv, InitCPU
  PROVE  BootInv'
BY BootAssumption DEF BootInv, InitCPU, Step, Progress, Timer, Lapic, CalibratedPeriod, PeriodOf, Memory, ReadyWhenInterruptible

LEMMA InitMemoryStep ==
  ASSUME BootInv, InitMemory
  PROVE  BootInv'
BY BootAssumption DEF BootInv, InitMemory, Progress, Timer, Lapic, CalibratedPeriod, PeriodOf, Memory, ReadyWhenInterruptible

LEMMA InitKernelConsoleStep ==
  ASSUME BootInv, InitKernelConsole
  PROVE  BootInv'
BY BootAssumption DEF BootInv, InitKernelConsole, New, Progress, Timer, Lapic, CalibratedPeriod, PeriodOf, Memory, ReadyWhenInterruptible

LEMMA InitSerialConsoleStep ==
  ASSUME BootInv, InitSerialConsole
  PROVE  BootInv'
BY BootAssumption DEF BootInv, InitSerialConsole, Progress, Timer, Lapic, CalibratedPeriod, PeriodOf, Memory, ReadyWhenInterruptible

LEMMA MainConsoleStep ==
  ASSUME BootInv, MainConsole
  PROVE  BootInv'
BY BootAssumption DEF BootInv, MainConsole, New, Progress, Timer, Lapic, CalibratedPeriod, PeriodOf, Memory, ReadyWhenInterruptible

LEMMA APICControllerStep ==
  ASSUME BootInv, APICController
  PROVE  BootInv'
<1> USE DEF APICController, Step, DisableLegacyPIC
<1>0. /\ lapic' \in Lapic /\ lapic'.present = lapic.present /\ lapic'.vector # "timer"
      /\ lapic'.mmio = lapic'.present /\ lapic \in Lapic /\ sample = 0
  <2>1. lapic \in Lapic /\ sample = 0 /\ lapic.vector # "timer" /\ lapic.mmio = FALSE
    <3>1. lapic \in Lapic /\ sample = 0 /\ lapic.vector # "timer" /\ ~lapic.mmio
      BY DEF BootInv, Progress, Timer
    <3> QED  BY <3>1 DEF Lapic
  <2>2. CASE lapic.present = TRUE
    <3>1. lapic' = [lapic EXCEPT !.mmio = TRUE, !.vector = "0xF0", !.masked = TRUE,
                                 !.periodic = FALSE]
      BY <2>2
    <3> QED  BY Zenon, <2>1, <2>2, <3>1 DEF Lapic
  <2>3. CASE lapic.present = FALSE
    BY Zenon, <2>1, <2>3
  <2> QED  BY Zenon, <2>1, <2>2, <2>3 DEF Lapic
<1>1. Progress'
  BY <1>0 DEF BootInv, Progress
<1>2. Timer'
  BY <1>0 DEF BootInv, Timer, CalibratedPeriod
<1>3. Memory'
  BY BootAssumption DEF BootInv, Progress, Memory
<1>4. ReadyWhenInterruptible'
  BY DEF BootInv, Progress, ReadyWhenInterruptible
<1> QED  BY <1>1, <1>2, <1>3, <1>4 DEF BootInv

LEMMA InitInterruptDispatchStep ==
  ASSUME BootInv, InitInterruptDispatch
  PROVE  BootInv'
BY BootAssumption DEF BootInv, InitInterruptDispatch, Step, Progress, Timer, Lapic, CalibratedPeriod, PeriodOf, Memory, ReadyWhenInterruptible

LEMMA InitCoreExceptionHandlersStep ==
  ASSUME BootInv, InitCoreExceptionHandlers
  PROVE  BootInv'
BY BootAssumption DEF BootInv, InitCoreExceptionHandlers, Step, Progress, Timer, Lapic, CalibratedPeriod, PeriodOf, Memory, ReadyWhenInterruptible

LEMMA ParseMADTStep ==
  ASSUME BootInv, ParseMADT
  PROVE  BootInv'
BY BootAssumption DEF BootInv, ParseMADT, Progress, Timer, Lapic, CalibratedPeriod, PeriodOf, Memory, ReadyWhenInterruptible

LEMMA InitIOAPICsStep ==
  ASSUME BootInv, InitIOAPICs
  PROVE  BootInv'
BY BootAssumption DEF BootInv, InitIOAPICs, Step, Progress, Timer, Lapic, CalibratedPeriod, PeriodOf, Memory, ReadyWhenInterruptible

LEMMA InitPerCPUStep ==
  ASSUME BootInv, InitPerCPU
  PROVE  BootInv'
BY BootAssumption DEF BootInv, InitPerCPU, Step, Progress, Timer, Lapic, CalibratedPeriod, PeriodOf, Memory, ReadyWhenInterruptible

LEMMA InitTimerHandlerStep ==
  ASSUME BootInv, InitTimerHandler
  PROVE  BootInv'
BY BootAssumption DEF BootInv, InitTimerHandler, Step, Progress, Timer, Lapic, CalibratedPeriod, PeriodOf, Memory, ReadyWhenInterruptible

LEMMA ReportStep ==
  ASSUME BootInv, Report
  PROVE  BootInv'
BY BootAssumption DEF BootInv, Report, Step, Progress, Timer, Lapic, CalibratedPeriod, PeriodOf, Memory, ReadyWhenInterruptible

LEMMA EndCriticalSectionStep ==
  ASSUME BootInv, EndCriticalSection
  PROVE  BootInv'
BY BootAssumption DEF BootInv, EndCriticalSection, Step, Progress, Timer, Lapic, CalibratedPeriod, PeriodOf, Memory, ReadyWhenInterruptible
-------------------------------------------------------------------------------
(* The calibration. *)

(* Rounding down twice: counts per second, then counts per period. *)
LEMMA RoundedDown ==
  ASSUME NEW x \in Nat, NEW n \in Nat \ {0}
  PROVE  /\ x \div n \in Nat
         /\ (x \div n) * n <= x
         /\ x < (x \div n) * n + n
OBVIOUS

LEMMA TimesMonotone ==
  ASSUME NEW x \in Nat, NEW y \in Nat, NEW n \in Nat, x <= y
  PROVE  x * n <= y * n
OBVIOUS

LEMMA InitialCountPeriod ==
  ASSUME NEW d \in Nat
  PROVE  InitialCount(d) \in Nat /\ PeriodOf(InitialCount(d), d)
<1>1. /\ MS \in Nat \ {0} /\ US \in Nat \ {0} /\ SAMPLE_MS \in Nat \ {0} /\ TARGET_US \in Nat \ {0}
      /\ FALLBACK_INITIAL_COUNT \in Nat \ {0} /\ MaxCount \in Nat \ {0} /\ TARGET_US <= US
  BY Zenon, BootAssumption
<1> DEFINE perSec == (d * MS) \div SAMPLE_MS
           count  == (perSec * TARGET_US) \div US
<1>2. /\ perSec \in Nat /\ perSec * SAMPLE_MS <= d * MS
      /\ d * MS < perSec * SAMPLE_MS + SAMPLE_MS
  <2>1. d * MS \in Nat
    BY <1>1
  <2> QED  BY <1>1, <2>1, RoundedDown
<1> HIDE DEF perSec
<1>3. /\ count \in Nat /\ count * US <= perSec * TARGET_US
      /\ perSec * TARGET_US < count * US + US
  <2>1. perSec * TARGET_US \in Nat
    BY <1>1, <1>2
  <2> QED  BY <1>1, <2>1, RoundedDown
<1> HIDE DEF count
<1>4. count * US * SAMPLE_MS <= d * MS * TARGET_US
  <2>1. (count * US) * SAMPLE_MS <= (perSec * TARGET_US) * SAMPLE_MS
    BY <1>1, <1>2, <1>3, TimesMonotone
  <2>2. (perSec * TARGET_US) * SAMPLE_MS = (perSec * SAMPLE_MS) * TARGET_US
    BY <1>1, <1>2
  <2>3. (perSec * SAMPLE_MS) * TARGET_US <= (d * MS) * TARGET_US
    BY <1>1, <1>2, TimesMonotone
  <2> QED  BY <1>1, <1>2, <1>3, <2>1, <2>2, <2>3
<1>5. d * MS * TARGET_US < (count + 2) * US * SAMPLE_MS
  <2>1. (d * MS) * TARGET_US <= (perSec * SAMPLE_MS + SAMPLE_MS) * TARGET_US
    BY <1>1, <1>2, TimesMonotone
  <2>2. (perSec * SAMPLE_MS + SAMPLE_MS) * TARGET_US =
          (perSec * TARGET_US) * SAMPLE_MS + TARGET_US * SAMPLE_MS
    BY <1>1, <1>2
  <2>3. (perSec * TARGET_US + 1) * SAMPLE_MS <= (count * US + US) * SAMPLE_MS
    BY <1>1, <1>2, <1>3, TimesMonotone
  <2>4. TARGET_US * SAMPLE_MS <= US * SAMPLE_MS
    BY <1>1, TimesMonotone
  <2>5. (count * US + US) * SAMPLE_MS + US * SAMPLE_MS = (count + 2) * US * SAMPLE_MS
    BY <1>1, <1>3
  <2>6. (perSec * TARGET_US + 1) * SAMPLE_MS = (perSec * TARGET_US) * SAMPLE_MS + SAMPLE_MS
    BY <1>1, <1>2
  <2> QED  BY <1>1, <1>2, <1>3, <2>1, <2>2, <2>3, <2>4, <2>5, <2>6
<1>6. InitialCount(d) = IF d = 0 THEN FALLBACK_INITIAL_COUNT
                        ELSE IF count = 0 THEN 1 ELSE IF count > MaxCount THEN MaxCount ELSE count
  BY DEF InitialCount, count, perSec
<1>7. CASE d = 0
  BY <1>1, <1>6, <1>7 DEF PeriodOf
<1>8. CASE d # 0 /\ count = 0
  BY <1>1, <1>5, <1>6, <1>8 DEF PeriodOf
<1>9. CASE d # 0 /\ count # 0 /\ count > MaxCount
  BY <1>1, <1>3, <1>4, <1>6, <1>9 DEF PeriodOf
<1>10. CASE d # 0 /\ count # 0 /\ ~(count > MaxCount)
  BY <1>1, <1>3, <1>4, <1>5, <1>6, <1>10 DEF PeriodOf
<1> QED  BY <1>7, <1>8, <1>9, <1>10

LEMMA CalibrateStep ==
  ASSUME BootInv, Calibrate
  PROVE  BootInv'
<1>1. /\ lapic \in Lapic /\ lapic.vector # "timer" /\ sample = 0
      /\ FALLBACK_INITIAL_COUNT \in Nat /\ startCount \in Nat /\ Samples \subseteq Nat
  BY BootAssumption DEF BootInv, Calibrate, Step, Timer
<1>2. /\ lapic' \in Lapic /\ lapic'.present = lapic.present /\ lapic'.mmio = lapic.mmio
      /\ lapic'.vector # "timer" \/ lapic'.masked = TRUE
  BY Zenon, <1>1 DEF Calibrate, Lapic
<1>3. sample' \in Nat /\ initial' \in Nat /\ PeriodOf(initial', sample')
  <2>1. CASE initial' = FALLBACK_INITIAL_COUNT /\ UNCHANGED sample
    BY <1>1, <2>1 DEF PeriodOf
  <2>2. CASE sample' \in Samples /\ initial' = InitialCount(sample')
    BY <1>1, <2>2, InitialCountPeriod
  <2> QED  BY <2>1, <2>2 DEF Calibrate
<1>4. Progress'
  BY <1>1, <1>2 DEF BootInv, Calibrate, Step, Progress
<1>5. Timer'
  BY <1>2, <1>3 DEF Calibrate, Step, Timer, CalibratedPeriod
<1>6. Memory'
  BY <1>2 DEF BootInv, Calibrate, Step, Memory
<1>7. ReadyWhenInterruptible'
  BY DEF BootInv, Calibrate, Step, Progress, ReadyWhenInterruptible
<1> QED  BY <1>4, <1>5, <1>6, <1>7 DEF BootInv

LEMMA ConfigureTimerStep ==
  ASSUME BootInv, ConfigureTimer
  PROVE  BootInv'
<1>1. lapic \in Lapic /\ initial \in Nat /\ sample \in Nat /\ PeriodOf(initial, sample)
  BY DEF BootInv, ConfigureTimer, Step, Timer
<1>2. lapic.mmio = lapic.present /\ (lapic.vector = "timer" => lapic.masked)
  BY <1>1 DEF BootInv, ConfigureTimer, Step, Progress, Timer, Lapic
<1>3. CASE lapic.present = TRUE
  <2>1. /\ lapic' = [lapic EXCEPT !.vector = "timer", !.masked = FALSE, !.periodic = TRUE,
                                   !.init = initial]
    BY <1>2, <1>3 DEF ConfigureTimer
  <2>2. /\ lapic' \in Lapic /\ lapic'.present = TRUE /\ lapic'.mmio = TRUE
        /\ lapic'.vector = "timer" /\ lapic'.init = initial
    BY Zenon, <1>1, <1>2, <1>3, <2>1 DEF Lapic
  <2>3. Timer'
    BY <1>1, <2>2 DEF ConfigureTimer, Step, Timer, CalibratedPeriod, PeriodOf
  <2>4. Progress' /\ Memory' /\ ReadyWhenInterruptible'
    BY <1>3, <2>1, <2>2 DEF BootInv, ConfigureTimer, Step, Progress, Memory,
       ReadyWhenInterruptible
  <2> QED  BY <2>3, <2>4 DEF BootInv
<1>4. CASE lapic.present = FALSE
  <2>1. lapic' = lapic
    BY <1>2, <1>4 DEF ConfigureTimer
  <2>2. Timer'
    BY <1>1, <2>1 DEF BootInv, ConfigureTimer, Step, Timer, CalibratedPeriod
  <2>3. Progress' /\ Memory' /\ ReadyWhenInterruptible'
    BY SMTT(20), <1>2, <1>4, <2>1 DEF BootInv, ConfigureTimer, Step, Progress, Memory,
       ReadyWhenInterruptible
  <2> QED  BY <2>2, <2>3 DEF BootInv
<1> QED  BY Zenon, <1>1, <1>3, <1>4 DEF Lapic
-------------------------------------------------------------------------------
(* After the boot, and on the way out of it. *)

LEMMA PanicExStep ==
  ASSUME BootInv, PanicEx
  PROVE  BootInv'
BY SMTT(20) DEF BootInv, PanicEx, Stop, Progress, Timer, CalibratedPeriod, Memory,
   ReadyWhenInterruptible

(* The memory that an exception finds goes to the console of its report. *)
LEMMA ExceptionStep ==
  ASSUME BootInv, Exception
  PROVE  BootInv'
BY DEF BootInv, Exception, Stopped, CoreHandler, Stop, Progress, Timer, CalibratedPeriod, Memory, ReadyWhenInterruptible

(* What the threads and the timer change of the state of the boot. *)
LEMMA ThreadsTakePages ==
  ASSUME pages \in Nat, KernelStartThreads \/ ThreadStep \/ Tick
  PROVE  pages' \in Nat /\ (pages = 0 => pages' = 0)
BY SMTT(20), PeriodsAssumption DEF KernelStartThreads, InitThreads, CreateKernel, ThreadStep, AConsole, APrint, ASleep,
   BConsole, BLoop, GetBootstrapConsole, Tick

(* Nobody becomes the current thread before there is a page for its Thread. *)
LEMMA ThreadsTakeMemory ==
  ASSUME pages \in Nat, KernelStartThreads \/ ThreadStep \/ Tick, ~Panicking,
         gs = "page" \/ pages = 0,
         gs = "page" \/ (phase \in {"boot", "panic"} /\ CurrentThread = NULL)
  PROVE  gs = "page" \/ (phase' \in {"boot", "panic"} /\ CurrentThread' = NULL)
<1> SUFFICES ASSUME pages = 0, phase = "boot", CurrentThread = NULL
             PROVE  phase' \in {"boot", "panic"} /\ CurrentThread' = NULL
  BY DEF Panicking
<1>1. CASE InitThreads
  BY <1>1, ThreadsDiffer DEF InitThreads, S!Init
<1>2. CASE Tick
  BY <1>2 DEF Tick, S!OnTimerTick
<1>3. ~ThreadStep /\ ~S!Start /\ \A w \in {A, B} : ~S!CreateAndEnqueue(w)
  BY DEF ThreadStep, AConsole, APrint, ASleep, BConsole, BLoop, At, S!Start, S!CreateAndEnqueue
<1> QED  BY <1>1, <1>2, <1>3 DEF KernelStartThreads

LEMMA QuietStep ==
  ASSUME BootInv, Threads \/ TimerFires \/ TimerInterrupt \/ OtherInterrupt
  PROVE  BootInv'
<1>1. /\ UNCHANGED <<main, cpuVars, pic, lapic, kernelVars, sample>>
      /\ main \notin Stops
  BY DEF Threads, TimerFires, TimerInterrupt, OtherInterrupt, Stopped
<1>2. pages' \in Nat /\ (pages = 0 => pages' = 0)
  <2>1. pages \in Nat
    BY DEF BootInv, Memory
  <2> QED  BY <2>1, ThreadsTakePages DEF Threads, TimerFires, TimerInterrupt, OtherInterrupt
<1>3. Memory'
  <2>1. CASE UNCHANGED threadVars
    BY <1>1, <1>2, <2>1 DEF BootInv, Memory
  <2>2. CASE Threads \/ TimerInterrupt
    <3>1. /\ main \in HasPerCPU /\ ~Panicking
          /\ KernelStartThreads \/ ThreadStep \/ Tick
      BY <2>2 DEF Threads, TimerInterrupt, Tick, BootInv, Progress, Stopped
    <3> QED  BY <1>1, <1>2, <3>1, ThreadsTakeMemory DEF BootInv, Memory
  <2> QED  BY <2>1, <2>2 DEF TimerFires, OtherInterrupt
<1> QED  BY <1>1, <1>2, <1>3 DEF BootInv, Progress, Timer, CalibratedPeriod, Memory,
            ReadyWhenInterruptible

LEMMA NextBootInv == BootInv /\ [Next]_vars => BootInv'
<1> SUFFICES ASSUME BootInv, [Next]_vars  PROVE BootInv'
  BY SMTT(20)
<1>1. CASE UNCHANGED vars
  <2>1. Progress'
    BY Zenon, <1>1 DEF vars, BootInv, Progress
  <2>2. Timer'
    BY Zenon, <1>1 DEF vars, BootInv, Timer, CalibratedPeriod
  <2>3. Memory' /\ ReadyWhenInterruptible'
    BY Zenon, <1>1 DEF vars, BootInv, Memory, ReadyWhenInterruptible
  <2> QED  BY <2>1, <2>2, <2>3 DEF BootInv
<1>2. CASE MainStep
  BY <1>2, BeginStep, InitCPUStep, InitMemoryStep, InitKernelConsoleStep, InitSerialConsoleStep,
     MainConsoleStep, APICControllerStep, InitInterruptDispatchStep, InitCoreExceptionHandlersStep,
     ParseMADTStep, InitIOAPICsStep, InitPerCPUStep, CalibrateStep, InitTimerHandlerStep,
     ConfigureTimerStep, ReportStep, EndCriticalSectionStep, PanicExStep DEF MainStep
<1>3. CASE Threads \/ TimerFires \/ TimerInterrupt \/ OtherInterrupt
  BY <1>3, QuietStep
<1>4. CASE Exception
  BY <1>4, ExceptionStep
<1> QED  BY <1>1, <1>2, <1>3, <1>4 DEF Next, Rest

LEMMA BootInvAlways == Spec => []BootInv
<1>1. Init => BootInv
  BY InitBootInv
<1>2. BootInv /\ [Next]_vars => BootInv'
  BY NextBootInv
<1> QED  BY <1>1, <1>2, PTL DEF Spec
-------------------------------------------------------------------------------
(* ReadyWhenInterruptible for every memory, clock and table: no path of main *)
(* reaches EndCriticalSection before the gates, GS, the PIC and the handler  *)
(* of the timer's vector are in place.                                       *)
THEOREM InterruptsFindTheirHandlers == Spec => []ReadyWhenInterruptible
<1>1. BootInv => ReadyWhenInterruptible
  BY DEF BootInv
<1> QED  BY <1>1, BootInvAlways, PTL

(* CalibratedPeriod for every frequency, target and width of the count: the  *)
(* two roundings of CalibrateTimerInitialCountTSC cost less than two counts. *)
THEOREM TimerPeriodIsCalibrated == Spec => []CalibratedPeriod
<1>1. BootInv => CalibratedPeriod
  BY DEF BootInv, Timer
<1> QED  BY <1>1, BootInvAlways, PTL

(* ThreadsHavePerCPU for every amount of memory: what InitPerCPU got from    *)
(* AllocatePage is used untested, but no thread is ever current on it when   *)
(* it is null, since pages are only taken between InitPerCPU and Sched::Init. *)
THEOREM NoThreadWithoutPerCPU == Spec => []ThreadsHavePerCPU
<1>1. BootInv => ThreadsHavePerCPU
  BY DEF BootInv, Memory, ThreadsHavePerCPU
<1> QED  BY <1>1, BootInvAlways, PTL
-------------------------------------------------------------------------------
(* The workers.  The ticks that A still sleeps and those since its last      *)
(* message make up its period.                                               *)
SleepInv ==
  /\ pc \in [{A, B} -> {"console", "print", "sleep", "loop", "panic"}]
  /\ sleep \in Nat /\ since \in Nat
  /\ since + sleep >= PeriodA
  /\ pc[A] # "sleep" => sleep = 0

LEMMA ThreadSleepInv ==
  ASSUME SleepInv, KernelStartThreads \/ ThreadStep \/ Tick
  PROVE  SleepInv'
<1>1. CASE KernelStartThreads
  BY <1>1 DEF KernelStartThreads, workVars, SleepInv
<1>2. CASE AConsole
  BY <1>2, PeriodsAssumption DEF AConsole, At, GetBootstrapConsole, Goto, SleepInv
<1>3. CASE APrint
  BY <1>3, PeriodsAssumption DEF APrint, Goto, SleepInv
<1>4. CASE ASleep
  BY <1>4, PeriodsAssumption DEF ASleep, Goto, SleepInv
<1>5. CASE BConsole
  BY <1>5, ThreadsDiffer DEF BConsole, GetBootstrapConsole, Goto, SleepInv
<1>6. CASE BLoop
  BY <1>6 DEF BLoop, SleepInv
<1>7. CASE Tick
  BY <1>7, PeriodsAssumption DEF Tick, SleepInv
<1> QED  BY <1>1, <1>2, <1>3, <1>4, <1>5, <1>6, <1>7 DEF ThreadStep

(* What a step of the kernel is to the threads. *)
LEMMA StepOfThreads ==
  ASSUME [Next]_vars
  PROVE  KernelStartThreads \/ ThreadStep \/ Tick \/ UNCHANGED threadVars
BY Zenon DEF Next, vars, MainStep, Begin, InitCPU, InitMemory, InitKernelConsole, InitSerialConsole,
   MainConsole, APICController, InitInterruptDispatch, InitCoreExceptionHandlers, ParseMADT,
   InitIOAPICs, InitPerCPU, Calibrate, InitTimerHandler, ConfigureTimer, Report,
   EndCriticalSection, PanicEx, Threads, Exception, TimerFires, TimerInterrupt, OtherInterrupt, Rest

(* NotMoreThanOncePerSecond for every period, whatever else is scheduled,    *)
(* interrupted or out of memory: SleepUntilTick does not return early.       *)
THEOREM MessageIsNotShownEarly == Spec => NotMoreThanOncePerSecond
<1>1. Init => SleepInv
  BY PeriodsAssumption DEF Init, NoThreads, SleepInv
<1>2. SleepInv /\ [Next]_vars => SleepInv'
  <2> SUFFICES ASSUME SleepInv, [Next]_vars  PROVE SleepInv'
    OBVIOUS
  <2>1. CASE UNCHANGED threadVars
    BY <2>1 DEF threadVars, workVars, SleepInv
  <2> QED  BY <2>1, StepOfThreads, ThreadSleepInv
<1>3. SleepInv /\ [Next]_vars => [shown' # shown => since >= PeriodA]_threadVars
  <2> SUFFICES ASSUME SleepInv, [Next]_vars, shown' # shown  PROVE since >= PeriodA
    BY SMTT(20)
  <2>1. APrint
    BY Zenon, StepOfThreads DEF KernelStartThreads, ThreadStep, AConsole, ASleep, BConsole, BLoop, Tick,
       threadVars, workVars
  <2> QED  BY <2>1, PeriodsAssumption DEF APrint, At, SleepInv
<1> QED  BY <1>1, <1>2, <1>3, PTL DEF Spec, NotMoreThanOncePerSecond

(* KernelMain.cpp uses the scheduler as module Scheduler lets it be used:    *)
(* every step of the booted kernel is one of Scheduler's, or leaves its      *)
(* state alone.  What SchedulerProofs shows of the scheduler holds of the    *)
(* threads of KernelStartThreads.                                            *)
THEOREM KernelUsesScheduler == Spec => S!Spec
<1>1. Init => S!Reset
  BY DEF Init, NoThreads
<1>2. [Next]_vars => [S!Next]_S!vars
  <2> SUFFICES ASSUME [Next]_vars  PROVE [S!Next]_S!vars
    OBVIOUS
  <2>1. CASE KernelStartThreads
    BY <2>1 DEF KernelStartThreads, InitThreads, S!Next, S!Boot
  <2>2. CASE ThreadStep
    BY <2>2 DEF ThreadStep, AConsole, APrint, ASleep, BConsole, BLoop, S!Next, S!vars, schedVars
  <2>3. CASE Tick
    BY <2>3 DEF Tick, S!Next
  <2>4. CASE UNCHANGED threadVars
    BY <2>4 DEF threadVars, schedVars, S!vars
  <2> QED  BY <2>1, <2>2, <2>3, <2>4, StepOfThreads
<1> QED  BY <1>1, <1>2, PTL DEF Spec, S!Spec

LEMMA EmptySequence == <<>> \in Seq({}) /\ 0 \in Nat
OBVIOUS

SP == INSTANCE SchedulerProofs WITH Workers <- {A, B}, MayExit <- {}, MayFail <- {A, B, Bootstrap, Idle},
  Objects <- {}, Pointers <- {}, nullptr <- NULL, MaxPlain <- 0,
  m_RefCount <- 0, made <- {}, deleted <- 0, m_Ptr <- 0, plain <- 0

(* The scheduler of SchedulerProofs is the one that Workers uses. *)
LEMMA SameScheduler ==
  /\ S!Spec => SP!Spec
  /\ SP!QueueIsSound <=> S!QueueIsSound
  /\ SP!LostOnlyWhenAlone <=> S!LostOnlyWhenAlone
  /\ SP!NullOnlyWhenAlone <=> S!NullOnlyWhenAlone
<1>1. S!Reset => SP!Reset
  BY Zenon DEF S!Reset, SP!Reset, S!Threads, SP!Threads
<1>2. [S!Next]_S!vars => [SP!Next]_SP!vars
  BY Zenon DEF S!Next, SP!Next, S!vars, SP!vars, S!Boot, SP!Boot, S!Init, SP!Init, S!Start, SP!Start,
     S!CreateAndEnqueue, SP!CreateAndEnqueue, S!CreateKernel, SP!CreateKernel, S!Yield, SP!Yield,
     S!DoYield, SP!DoYield, S!DequeueNext, SP!DequeueNext, S!SwitchTo, SP!SwitchTo,
     S!ThreadExit, SP!ThreadExit, S!OnTimerTick, SP!OnTimerTick, S!PanicEx, SP!PanicEx
<1>3. SP!QueueIsSound <=> S!QueueIsSound
  BY Zenon DEF S!QueueIsSound, SP!QueueIsSound
<1>4. SP!LostOnlyWhenAlone <=> S!LostOnlyWhenAlone
  BY Zenon DEF S!LostOnlyWhenAlone, SP!LostOnlyWhenAlone, S!Lost, SP!Lost, S!Alive, SP!Alive,
     S!Queued, SP!Queued
<1>5. SP!NullOnlyWhenAlone <=> S!NullOnlyWhenAlone
  BY Zenon DEF S!NullOnlyWhenAlone, SP!NullOnlyWhenAlone, S!Alive, SP!Alive
<1> QED  BY <1>1, <1>2, <1>3, <1>4, <1>5, PTL DEF S!Spec, SP!Spec

LEMMA NoPointers == SP!IsFiniteSet({}) /\ NULL \notin {} /\ 0 \in Nat
BY Zenon, EmptySequence DEF SP!IsFiniteSet

(* In the booted kernel EnqueueReady is never given a thread that is queued, *)
(* running or dead, neither worker is lost while the other is alive, and     *)
(* SwitchTo is given nullptr only without an idle thread and with one worker *)
(* at most, whatever memory the creation of the threads finds and whenever   *)
(* the timer interrupts.                                                     *)
THEOREM KernelKeepsItsThreads ==
  Spec => [](S!QueueIsSound /\ S!LostOnlyWhenAlone /\ S!NullOnlyWhenAlone)
<1>1. SP!Spec => []SP!QueueIsSound
  BY Zenon, ThreadsDiffer, NoPointers, SP!QueueIsAlwaysSound
<1>2. SP!Spec => []SP!LostOnlyWhenAlone
  BY Zenon, ThreadsDiffer, NoPointers, SP!OnlyTheLastIsLost
<1>3. SP!Spec => []SP!NullOnlyWhenAlone
  BY Zenon, ThreadsDiffer, NoPointers, SP!NullIsRunOnlyWhenAlone
<1> QED  BY <1>1, <1>2, <1>3, SameScheduler, KernelUsesScheduler, PTL
===============================================================================
