------------------------------- MODULE Workers -------------------------------
(***************************************************************************)
(* KernelMain.cpp after the boot: the two threads of KernelStartThreads on *)
(* the scheduler of module Scheduler, the ticks they wait for, and the     *)
(* pages that they and GetBootstrapConsole take.  Every call of it makes a *)
(* RedundantOutput that nothing deletes: see RefPtr.  Times are kept as    *)
(* the ticks that remain, so that the tick counter needs no bound.  Module *)
(* Boot says when these actions are taken.                                 *)
(***************************************************************************)
EXTENDS Integers, Sequences

CONSTANTS
  A, B, Bootstrap, Idle, NULL,
  PeriodA,      \* 1000 in the code
  PeriodB,      \* 4000 in the code
  StackPages,   \* 4 in the code
  MaxLate       \* bound: by how many ticks B is late at most

ASSUME PeriodsAssumption ==
  PeriodA \in Nat \ {0} /\ PeriodB \in Nat \ {0} /\ StackPages \in Nat \ {0} /\ MaxLate \in Nat

ASSUME ThreadsDiffer ==
  /\ A # B /\ {A, B} \cap {Bootstrap, Idle, NULL} = {}
  /\ Bootstrap # Idle /\ Bootstrap # NULL /\ Idle # NULL

VARIABLES
  phase, State, CurrentThread, gIdleThread, gRunQueue, toCreate, gNeedReschedule,
  pc,           \* where each worker is
  sleep,        \* SleepUntilTick of A: targetTick - TickCount, 0 when it is reached
  due,          \* of B: next - TickCount
  pages,        \* free pages, taken to be one run
  shown,        \* how often A's message has been shown
  since         \* ticks since it was last shown, up to PeriodA

schedVars == <<phase, State, CurrentThread, gIdleThread, gRunQueue, toCreate, gNeedReschedule>>
workVars == <<pc, sleep, due, shown, since>>
threadVars == <<schedVars, workVars>>

S == INSTANCE Scheduler WITH Workers <- {A, B}, MayExit <- {}, MayFail <- {A, B, Bootstrap, Idle}

(* Before main. *)
NoThreads ==
  /\ S!Reset
  /\ pc = [w \in {A, B} |-> "console"]
  /\ sleep = 0 /\ due = 0
  /\ shown = 0 /\ since = PeriodA

(* CreateKernel, when n pages are free: one for the Thread and StackPages for *)
(* its stack.  Without the first it panics, without the others it returns     *)
(* nullptr, and the page of the Thread is not given back.                     *)
CreateKernel(n, created) ==
  \/ /\ n = 0 /\ phase' = "panic"
     /\ pages' = n
  \/ /\ n > 0 /\ phase' # "panic"
     /\ created <=> n > StackPages
     /\ pages' = n - 1 - (IF created THEN StackPages ELSE 0)

\* Wrong form: the bootstrap thread is made without a page.
InitThreadsUntested ==
  /\ S!Init /\ CurrentThread' = Bootstrap
  /\ CreateKernel(IF pages > 0 THEN pages - 1 ELSE 0, gIdleThread' = Idle)

(* Sched::Init: a page for the bootstrap thread, or a panic, then the idle    *)
(* thread.                                                                    *)
InitThreads ==
  /\ S!Init
  /\ \/ /\ pages = 0 /\ CurrentThread' = NULL
        /\ UNCHANGED pages
     \/ /\ pages > 0 /\ CurrentThread' = Bootstrap
        /\ CreateKernel(pages - 1, gIdleThread' = Idle)

\* Wrong form: the scheduler is never started.
KernelStartThreadsOnlyCreates ==
  /\ \/ InitThreads
     \/ S!CreateAndEnqueue(A) /\ CreateKernel(pages, State'[A] = "Ready")
     \/ A \notin toCreate /\ S!CreateAndEnqueue(B) /\ CreateKernel(pages, State'[B] = "Ready")
  /\ UNCHANGED workVars

(* KernelStartThreads: A is created before B. *)
KernelStartThreads ==
  /\ \/ InitThreads
     \/ S!CreateAndEnqueue(A) /\ CreateKernel(pages, State'[A] = "Ready")
     \/ A \notin toCreate /\ S!CreateAndEnqueue(B) /\ CreateKernel(pages, State'[B] = "Ready")
     \/ S!Start /\ UNCHANGED pages
  /\ UNCHANGED workVars

At(w, place) == phase = "run" /\ CurrentThread = w /\ pc[w] = place

Goto(w, place) == pc' = [pc EXCEPT ![w] = place]

(* GetBootstrapConsole: operator new takes a page, or panics. *)
GetBootstrapConsole(w, place) ==
  \/ /\ pages > 0 /\ pages' = pages - 1
     /\ Goto(w, place)
  \/ /\ pages = 0 /\ UNCHANGED pages
     /\ Goto(w, "panic")

AConsole ==
  /\ At(A, "console")
  /\ GetBootstrapConsole(A, "print")
  /\ UNCHANGED <<schedVars, sleep, due, shown, since>>

\* Wrong form: the sleep is one tick too short.
APrintOneShort ==
  /\ At(A, "print")
  /\ shown' = shown + 1 /\ since' = 0
  /\ sleep' = PeriodA - 1
  /\ Goto(A, "sleep")
  /\ UNCHANGED <<schedVars, due, pages>>

(* PutString, and SleepMs reads the tick it sleeps until. *)
APrint ==
  /\ At(A, "print")
  /\ shown' = shown + 1 /\ since' = 0
  /\ sleep' = PeriodA
  /\ Goto(A, "sleep")
  /\ UNCHANGED <<schedVars, due, pages>>

(* SleepUntilTick *)
ASleep ==
  /\ At(A, "sleep")
  /\ \/ sleep = 0 /\ Goto(A, "console") /\ UNCHANGED schedVars
     \/ sleep > 0 /\ S!Yield /\ UNCHANGED pc
  /\ UNCHANGED <<sleep, due, pages, shown, since>>

BConsole ==
  /\ At(B, "console")
  /\ GetBootstrapConsole(B, "loop")
  /\ due' = PeriodB
  /\ UNCHANGED <<schedVars, sleep, shown, since>>

\* Wrong form: B waits for its time without yielding.
BLoopSpins ==
  /\ At(B, "loop")
  /\ due' = IF due <= 0 THEN due + PeriodB ELSE due
  /\ UNCHANGED <<schedVars, pc, sleep, pages, shown, since>>

BLoop ==
  /\ At(B, "loop")
  /\ due' = IF due <= 0 THEN due + PeriodB ELSE due
  /\ S!Yield
  /\ UNCHANGED <<pc, sleep, pages, shown, since>>

Panicking == phase = "panic" \/ \E w \in {A, B} : pc[w] = "panic"

(* OnTimer, on top of any thread. *)
Tick ==
  /\ ~Panicking /\ due > -MaxLate
  /\ S!OnTimerTick
  /\ sleep' = IF sleep > 0 THEN sleep - 1 ELSE 0
  /\ due' = IF pc[B] = "loop" THEN due - 1 ELSE due
  /\ since' = IF since < PeriodA THEN since + 1 ELSE since
  /\ UNCHANGED <<pc, pages, shown>>

ThreadStep == AConsole \/ APrint \/ ASleep \/ BConsole \/ BLoop

-------------------------------------------------------------------------------
(* Properties. *)

(* A's message is shown once a second at most: SleepMs does not return       *)
(* before its time, whatever B does.                                         *)
NotMoreThanOncePerSecond == [][shown' # shown => since >= PeriodA]_threadVars
===============================================================================
