------------------------------ MODULE Scheduler ------------------------------
(***************************************************************************)
(* Scheduler.cpp and the thread life cycle of Thread.cpp: a cooperative    *)
(* round robin on one CPU.  The run queue is the sequence that module      *)
(* RunQueue shows the linked list to be; RunQueue's Push asks for a thread *)
(* that is not queued, and QueueIsSound below shows that it gets one.      *)
(***************************************************************************)
EXTENDS Integers, Sequences

CONSTANTS
  Workers,          \* the threads passed to CreateAndEnqueue
  Bootstrap, Idle,  \* gBootstapThread and the thread Init creates for idling
  NULL,             \* nullptr
  MayExit,          \* the workers whose entry function may return
  MayFail           \* the threads whose memory may not be available

ASSUME ThreadsAssumption ==
  /\ Bootstrap \notin Workers /\ Idle \notin Workers /\ NULL \notin Workers
  /\ Bootstrap # Idle /\ Bootstrap # NULL /\ Idle # NULL
  /\ MayExit \subseteq Workers
  /\ MayFail \subseteq Workers \cup {Bootstrap, Idle}

Threads == Workers \cup {Bootstrap, Idle}

ThreadState == {"Init", "Ready", "Running", "Dead"}   \* Sleep is never used

VARIABLES
  phase,            \* "boot", "create", "run", "panic", or "crash": a null thread was run
  State,            \* Thread::State of every thread
  CurrentThread,    \* PerCPU::CurrentThread
  gIdleThread,
  gRunQueue,
  toCreate,         \* the workers that CreateAndEnqueue has not been called for
  gNeedReschedule

vars == <<phase, State, CurrentThread, gIdleThread, gRunQueue, toCreate, gNeedReschedule>>

Queued == {gRunQueue[k] : k \in DOMAIN gRunQueue}

Reset ==
  /\ phase = "boot"
  /\ State = [t \in Threads |-> "Init"]
  /\ CurrentThread = NULL /\ gIdleThread = NULL
  /\ gRunQueue = <<>>
  /\ toCreate = Workers
  /\ gNeedReschedule = FALSE

(* CreateKernel: operator new panics when it has no page for the Thread;     *)
(* when there is none for the stack the caller gets nullptr.                 *)
CreateKernel(t) == IF t \in MayFail THEN {"created", "null", "panic"} ELSE {"created"}

(* Sched::Init.  The bootstrap thread is made with new, which panics without *)
(* a page; the result for the idle thread is not tested.                     *)
Init ==
  /\ phase = "boot"
  /\ \/ /\ Bootstrap \in MayFail
        /\ phase' = "panic"
        /\ UNCHANGED <<State, CurrentThread, gIdleThread>>
     \/ /\ \E idle \in CreateKernel(Idle) :
             /\ phase' = IF idle = "panic" THEN "panic" ELSE "create"
             /\ gIdleThread' = IF idle = "created" THEN Idle ELSE NULL
             /\ State' = [State EXCEPT ![Bootstrap] = "Running",
                                       ![Idle] = IF idle = "created" THEN "Ready" ELSE "Init"]
        /\ CurrentThread' = Bootstrap
  /\ UNCHANGED <<gRunQueue, toCreate, gNeedReschedule>>

CreateAndEnqueue(t) ==
  /\ phase = "create" /\ t \in toCreate
  /\ toCreate' = toCreate \ {t}
  /\ \/ /\ "created" \in CreateKernel(t)
        /\ State' = [State EXCEPT ![t] = "Ready"]
        /\ gRunQueue' = Append(gRunQueue, t)
        /\ UNCHANGED phase
     \/ /\ "null" \in CreateKernel(t)
        /\ UNCHANGED <<phase, State, gRunQueue>>
     \/ /\ "panic" \in CreateKernel(t)
        /\ phase' = "panic"
        /\ UNCHANGED <<State, gRunQueue>>
  /\ UNCHANGED <<CurrentThread, gIdleThread, gNeedReschedule>>

(* SwitchTo(next), where states is what the caller has made of State.  The   *)
(* switch to itself returns before State is set; a null next is dereferenced *)
(* and its stack pointer loaded.                                             *)
SwitchTo(next, states) ==
  \/ /\ next = CurrentThread
     /\ phase' = "run" /\ State' = states
     /\ UNCHANGED CurrentThread
  \/ /\ next # CurrentThread /\ next = NULL
     /\ phase' = "crash" /\ State' = states
     /\ CurrentThread' = NULL
  \/ /\ next # CurrentThread /\ next # NULL
     /\ phase' = "run" /\ State' = [states EXCEPT ![next] = "Running"]
     /\ CurrentThread' = next

\* Wrong form: the queue's head is run but stays queued.
DequeueNextPeeks(queue, states) ==
  /\ gRunQueue' = queue
  /\ SwitchTo(IF queue = <<>> THEN gIdleThread ELSE Head(queue), states)

(* DequeueNext, and SwitchTo what it returned. *)
DequeueNext(queue, states) ==
  \/ /\ queue = <<>>
     /\ gRunQueue' = queue
     /\ SwitchTo(gIdleThread, states)
  \/ /\ queue # <<>>
     /\ gRunQueue' = Tail(queue)
     /\ SwitchTo(Head(queue), states)

\* Wrong form: the current thread is not queued.
DoYieldDrops(states) == DequeueNext(gRunQueue, states)

\* Wrong form: the current thread is put at the front of the queue.
DoYieldAtFront(states) ==
  LET curr == CurrentThread
  IN  IF curr # gIdleThread /\ curr # Bootstrap /\ states[curr] = "Running"
         /\ gRunQueue # <<>>
      THEN DequeueNext(<<Head(gRunQueue), curr>> \o Tail(gRunQueue),
                       [states EXCEPT ![curr] = "Ready"])
      ELSE DequeueNext(gRunQueue, states)

\* Wrong form: Yield switches only after a timer tick.
DoYieldOnTick(states) ==
  LET curr  == CurrentThread
      ready == curr # gIdleThread /\ curr # Bootstrap /\ states[curr] = "Running"
  IN  IF ready /\ ~gNeedReschedule
      THEN UNCHANGED <<phase, State, CurrentThread, gRunQueue>>
      ELSE DequeueNext(IF ready THEN Append(gRunQueue, curr) ELSE gRunQueue,
                       IF ready THEN [states EXCEPT ![curr] = "Ready"] ELSE states)

(* Yield, when the states of the threads are states. *)
DoYield(states) ==
  LET curr  == CurrentThread
      ready == curr # gIdleThread /\ curr # Bootstrap /\ states[curr] = "Running"
  IN  \/ /\ ready
         /\ DequeueNext(Append(gRunQueue, curr), [states EXCEPT ![curr] = "Ready"])
      \/ /\ ~ready
         /\ DequeueNext(gRunQueue, states)

(* Start: the bootstrap thread yields and never runs again. *)
Start ==
  /\ phase = "create" /\ toCreate = {}
  /\ DoYield(State)
  /\ UNCHANGED <<gIdleThread, toCreate, gNeedReschedule>>

(* A worker yields; the idle thread only halts. *)
Yield ==
  /\ phase = "run" /\ CurrentThread \in Workers
  /\ DoYield(State)
  /\ UNCHANGED <<gIdleThread, toCreate, gNeedReschedule>>

\* Wrong form: the thread that has exited leaves the CPU to the idle thread.
ThreadExitIdles ==
  /\ phase = "run" /\ CurrentThread \in MayExit
  /\ SwitchTo(gIdleThread, [State EXCEPT ![CurrentThread] = "Dead"])
  /\ UNCHANGED <<gIdleThread, gRunQueue, toCreate, gNeedReschedule>>

(* The entry function has returned to ThreadStartTrampoline. *)
ThreadExit ==
  /\ phase = "run" /\ CurrentThread \in MayExit
  /\ DoYield([State EXCEPT ![CurrentThread] = "Dead"])
  /\ UNCHANGED <<gIdleThread, toCreate, gNeedReschedule>>

(* The timer interrupt, on top of any thread.  The flag is never read. *)
OnTimerTick ==
  /\ phase # "panic"
  /\ gNeedReschedule' = TRUE
  /\ UNCHANGED <<phase, State, CurrentThread, gIdleThread, gRunQueue, toCreate>>

(* PANIC for want of a page, with interrupts disabled: its console needs a   *)
(* page too, and operator new panics again.                                  *)
PanicEx ==
  /\ phase = "panic"
  /\ UNCHANGED vars

Boot == Init \/ Start \/ \E t \in Workers : CreateAndEnqueue(t)

Next == Boot \/ Yield \/ ThreadExit \/ OnTimerTick \/ PanicEx

Spec == Reset /\ [][Next]_vars

(* The boot code runs to its end, and a thread that is running reaches its   *)
(* next Yield: the loops of WorkerA, WorkerB and SleepUntilTick all do.      *)
Fairness == WF_vars(Boot) /\ WF_vars(Yield)

FairSpec == Spec /\ Fairness
-------------------------------------------------------------------------------
(* Properties. *)

(* Every thread has one of its states, and pointers are null or to threads. *)
TypeOK ==
  /\ phase \in {"boot", "create", "run", "panic", "crash"}
  /\ State \in [Threads -> ThreadState]
  /\ CurrentThread \in Threads \cup {NULL}
  /\ gIdleThread \in {Idle, NULL}
  /\ gRunQueue \in Seq(Workers)
  /\ toCreate \in SUBSET Workers
  /\ gNeedReschedule \in BOOLEAN

(* EnqueueReady is never given a thread that is queued already, which would  *)
(* make the links a cycle: no thread is queued twice, nor while it runs, and *)
(* what is queued is ready, never dead.                                      *)
QueueIsSound ==
  /\ \A j, k \in 1 .. Len(gRunQueue) : gRunQueue[j] = gRunQueue[k] => j = k
  /\ \A k \in 1 .. Len(gRunQueue) :
       /\ gRunQueue[k] # CurrentThread
       /\ State[gRunQueue[k]] = "Ready"
       /\ gRunQueue[k] \notin toCreate

(* ThreadExit leaves its thread dead, and a dead thread is never run again:  *)
(* HaltProcessor, after the Yield of ThreadExit, is not reached.             *)
DeadStaysDead ==
  [][/\ ThreadExit =>
          State'[CurrentThread] = "Dead" /\ (phase' = "run" => CurrentThread' # CurrentThread)
     /\ \A t \in Threads : State[t] = "Dead" =>
          State'[t] = "Dead" /\ (phase' = "run" => CurrentThread' # t)]_vars

(* Two workers whose creation succeeds and that never exit: what the kernel  *)
(* has in WorkerA and WorkerB.                                               *)
Steady == Workers \ (MayExit \cup MayFail)

TwoSteadyWorkers == \E a, b \in Steady : a # b

Alive(w) == State[w] \in {"Ready", "Running"}

Lost(w) == Alive(w) /\ w # CurrentThread /\ w \notin Queued

(* A worker that Yield returned to without a switch is left Ready, is not    *)
(* queued by its next Yield and never runs again.  That happens to no worker *)
(* while another one is alive, whatever creations fail and entries return.   *)
LostOnlyWhenAlone ==
  \A w \in Workers : Lost(w) => \A v \in Workers : Alive(v) => v = w

(* SwitchTo is given nullptr, which it dereferences, only when there was no  *)
(* memory for the idle thread, which nobody tests for, and at most one       *)
(* worker is alive: as long as there are two, no failure of a creation and   *)
(* no exit of the others makes DequeueNext return the missing idle thread.   *)
NullOnlyWhenAlone ==
  phase = "crash" =>
    gIdleThread = NULL /\ \A v, w \in Workers : Alive(v) /\ Alive(w) => v = w

(* Yield does not lose a thread: from Start on every worker that was created *)
(* and has not exited is running, or is queued to run, and the CPU does not  *)
(* idle.  It takes the second steady worker: see LostOnlyWhenAlone.          *)
NoThreadIsLost ==
  phase \in {"run", "crash"} =>
    /\ phase = "run"
    /\ CurrentThread \in Workers
    /\ State[CurrentThread] = "Running"
    /\ \A w \in Workers : ~Lost(w)

(* Round robin: with each switch every waiting worker moves one place ahead, *)
(* so that none waits for more than one turn of each of the others.          *)
RoundRobin ==
  [][phase = "run" /\ CurrentThread' # CurrentThread =>
       \A k \in 1 .. Len(gRunQueue) :
         IF k = 1 THEN CurrentThread' = gRunQueue[1]
                  ELSE k - 1 <= Len(gRunQueue') /\ gRunQueue'[k - 1] = gRunQueue[k]]_vars

(* While two workers stay alive, each of them runs again and again, whatever *)
(* the others do: nobody is left behind by cooperative scheduling.           *)
LiveWorkersKeepRunning ==
  \A w, v \in Workers : w # v =>
    (<>[](phase = "run" /\ Alive(w) /\ Alive(v))
       => []<>(CurrentThread = w /\ State[w] = "Running"))
===============================================================================
