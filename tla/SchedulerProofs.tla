--------------------------- MODULE SchedulerProofs ---------------------------
(***************************************************************************)
(* The scheduler's safety, for any set of workers, and for any choice of   *)
(* the creations that may fail and of the workers that may exit; and that  *)
(* of module RefPtr, for any number of pointers and objects.               *)
(***************************************************************************)
EXTENDS Scheduler, RefPtr, TLAPS

(* The queue as a set: the steps below need no more of it. *)
Elems(s) == {s[k] : k \in DOMAIN s}

Distinct(s) == \A j, k \in 1 .. Len(s) : s[j] = s[k] => j = k

LEMMA AppendFacts ==
  ASSUME NEW S, NEW s \in Seq(S), NEW e \in S, Distinct(s), e \notin Elems(s)
  PROVE  /\ Append(s, e) \in Seq(S) /\ Append(s, e) # <<>>
         /\ Distinct(Append(s, e))
         /\ Elems(Append(s, e)) = Elems(s) \cup {e}
         /\ s # <<>> => Head(Append(s, e)) \in Elems(s)
<1> DEFINE a == Append(s, e)
           n == Len(s)
<1>1. /\ a \in Seq(S) /\ a # <<>> /\ n \in Nat /\ Len(a) = n + 1 /\ a[n + 1] = e
      /\ DOMAIN s = 1 .. n /\ DOMAIN a = 1 .. n + 1 /\ Head(a) = a[1]
      /\ s # <<>> => n > 0
  OBVIOUS
<1>2. \A k \in 1 .. n : a[k] = s[k] /\ s[k] # e
  BY DEF Elems
<1> HIDE DEF a, n
<1>3. Distinct(a)
  <2> SUFFICES ASSUME NEW j \in 1 .. n + 1, NEW k \in 1 .. n + 1, a[j] = a[k]
               PROVE  j = k
    BY <1>1 DEF Distinct
  <2>1. CASE j \in 1 .. n /\ k \in 1 .. n
    BY <1>2, <2>1 DEF Distinct, n
  <2> QED  BY <1>1, <1>2, <2>1
<1>4. Elems(a) = Elems(s) \cup {e}
  BY <1>1, <1>2 DEF Elems
<1>5. s # <<>> => Head(a) \in Elems(s)
  BY <1>1, <1>2 DEF Elems
<1> QED  BY <1>1, <1>3, <1>4, <1>5 DEF a

LEMMA TailFacts ==
  ASSUME NEW S, NEW s \in Seq(S), s # <<>>, Distinct(s)
  PROVE  /\ Tail(s) \in Seq(S) /\ Distinct(Tail(s))
         /\ Elems(Tail(s)) = Elems(s) \ {Head(s)}
         /\ Head(s) \in Elems(s) /\ Head(s) \in S
<1> DEFINE a == Tail(s)
           n == Len(s)
<1>1. /\ a \in Seq(S) /\ n \in Nat /\ n > 0 /\ Len(a) = n - 1
      /\ DOMAIN s = 1 .. n /\ DOMAIN a = 1 .. n - 1 /\ Head(s) = s[1]
      /\ \A k \in 1 .. n : s[k] \in S
  OBVIOUS
<1>2. \A k \in 1 .. n - 1 : a[k] = s[k + 1]
  OBVIOUS
<1>3. \A j, k \in 1 .. n : s[j] = s[k] => j = k
  BY DEF Distinct
<1> HIDE DEF a, n
<1>4. Distinct(a)
  BY <1>1, <1>2, <1>3 DEF Distinct
<1>5. Elems(a) = Elems(s) \ {Head(s)}
  <2>1. ASSUME NEW x \in Elems(a) PROVE x \in Elems(s) \ {Head(s)}
    BY <1>1, <1>2, <1>3 DEF Elems
  <2>2. ASSUME NEW x \in Elems(s), x # Head(s) PROVE x \in Elems(a)
    <3>1. PICK k \in 1 .. n : x = s[k]
      BY <1>1 DEF Elems
    <3>2. k - 1 \in 1 .. n - 1 /\ a[k - 1] = s[k]
      BY <1>1, <1>2, <2>2, <3>1
    <3> QED  BY <1>1, <3>1, <3>2 DEF Elems
  <2> QED  BY <2>1, <2>2
<1>6. Head(s) \in Elems(s) /\ Head(s) \in S
  BY <1>1 DEF Elems
<1> QED  BY <1>1, <1>4, <1>5, <1>6 DEF a

(* What is popped is no longer queued; idle runs when nothing is queued. *)
LEMMA DequeueNextFacts ==
  ASSUME NEW q \in Seq(Workers), NEW S, Distinct(q), DequeueNext(q, S)
  PROVE  \E next :
           /\ SwitchTo(next, S)
           /\ gRunQueue' \in Seq(Workers) /\ Distinct(gRunQueue')
           /\ Elems(gRunQueue') = Elems(q) \ {next}
           /\ q = <<>> => next = gIdleThread /\ gRunQueue' = <<>>
           /\ q # <<>> => next = Head(q) /\ next \in Elems(q) /\ next \in Workers
<1>1. CASE q = <<>>
  <2>1. Elems(<<>>) = {}
    BY DEF Elems
  <2> QED  BY <1>1, <2>1 DEF DequeueNext
<1>2. CASE q # <<>>
  BY ZenonT(30), <1>2, TailFacts DEF DequeueNext
<1> QED  BY <1>1, <1>2
-------------------------------------------------------------------------------
(* The inductive invariant. *)

Queue ==
  /\ Distinct(gRunQueue)
  /\ \A w \in Elems(gRunQueue) :
       w # CurrentThread /\ State[w] = "Ready" /\ w \notin toCreate

(* Where each phase finds the current thread. *)
Phases ==
  /\ phase = "boot" => /\ gRunQueue = <<>> /\ toCreate = Workers
                     /\ \A t \in Threads : State[t] = "Init"
  /\ phase = "create" => CurrentThread = Bootstrap /\ \A w \in Workers : ~Lost(w)
  /\ \A w \in toCreate : State[w] = "Init"
  /\ State[Idle] # "Dead"
  /\ phase = "run" =>
       /\ CurrentThread \in Workers \cup {Idle}
       /\ State[CurrentThread] \in {"Ready", "Running"}
       /\ CurrentThread = Idle => gRunQueue = <<>>
  /\ phase \in {"run", "crash"} => toCreate = {}

(* A worker that runs in state Ready is the only one left, and so is a lost  *)
(* one; and at most one is left when there is no thread to run.              *)
Alone ==
  /\ phase = "run" /\ CurrentThread \in Workers /\ State[CurrentThread] = "Ready" =>
       \A v \in Workers : Alive(v) => v = CurrentThread
  /\ NullOnlyWhenAlone
  /\ LostOnlyWhenAlone

(* A steady worker is created and never exits. *)
SteadyAlive ==
  /\ \A w \in Steady : State[w] # "Dead"
  /\ phase \in {"create", "run", "crash"} => \A w \in Steady : w \in toCreate \/ Alive(w)

IInv == TypeOK /\ Queue /\ Phases /\ Alone /\ SteadyAlive

LEMMA InitIInv == Reset => IInv
<1> SUFFICES ASSUME Reset PROVE IInv
  OBVIOUS
<1> USE ThreadsAssumption
<1>1. Elems(gRunQueue) = {} /\ Queued = {} /\ Distinct(gRunQueue) /\ gRunQueue \in Seq(Workers)
  BY DEF Reset, Elems, Queued, Distinct
<1>2. \A w \in Workers : ~Alive(w) /\ w \in Threads
  BY DEF Reset, Alive, Threads
<1> QED  BY Zenon, <1>1, <1>2 DEF Reset, IInv, TypeOK, Queue, Phases, Alone, SteadyAlive, Steady,
                           LostOnlyWhenAlone, NullOnlyWhenAlone, Lost, ThreadState, Threads

LEMMA InitStep ==
  ASSUME IInv, Init
  PROVE  IInv'
<1> USE ThreadsAssumption
<1>1. /\ phase' \in {"panic", "create"} /\ gIdleThread' \in {Idle, NULL}
      /\ CurrentThread' \in {CurrentThread, Bootstrap}
      /\ phase' = "create" => CurrentThread' = Bootstrap
      /\ \/ State' = State
         \/ \E i \in {"Ready", "Init"} :
              State' = [State EXCEPT ![Bootstrap] = "Running", ![Idle] = i]
  BY DEF Init, IInv, TypeOK
<1>2. /\ phase = "boot" /\ gRunQueue' = gRunQueue
      /\ toCreate' = toCreate /\ gNeedReschedule' = gNeedReschedule
      /\ gRunQueue = <<>> /\ Elems(gRunQueue) = {} /\ Elems(gRunQueue') = {}
  BY DEF Init, IInv, Phases, Elems
<1>3. TypeOK'
  BY <1>1, <1>2 DEF IInv, TypeOK, ThreadState, Threads
<1>4. \A w \in Workers : State'[w] = "Init" /\ ~Alive(w)' /\ ~Lost(w)'
  BY <1>1, <1>2 DEF IInv, TypeOK, Phases, Threads, Alive, Lost
<1>5. phase' \in {"panic", "create"} /\ State'[Idle] # "Dead"
  BY <1>1 DEF IInv, TypeOK, Phases, Threads
<1>6. Queue'
  BY <1>2 DEF IInv, Queue, Distinct
<1>7. Phases' /\ Alone'
  BY <1>1, <1>2, <1>3, <1>4, <1>5 DEF Phases, Alone, LostOnlyWhenAlone, NullOnlyWhenAlone, TypeOK
<1>8. SteadyAlive'
  <2>1. phase = "boot" => toCreate = Workers
    BY DEF IInv, Phases
  <2> QED  BY <1>2, <1>4, <2>1 DEF SteadyAlive, Steady
<1> QED  BY <1>3, <1>6, <1>7, <1>8 DEF IInv

LEMMA CreateAndEnqueueStep ==
  ASSUME IInv, NEW t \in Workers, CreateAndEnqueue(t)
  PROVE  IInv'
<1> USE ThreadsAssumption
<1>1. /\ phase = "create" /\ t \in toCreate /\ toCreate' = toCreate \ {t}
      /\ CurrentThread' = CurrentThread /\ gIdleThread' = gIdleThread
      /\ gNeedReschedule' = gNeedReschedule
      /\ CurrentThread = Bootstrap /\ State[t] = "Init"
      /\ t \notin Elems(gRunQueue)
      /\ Queued = Elems(gRunQueue) /\ Queued' = Elems(gRunQueue')
  BY DEF CreateAndEnqueue, IInv, Phases, Queue, Queued, Elems
<1>2. CASE /\ State' = [State EXCEPT ![t] = "Ready"]
           /\ gRunQueue' = Append(gRunQueue, t)
           /\ phase' = phase
  <2>1. /\ gRunQueue' \in Seq(Workers) /\ Distinct(gRunQueue')
        /\ Elems(gRunQueue') = Elems(gRunQueue) \cup {t}
    BY <1>1, <1>2, AppendFacts DEF IInv, TypeOK, Queue
  <2>2. \A w \in Threads : State'[w] = IF w = t THEN "Ready" ELSE State[w]
    BY <1>2 DEF IInv, TypeOK
  <2>3. TypeOK'
    BY Zenon, <1>1, <1>2, <2>1 DEF IInv, TypeOK, ThreadState
  <2>4. Elems(gRunQueue) \subseteq Workers
    BY DEF IInv, TypeOK, Elems
  <2>5. Queue'
    BY <1>1, <2>1, <2>2, <2>4 DEF IInv, Queue, Threads
  <2>6. \A w \in Workers : ~Lost(w)'
    BY <1>1, <2>1, <2>2 DEF IInv, Phases, Lost, Alive, Threads
  <2>7. Phases'
    BY <1>1, <1>2, <2>2, <2>6 DEF IInv, TypeOK, Phases, Threads
  <2>8. Alone'
    BY <1>1, <1>2, <2>6 DEF Alone, LostOnlyWhenAlone, NullOnlyWhenAlone
  <2>9. SteadyAlive'
    BY <1>1, <1>2, <2>2 DEF IInv, SteadyAlive, Steady, Alive, Threads
  <2> QED  BY <2>3, <2>5, <2>7, <2>8, <2>9 DEF IInv
<1>3. CASE /\ State' = State /\ gRunQueue' = gRunQueue
           /\ phase' \in {"create", "panic"} /\ t \in MayFail
  <2>1. TypeOK' /\ Queue'
    BY <1>1, <1>3 DEF IInv, TypeOK, Queue
  <2>2. \A w \in Workers : (Alive(w)' <=> Alive(w)) /\ ~Lost(w)'
    BY <1>1, <1>3 DEF IInv, Phases, Lost, Alive
  <2>3. Phases' /\ Alone'
    BY <1>1, <1>3, <2>2 DEF IInv, Phases, Alone, LostOnlyWhenAlone, NullOnlyWhenAlone
  <2>4. SteadyAlive'
    BY <1>1, <1>3, <2>2 DEF IInv, SteadyAlive, Steady
  <2> QED  BY <2>1, <2>3, <2>4 DEF IInv
<1>4. (~ \E x \in {"null", "panic"} : x \in CreateKernel(t)) \/ t \in MayFail
  BY DEF CreateKernel
<1> QED  BY <1>1, <1>2, <1>3, <1>4 DEF CreateAndEnqueue

(* A Yield, from whichever of its callers.  S are the states it finds: those *)
(* of the threads, except that ThreadExit has made the current thread Dead.  *)
LEMMA DoYieldStep ==
  ASSUME IInv, toCreate = {}, NEW S \in [Threads -> ThreadState], DoYield(S),
         \A t \in Threads : t # CurrentThread => S[t] = State[t],
         \/ /\ phase = "create" /\ S = State
         \/ /\ phase = "run" /\ CurrentThread \in Workers /\ S = State
         \/ /\ phase = "run" /\ CurrentThread \in MayExit /\ S[CurrentThread] = "Dead",
         gIdleThread' = gIdleThread, toCreate' = toCreate, gNeedReschedule' = gNeedReschedule
  PROVE  IInv' /\ \A t \in Threads : S[t] = "Dead" =>
                      State'[t] = "Dead" /\ (phase' = "run" => CurrentThread' # t)
<1> USE ThreadsAssumption
<1> DEFINE curr == CurrentThread
           ready == curr # gIdleThread /\ curr # Bootstrap /\ S[curr] = "Running"
           q == IF ready THEN Append(gRunQueue, curr) ELSE gRunQueue
           T == IF ready THEN [S EXCEPT ![curr] = "Ready"] ELSE S
<1>1. /\ DequeueNext(q, T)
      /\ Queued = Elems(gRunQueue) /\ Queued' = Elems(gRunQueue')
      /\ Elems(gRunQueue) \subseteq Workers /\ curr \notin Elems(gRunQueue)
      /\ gRunQueue \in Seq(Workers) /\ Distinct(gRunQueue)
      /\ gIdleThread \in {Idle, NULL}
  BY DEF DoYield, Queued, Elems, IInv, Queue, TypeOK
<1>2. \/ curr = Bootstrap /\ phase = "create" /\ ~ready
      \/ curr \in Workers /\ phase = "run" /\ (ready <=> S[curr] = "Running")
  BY <1>1 DEF IInv, Phases
<1>3. /\ q \in Seq(Workers) /\ Distinct(q)
      /\ Elems(q) = IF ready THEN Elems(gRunQueue) \cup {curr} ELSE Elems(gRunQueue)
      /\ gRunQueue # <<>> => q # <<>> /\ Head(q) # curr
      /\ ready => q # <<>>
  <2>1. CASE ready
    BY <1>1, <1>2, <2>1, AppendFacts
  <2>2. CASE ~ready
    BY <1>1, <2>2, TailFacts
  <2> QED  BY <2>1, <2>2
<1>4. /\ T \in [Threads -> ThreadState]
      /\ \A t \in Threads : T[t] = IF t = curr /\ ready THEN "Ready" ELSE S[t]
      /\ curr \in Threads
  BY <1>2 DEF Threads, ThreadState
<1>5. PICK next :
        /\ SwitchTo(next, T)
        /\ gRunQueue' \in Seq(Workers) /\ Distinct(gRunQueue')
        /\ Elems(gRunQueue') = Elems(q) \ {next}
        /\ q = <<>> => next = gIdleThread /\ gRunQueue' = <<>>
        /\ q # <<>> => next = Head(q) /\ next \in Elems(q) /\ next \in Workers
  <2> HIDE DEF q, T
  <2> QED  BY <1>1, <1>3, DequeueNextFacts
<1> HIDE DEF q, T
<1>6. \A w \in Elems(q) : w \in Workers /\ w \in Threads /\ T[w] = "Ready" /\ w \notin toCreate
  BY <1>1, <1>2, <1>3, <1>4 DEF IInv, Queue, Threads
(* While something is queued nobody is alone, so the current thread is Running. *)
<1>7. \A v \in Workers : v # curr /\ Alive(v) =>
         v \in Elems(gRunQueue) \/ (phase = "run" /\ ~Alive(curr))
  BY <1>1, <1>2 DEF IInv, Alone, Phases, LostOnlyWhenAlone, Lost
<1>8. phase = "run" => State[curr] \in {"Ready", "Running"} /\ Alive(curr)
  BY <1>2 DEF IInv, Phases, Alive
<1>9. \A v \in Workers : v # curr /\ Alive(v) => v \in Elems(gRunQueue)
  BY <1>7, <1>8
<1>10. \A v \in Workers : v # curr => v \in Threads /\ T[v] = State[v]
  BY <1>4 DEF Threads
<1>11. gRunQueue = <<>> <=> Elems(gRunQueue) = {}
  <2>1. Elems(<<>>) = {}
    BY DEF Elems
  <2>2. gRunQueue # <<>> => Elems(gRunQueue) # {}
    BY <1>1, TailFacts
  <2> QED  BY <2>1, <2>2
<1>12. /\ curr \in Steady => S[curr] = State[curr]
       /\ phase = "run" => S[curr] \in {"Ready", "Running", "Dead"}
       /\ T[Idle] # "Dead"
  BY <1>2, <1>4, <1>8 DEF Steady, IInv, Phases, Threads
<1>13. phase = "run" /\ S[curr] = "Ready" =>
         gRunQueue = <<>> /\ \A v \in Workers : Alive(v) => v = curr
  BY <1>1, <1>2, <1>8, <1>11 DEF IInv, Alone, Queue, Alive
<1>14. CASE next = curr
  <2>1. /\ ready /\ gRunQueue = <<>> /\ curr \in Workers /\ phase = "run"
        /\ Elems(gRunQueue') = {}
    BY <1>1, <1>2, <1>3, <1>5, <1>11, <1>14
  <2>2. phase' = "run" /\ State' = T /\ CurrentThread' = curr
    BY <1>5, <1>14, <2>1 DEF SwitchTo
  <2>3. \A v \in Workers : Alive(v)' => v = curr
    BY <1>9, <1>10, <1>11, <2>1, <2>2 DEF Alive
  <2>4. TypeOK'
    BY <1>4, <1>5, <2>2 DEF IInv, TypeOK
  <2>5. Queue' /\ Phases'
    BY <1>4, <1>5, <1>12, <2>1, <2>2 DEF Queue, Phases
  <2>6. Alone'
    BY <1>4, <2>1, <2>2, <2>3 DEF Alone, LostOnlyWhenAlone, NullOnlyWhenAlone, Lost
  <2>7. SteadyAlive'
    BY <1>4, <1>10, <1>12, <2>1, <2>2 DEF IInv, SteadyAlive, Steady, Alive
  <2>8. \A t \in Threads : S[t] = "Dead" => State'[t] = "Dead" /\ CurrentThread' # t
    BY <1>4, <2>1, <2>2
  <2> QED  BY <2>4, <2>5, <2>6, <2>7, <2>8 DEF IInv
<1>15. CASE next # curr /\ next = NULL
  <2>1. /\ q = <<>> /\ ~ready /\ gRunQueue = <<>> /\ Elems(gRunQueue) = {}
        /\ Elems(gRunQueue') = {} /\ gIdleThread = NULL
    BY <1>3, <1>5, <1>11, <1>15
  <2>2. phase' = "crash" /\ State' = T /\ CurrentThread' = NULL
    BY <1>5, <1>15 DEF SwitchTo
  <2>3. \A v \in Workers : Alive(v)' => v = curr
    BY <1>9, <1>10, <2>1, <2>2 DEF Alive
  <2>4. TypeOK'
    BY <1>4, <1>5, <2>2 DEF IInv, TypeOK
  <2>5. Queue' /\ Phases'
    BY <1>5, <1>12, <2>1, <2>2 DEF Queue, Phases
  <2>6. Alone'
    BY <2>1, <2>2, <2>3 DEF Alone, LostOnlyWhenAlone, NullOnlyWhenAlone, Lost
  <2>7. SteadyAlive'
    BY <1>4, <1>10, <1>12, <2>1, <2>2 DEF IInv, SteadyAlive, Steady, Alive
  <2>8. \A t \in Threads : S[t] = "Dead" => State'[t] = "Dead"
    BY <1>4, <2>1, <2>2
  <2> QED  BY <2>2, <2>4, <2>5, <2>6, <2>7, <2>8 DEF IInv
<1>16. CASE next # curr /\ next # NULL
  <2>1. /\ next \in Workers \cup {Idle} /\ next \in Threads
        /\ next = Idle => q = <<>> /\ gRunQueue' = <<>>
    BY <1>1, <1>5, <1>6, <1>16 DEF Threads
  <2>2. S[next] # "Dead"
    <3>1. CASE next = Idle
      BY <1>2, <3>1 DEF IInv, Phases, Threads
    <3>2. CASE next # Idle
      BY <1>1, <1>3, <1>4, <1>5, <1>6, <1>16, <2>1, <3>2
    <3> QED  BY <3>1, <3>2
  <2>3. phase' = "run" /\ State' = [T EXCEPT ![next] = "Running"] /\ CurrentThread' = next
    BY <1>5, <1>16 DEF SwitchTo
  <2>4. /\ \A t \in Threads : State'[t] = IF t = next THEN "Running" ELSE T[t]
        /\ State'[next] = "Running"
    BY <1>4, <2>1, <2>3
  <2>5. TypeOK'
    BY <1>4, <1>5, <2>1, <2>3 DEF IInv, TypeOK, ThreadState
  <2>6. Queue' /\ Phases'
    BY <1>5, <1>6, <1>12, <2>1, <2>3, <2>4 DEF Queue, Phases, Threads
  <2>7. ASSUME NEW v \in Workers, Lost(v)'
        PROVE  \A u \in Workers : Alive(u)' => u = v
    <3>1. v # next /\ v \notin Elems(q) /\ v \in Threads /\ State'[v] = T[v] /\ Alive(v)'
      BY <1>1, <1>5, <2>3, <2>4, <2>7 DEF Lost, Threads
    <3>2. v = curr
      BY <1>3, <1>9, <1>10, <3>1 DEF Alive
    <3>3. ~ready /\ phase = "run" /\ S[curr] = "Ready"
      BY <1>2, <1>3, <1>4, <3>1, <3>2 DEF Alive
    <3>4. next = Idle
      BY <1>1, <1>3, <1>5, <1>11, <1>13, <1>16, <3>3
    <3> QED  BY <1>10, <1>13, <2>4, <3>2, <3>3, <3>4 DEF Alive
  <2>8. Alone'
    BY <2>3, <2>4, <2>7 DEF Alone, LostOnlyWhenAlone, NullOnlyWhenAlone
  <2>9. SteadyAlive'
    BY <1>4, <1>10, <1>12, <2>1, <2>3, <2>4 DEF IInv, SteadyAlive, Steady, Alive
  <2>10. \A t \in Threads : S[t] = "Dead" => State'[t] = "Dead" /\ CurrentThread' # t
    BY <1>4, <2>2, <2>3, <2>4
  <2> QED  BY <2>5, <2>6, <2>8, <2>9, <2>10 DEF IInv
<1> QED  BY <1>14, <1>15, <1>16

LEMMA StartStep ==
  ASSUME IInv, Start
  PROVE  IInv'
<1>1. State \in [Threads -> ThreadState]
  BY DEF IInv, TypeOK
<1> QED  BY <1>1, DoYieldStep DEF Start

LEMMA YieldStep ==
  ASSUME IInv, Yield
  PROVE  IInv'
<1>1. State \in [Threads -> ThreadState] /\ toCreate = {}
  BY DEF Yield, IInv, TypeOK, Phases
<1> QED  BY <1>1, DoYieldStep DEF Yield

LEMMA ThreadExitStep ==
  ASSUME IInv, ThreadExit
  PROVE  IInv'
<1> DEFINE S == [State EXCEPT ![CurrentThread] = "Dead"]
<1>1. CurrentThread \in Threads /\ toCreate = {}
  BY ThreadsAssumption DEF ThreadExit, IInv, Phases, Threads
<1>2. /\ S \in [Threads -> ThreadState] /\ S[CurrentThread] = "Dead"
      /\ \A t \in Threads : t # CurrentThread => S[t] = State[t]
  BY <1>1 DEF IInv, TypeOK, ThreadState
<1>3. DoYield(S) /\ phase = "run" /\ CurrentThread \in MayExit
  BY DEF ThreadExit
<1> HIDE DEF S
<1> QED  BY <1>1, <1>2, <1>3, DoYieldStep DEF ThreadExit

LEMMA NextIInv ==
  ASSUME IInv, [Next]_vars
  PROVE  IInv'
<1>1. ASSUME UNCHANGED <<phase, State, CurrentThread, gIdleThread, gRunQueue, toCreate>>,
             gNeedReschedule' \in BOOLEAN
      PROVE  IInv'
  <2>1. \A w \in Workers : (Alive(w)' <=> Alive(w)) /\ (Lost(w)' <=> Lost(w))
    BY <1>1 DEF Alive, Lost, Queued
  <2> QED  BY <1>1, <2>1 DEF IInv, TypeOK, Queue, Phases, Alone, LostOnlyWhenAlone,
                             NullOnlyWhenAlone, SteadyAlive, Steady
<1>2. CASE UNCHANGED vars
  BY <1>1, <1>2 DEF vars, IInv, TypeOK
<1>3. CASE OnTimerTick
  BY <1>1, <1>3 DEF OnTimerTick
<1>4. CASE PanicEx
  BY <1>2, <1>4 DEF PanicEx
<1> QED  BY <1>2, <1>3, <1>4, InitStep, CreateAndEnqueueStep, StartStep, YieldStep,
            ThreadExitStep DEF Next, Boot

LEMMA AlwaysIInv == Spec => []IInv
BY InitIInv, NextIInv, PTL DEF Spec
-------------------------------------------------------------------------------
(* EnqueueReady always gets a thread that is not queued: what RunQueue::Push *)
(* relies on.                                                                *)
THEOREM QueueIsAlwaysSound == Spec => []QueueIsSound
<1>1. IInv => QueueIsSound
  <2> SUFFICES ASSUME IInv PROVE QueueIsSound
    OBVIOUS
  <2>1. \A k \in 1 .. Len(gRunQueue) : gRunQueue[k] \in Elems(gRunQueue)
    BY DEF IInv, TypeOK, Elems
  <2> QED  BY <2>1 DEF IInv, Queue, Distinct, QueueIsSound
<1> QED  BY <1>1, AlwaysIInv, PTL

(* Whatever fails and whoever exits, Yield loses a worker only when it is    *)
(* the last one alive.                                                       *)
THEOREM OnlyTheLastIsLost == Spec => []LostOnlyWhenAlone
<1>1. IInv => LostOnlyWhenAlone
  BY DEF IInv, Alone
<1> QED  BY <1>1, AlwaysIInv, PTL

(* Whatever fails and whoever exits, SwitchTo is given nullptr only when     *)
(* there is no idle thread and at most one worker is alive.                  *)
THEOREM NullIsRunOnlyWhenAlone == Spec => []NullOnlyWhenAlone
<1>1. IInv => NullOnlyWhenAlone
  BY DEF IInv, Alone
<1> QED  BY <1>1, AlwaysIInv, PTL

(* With two steady workers no worker is ever lost, the CPU never idles and   *)
(* no null thread is switched to, for any number of workers.                 *)
THEOREM NoThreadIsEverLost ==
  ASSUME TwoSteadyWorkers
  PROVE  Spec => []NoThreadIsLost
<1>1. IInv => NoThreadIsLost
  <2> SUFFICES ASSUME IInv, phase \in {"run", "crash"}
               PROVE  /\ phase = "run" /\ CurrentThread \in Workers
                      /\ State[CurrentThread] = "Running"
                      /\ \A w \in Workers : ~Lost(w)
    BY DEF NoThreadIsLost
  <2>1. PICK a, b \in Steady : a # b
    BY DEF TwoSteadyWorkers
  <2>2. a \in Workers /\ b \in Workers /\ Alive(a) /\ Alive(b)
    BY <2>1 DEF IInv, Phases, SteadyAlive, Steady
  <2>3. \A w \in Workers : ~Lost(w)
    BY Zenon, <2>1, <2>2 DEF IInv, Alone, LostOnlyWhenAlone
  <2>4. phase = "run"
    BY <2>1, <2>2 DEF IInv, Alone, NullOnlyWhenAlone
  <2>5. CurrentThread # Idle
    <3> SUFFICES ASSUME CurrentThread = Idle PROVE FALSE
      OBVIOUS
    <3>1. Queued = {}
      BY <2>4 DEF IInv, Phases, Queued
    <3> QED  BY <2>2, <2>3, <3>1, ThreadsAssumption DEF Lost
  <2> QED  BY <2>1, <2>2, <2>3, <2>4, <2>5 DEF IInv, Phases, Alone
<1> QED  BY <1>1, AlwaysIInv, PTL

(* A thread that has exited stays dead and is never switched to. *)
THEOREM TheDeadStayDead == Spec => DeadStaysDead
<1> DEFINE Step == \A t \in Threads : State[t] = "Dead" =>
                     State'[t] = "Dead" /\ (phase' = "run" => CurrentThread' # t)
       Exits == ThreadExit =>
                  State'[CurrentThread] = "Dead" /\ (phase' = "run" => CurrentThread' # CurrentThread)
<1>0. ASSUME IInv, ThreadExit PROVE Step /\ Exits
  <2> USE <1>0, ThreadsAssumption
  <2>2. State \in [Threads -> ThreadState]
    BY DEF IInv, TypeOK
  <2> DEFINE S == [State EXCEPT ![CurrentThread] = "Dead"]
  <2>3. CurrentThread \in Threads /\ toCreate = {}
    BY DEF ThreadExit, IInv, Phases, Threads
  <2>4. /\ S \in [Threads -> ThreadState] /\ S[CurrentThread] = "Dead"
        /\ \A t \in Threads : t # CurrentThread => S[t] = State[t]
    BY <2>2, <2>3 DEF ThreadState
  <2>5. DoYield(S) /\ phase = "run" /\ CurrentThread \in MayExit
    BY DEF ThreadExit
  <2>6. \A t \in Threads : State[t] = "Dead" => S[t] = "Dead"
    BY <2>4
  <2> HIDE DEF S
  <2> QED  BY <2>3, <2>4, <2>5, <2>6, DoYieldStep DEF ThreadExit
<1>1. ASSUME IInv, [Next]_vars PROVE [Step]_vars
  <2> USE <1>1, ThreadsAssumption
  <2>1. CASE Init \/ OnTimerTick \/ PanicEx \/ \E t \in Workers : CreateAndEnqueue(t)
    <3>1. CASE Init
      BY <3>1 DEF Init, IInv, Phases
    <3>2. ASSUME NEW t \in Workers, CreateAndEnqueue(t) PROVE Step
      <4>1. State[t] = "Init" /\ phase' # "run" /\ (State' = State \/ State' = [State EXCEPT ![t] = "Ready"])
        BY <3>2 DEF CreateAndEnqueue, IInv, Phases
      <4> QED  BY <4>1 DEF IInv, TypeOK
    <3>3. CASE OnTimerTick \/ PanicEx
      BY <3>3 DEF OnTimerTick, PanicEx, vars, IInv, Phases
    <3> QED  BY <2>1, <3>1, <3>2, <3>3
  <2>2. State \in [Threads -> ThreadState]
    BY DEF IInv, TypeOK
  <2>3. CASE Start
    BY <2>2, <2>3, DoYieldStep DEF Start
  <2>4. CASE Yield
    BY <2>2, <2>4, DoYieldStep DEF Yield, IInv, Phases
  <2>5. CASE ThreadExit
    BY <1>0, <2>5
  <2> QED  BY <2>1, <2>3, <2>4, <2>5 DEF Next, Boot
<1>2. ASSUME IInv, [Next]_vars PROVE [Exits /\ Step]_vars
  BY <1>0, <1>1, <1>2
<1> QED  BY <1>2, AlwaysIInv, PTL DEF Spec, DeadStaysDead

(* The current thread, the queue and the states of the threads have their   *)
(* types; in particular only workers are ever queued.                       *)
THEOREM TypeCorrect == Spec => []TypeOK
<1>1. IInv => TypeOK
  BY DEF IInv
<1> QED  BY <1>1, AlwaysIInv, PTL

(* A switch takes the head of the queue and moves the others up by one,      *)
(* whether or not the current thread was queued behind them.                 *)
LEMMA OthersMoveUp ==
  ASSUME gRunQueue \in Seq(Workers), NEW tail_ \in Seq(Workers), NEW states,
         NEW q \in Seq(Workers), q = gRunQueue \o tail_,
         DequeueNext(q, states), CurrentThread' # CurrentThread,
         NEW k \in 1 .. Len(gRunQueue)
  PROVE  IF k = 1 THEN CurrentThread' = gRunQueue[1]
                  ELSE k - 1 <= Len(gRunQueue') /\ gRunQueue'[k - 1] = gRunQueue[k]
<1>1. /\ Len(gRunQueue) \in Nat /\ Len(q) \in Nat /\ Len(q) >= Len(gRunQueue)
      /\ \A m \in 1 .. Len(gRunQueue) : q[m] = gRunQueue[m]
      /\ q # <<>> /\ Head(q) = q[1]
  OBVIOUS
<1>2. gRunQueue' = Tail(q) /\ CurrentThread' = Head(q)
  BY <1>1 DEF DequeueNext, SwitchTo
<1>3. Len(Tail(q)) = Len(q) - 1 /\ \A m \in 1 .. Len(q) - 1 : Tail(q)[m] = q[m + 1]
  BY <1>1
<1>4. CASE k = 1
  BY <1>1, <1>2, <1>4
<1>5. CASE k # 1
  <2>1. k - 1 \in 1 .. Len(q) - 1 /\ k - 1 + 1 = k
    BY <1>1, <1>5
  <2>2. Tail(q)[k - 1] = q[k]
    BY <1>3, <2>1
  <2> QED  BY <1>1, <1>2, <1>3, <1>5, <2>1, <2>2
<1> QED  BY <1>4, <1>5

(* RoundRobin for any number of workers, with any creations that fail and    *)
(* any entries that return: DequeueNext takes them in their order.           *)
THEOREM WorkersTakeTurns == Spec => RoundRobin
<1> DEFINE Turn ==
      phase = "run" /\ CurrentThread' # CurrentThread =>
        \A k \in 1 .. Len(gRunQueue) :
          IF k = 1 THEN CurrentThread' = gRunQueue[1]
                   ELSE k - 1 <= Len(gRunQueue') /\ gRunQueue'[k - 1] = gRunQueue[k]
<1>1. ASSUME IInv, NEW states, DoYield(states), CurrentThread \in Workers, CurrentThread' # CurrentThread
      PROVE  Turn
  <2>1. gRunQueue \in Seq(Workers) /\ <<CurrentThread>> \in Seq(Workers) /\ <<>> \in Seq(Workers)
    BY <1>1 DEF IInv, TypeOK
  <2>2. /\ gRunQueue = gRunQueue \o <<>>
        /\ Append(gRunQueue, CurrentThread) = gRunQueue \o <<CurrentThread>>
        /\ Append(gRunQueue, CurrentThread) \in Seq(Workers)
    BY <1>1, <2>1
  <2>3. \/ DequeueNext(gRunQueue, states)
        \/ DequeueNext(Append(gRunQueue, CurrentThread), [states EXCEPT ![CurrentThread] = "Ready"])
    BY <1>1 DEF DoYield
  <2> QED  BY Zenon, <1>1, <2>1, <2>2, <2>3, OthersMoveUp
<1>2. ASSUME IInv, [Next]_vars  PROVE [Turn]_vars
  <2>1. CASE Yield
    BY <1>1, <1>2, <2>1 DEF Yield
  <2>2. CASE ThreadExit
    BY <1>1, <1>2, <2>2, ThreadsAssumption DEF ThreadExit
  <2>3. CASE Boot \/ OnTimerTick \/ PanicEx
    BY <2>3 DEF Boot, Init, Start, CreateAndEnqueue, OnTimerTick, PanicEx, vars
  <2> QED  BY <1>2, <2>1, <2>2, <2>3 DEF Next
<1> QED  BY <1>2, AlwaysIInv, PTL DEF Spec, RoundRobin

-------------------------------------------------------------------------------
(* RefPtr: proofs for any objects and pointers. *)

(* What is used of the cardinality of finite sets.  It is assumed until the  *)
(* end of the module, where the library's theorems prove it.                 *)
FiniteSetFacts ==
  /\ Cardinality({}) = 0
  /\ \A S : IsFiniteSet(S) =>
       /\ Cardinality(S) \in Nat
       /\ Cardinality(S) = 0 => S = {}
       /\ \A T \in SUBSET S : IsFiniteSet(T)
       /\ \A x : x \notin S => Cardinality(S \cup {x}) = Cardinality(S) + 1

(* How many of the pointers hold x when they are p. *)
HowMany(p, x) == Cardinality({u \in Pointers : p[u] = x})

Held == [Pointers -> Objects \cup {nullptr}]

(* The inductive invariant.  An object is gone exactly when it was made and  *)
(* its count is back at 0.                                                   *)
RefInv ==
  /\ m_RefCount \in [Objects -> Nat] /\ plain \in [Objects -> Nat]
  /\ deleted \in [Objects -> Nat]
  /\ made \in SUBSET Objects /\ m_Ptr \in Held
  /\ \A x \in Objects :
       /\ m_RefCount[x] = HowMany(m_Ptr, x) + plain[x]
       /\ deleted[x] = IF x \in made /\ m_RefCount[x] = 0 THEN 1 ELSE 0
       /\ m_RefCount[x] > 0 => x \in made

(* One pointer gets another value: one holder less and one more. *)
Recounted(p, q, r, w, x) ==
  /\ HowMany(p, x) \in Nat /\ HowMany(q, x) \in Nat
  /\ p[r] = x => HowMany(p, x) > 0
  /\ HowMany(q, x) =
       HowMany(p, x) - (IF p[r] = x THEN 1 ELSE 0) + (IF w = x THEN 1 ELSE 0)

LEMMA HowManyAfterSet ==
  ASSUME FiniteSetFacts, NEW p \in Held, NEW r \in Pointers, NEW w \in Objects \cup {nullptr},
         NEW x \in Objects, NEW q \in Held, q[r] = w, \A u \in Pointers \ {r} : q[u] = p[u]
  PROVE  Recounted(p, q, r, w, x)
<1> DEFINE others == {u \in Pointers \ {r} : p[u] = x}
           before_ == {u \in Pointers : p[u] = x}
           after_ == {u \in Pointers : q[u] = x}
<1>1. /\ before_ = IF p[r] = x THEN others \cup {r} ELSE others
      /\ after_ = IF w = x THEN others \cup {r} ELSE others
      /\ r \notin others
  BY Zenon DEF Held
<1>2. IsFiniteSet(others)
  <2>1. others \in SUBSET Pointers
    OBVIOUS
  <2> HIDE DEF others
  <2> QED  BY <2>1, RefPtrAssumption DEF FiniteSetFacts
<1>3. /\ Cardinality(others) \in Nat
      /\ Cardinality(others \cup {r}) = Cardinality(others) + 1
  <2> HIDE DEF others
  <2> QED  BY Zenon, <1>1, <1>2 DEF FiniteSetFacts
<1>4. /\ Cardinality(before_) = Cardinality(others) + (IF p[r] = x THEN 1 ELSE 0)
      /\ Cardinality(after_) = Cardinality(others) + (IF w = x THEN 1 ELSE 0)
  <2> HIDE DEF others, before_, after_
  <2> QED  BY <1>1, <1>3
<1> HIDE DEF others
<1>5. HowMany(p, x) = Cardinality(before_) /\ HowMany(q, x) = Cardinality(after_)
  BY Zenon DEF HowMany
<1> HIDE DEF before_, after_
<1>6. /\ HowMany(p, x) \in Nat /\ HowMany(q, x) \in Nat
      /\ p[r] = x => HowMany(p, x) > 0
      /\ HowMany(q, x) = HowMany(p, x) - (IF p[r] = x THEN 1 ELSE 0) + (IF w = x THEN 1 ELSE 0)
  BY <1>3, <1>4, <1>5
<1> QED  BY Zenon, <1>6 DEF Recounted

(* What a pointer holds has a holder. *)
LEMMA HolderCounts ==
  ASSUME FiniteSetFacts, NEW p \in Held, NEW r \in Pointers, NEW x \in Objects, p[r] = x
  PROVE  HowMany(p, x) > 0
<1>1. Recounted(p, p, r, x, x)
  BY Zenon, HowManyAfterSet
<1> QED  BY Zenon, <1>1 DEF Recounted

(* Two pointers that hold the same object are two holders. *)
LEMMA TwoHolders ==
  ASSUME FiniteSetFacts, NEW p \in Held, NEW r \in Pointers, NEW v \in Pointers, r # v,
         NEW x \in Objects, p[r] = x, p[v] = x
  PROVE  HowMany(p, x) >= 2
<1>1. PICK q \in Held : q[r] = nullptr /\ \A u \in Pointers \ {r} : q[u] = p[u]
  <2>1. [p EXCEPT ![r] = nullptr] \in Held
    BY DEF Held
  <2> QED  BY Zenon, <2>1 DEF Held
<1>2. q[v] = x /\ nullptr # x /\ nullptr \in Objects \cup {nullptr}
  BY <1>1, RefPtrAssumption
<1>3. HowMany(q, x) = HowMany(p, x) - 1 /\ HowMany(p, x) \in Nat
  <2>1. Recounted(p, q, r, nullptr, x)
    BY Zenon, <1>1, <1>2, HowManyAfterSet
  <2> QED  BY <1>2, <2>1 DEF Recounted
<1>4. HowMany(q, x) > 0
  BY Zenon, <1>2, HolderCounts
<1> QED  BY <1>3, <1>4

(* A move: what the target held has one holder less. *)
LEMMA HowManyAfterMove ==
  ASSUME FiniteSetFacts, NEW p \in Held, NEW r \in Pointers, NEW v \in Pointers, r # v,
         NEW x \in Objects,
         NEW q \in Held, q[r] = p[v], q[v] = nullptr,
         \A u \in Pointers \ {r, v} : q[u] = p[u]
  PROVE  HowMany(q, x) = HowMany(p, x) - (IF p[r] = x THEN 1 ELSE 0)
<1>1. p[v] \in Objects \cup {nullptr} /\ nullptr \in Objects \cup {nullptr} /\ nullptr # x
  BY RefPtrAssumption DEF Held
<1>2. PICK h \in Held : h[r] = p[v] /\ \A u \in Pointers \ {r} : h[u] = p[u]
  <2>1. [p EXCEPT ![r] = p[v]] \in Held
    BY DEF Held
  <2> QED  BY Zenon, <2>1 DEF Held
<1>3. h[v] = p[v] /\ \A u \in Pointers \ {v} : q[u] = h[u]
  BY Zenon, <1>2
<1>4. /\ HowMany(h, x) = HowMany(p, x) - (IF p[r] = x THEN 1 ELSE 0) + (IF p[v] = x THEN 1 ELSE 0)
      /\ HowMany(p, x) \in Nat /\ HowMany(h, x) \in Nat
  <2>1. Recounted(p, h, r, p[v], x)
    BY Zenon, <1>1, <1>2, HowManyAfterSet
  <2> QED  BY Zenon, <2>1 DEF Recounted
<1>5. HowMany(q, x) = HowMany(h, x) - (IF h[v] = x THEN 1 ELSE 0) + (IF nullptr = x THEN 1 ELSE 0)
  <2>1. Recounted(h, q, v, nullptr, x)
    BY Zenon, <1>1, <1>3, HowManyAfterSet
  <2> QED  BY Zenon, <2>1 DEF Recounted
<1> QED  BY <1>1, <1>3, <1>4, <1>5

(* A step keeps the invariant if it keeps it of every object. *)
LEMMA ByObject ==
  ASSUME made' \in SUBSET Objects, m_Ptr' \in Held,
         m_RefCount' = [x \in Objects |-> m_RefCount'[x]],
         plain' = [x \in Objects |-> plain'[x]],
         deleted' = [x \in Objects |-> deleted'[x]],
         \A x \in Objects :
           /\ plain'[x] \in Nat /\ HowMany(m_Ptr', x) \in Nat
           /\ m_RefCount'[x] = HowMany(m_Ptr', x) + plain'[x]
           /\ deleted'[x] = IF x \in made' /\ m_RefCount'[x] = 0 THEN 1 ELSE 0
           /\ m_RefCount'[x] > 0 => x \in made'
  PROVE  RefInv'
<1>1. \A x \in Objects : m_RefCount'[x] \in Nat /\ deleted'[x] \in Nat
  OBVIOUS
<1> QED  BY Zenon, <1>1 DEF RefInv, HowMany, Held

(* What the invariant says of one object. *)
LEMMA OfOneObject ==
  ASSUME FiniteSetFacts, RefInv, NEW x \in Objects
  PROVE  /\ m_RefCount[x] \in Nat /\ plain[x] \in Nat /\ deleted[x] \in Nat
         /\ HowMany(m_Ptr, x) \in Nat
         /\ m_RefCount[x] = HowMany(m_Ptr, x) + plain[x]
         /\ deleted[x] = IF x \in made /\ m_RefCount[x] = 0 THEN 1 ELSE 0
         /\ m_RefCount[x] > 0 => x \in made
<1>1. HowMany(m_Ptr, x) \in Nat
  <2> DEFINE T == {u \in Pointers : m_Ptr[u] = x}
  <2>1. T \in SUBSET Pointers
    OBVIOUS
  <2> HIDE DEF T
  <2>2. Cardinality(T) \in Nat
    BY <2>1, RefPtrAssumption DEF FiniteSetFacts
  <2> QED  BY <2>2 DEF HowMany, T
<1> QED  BY <1>1 DEF RefInv

(* What AddRef and Release make of the count of each object. *)
LEMMA CountAfter ==
  ASSUME NEW count, NEW a, NEW x \in Objects, count[x] \in Nat
  PROVE  /\ AddRef(count, a)[x] = count[x] + (IF a = x THEN 1 ELSE 0)
         /\ Drop(count, a)[x] = count[x] - (IF a = x THEN 1 ELSE 0)
BY DEF AddRef, Drop

LEMMA DeletedAfter ==
  ASSUME NEW a, DeleteIfLast(a), NEW x \in Objects, deleted[x] \in Nat
  PROVE  deleted'[x] = deleted[x] + (IF a = x /\ m_RefCount[x] = 1 THEN 1 ELSE 0)
BY SMTT(20) DEF DeleteIfLast

LEMMA NewStep ==
  ASSUME FiniteSetFacts, RefInv, NEW a \in Objects, New(a)
  PROVE  RefInv'
<1>1. /\ a \notin made /\ made' = made \cup {a} /\ m_Ptr' = m_Ptr /\ deleted' = deleted
      /\ m_RefCount' = [m_RefCount EXCEPT ![a] = 1] /\ plain' = [plain EXCEPT ![a] = 1]
      /\ made \in SUBSET Objects /\ m_Ptr \in Held /\ deleted \in [Objects -> Nat]
      /\ m_RefCount \in [Objects -> Nat] /\ plain \in [Objects -> Nat]
  BY Zenon DEF New, RefInv
<1>2. ASSUME NEW x \in Objects
      PROVE  /\ plain'[x] \in Nat /\ HowMany(m_Ptr', x) \in Nat
             /\ m_RefCount'[x] = HowMany(m_Ptr', x) + plain'[x]
             /\ deleted'[x] = IF x \in made' /\ m_RefCount'[x] = 0 THEN 1 ELSE 0
             /\ m_RefCount'[x] > 0 => x \in made'
  <2>1. /\ m_RefCount[x] \in Nat /\ plain[x] \in Nat /\ HowMany(m_Ptr, x) \in Nat
        /\ m_RefCount[x] = HowMany(m_Ptr, x) + plain[x]
        /\ deleted[x] = IF x \in made /\ m_RefCount[x] = 0 THEN 1 ELSE 0
        /\ m_RefCount[x] > 0 => x \in made
    BY Zenon, OfOneObject
  <2>2. HowMany(m_Ptr', x) = HowMany(m_Ptr, x)
    BY <1>1
  <2>3. CASE x = a
    BY <1>1, <2>1, <2>2, <2>3
  <2>4. CASE x # a
    BY <1>1, <2>1, <2>2, <2>4
  <2> QED  BY Zenon, <2>3, <2>4
<1>3. /\ m_RefCount' = [x \in Objects |-> m_RefCount'[x]]
      /\ plain' = [x \in Objects |-> plain'[x]]
      /\ deleted' = [x \in Objects |-> deleted'[x]]
  BY Zenon, <1>1
<1> QED  BY <1>1, <1>2, <1>3, ByObject

(* After new, a step keeps the invariant if each count moves with its        *)
(* holders, no count comes back from 0, and the one that reaches 0 is the    *)
(* one whose object is deleted.                                              *)
LEMMA CountsMoveWithHolders ==
  ASSUME FiniteSetFacts, RefInv, made' = made, m_Ptr' \in Held,
         m_RefCount' = [x \in Objects |-> m_RefCount'[x]],
         plain' = [x \in Objects |-> plain'[x]],
         deleted' = [x \in Objects |-> deleted'[x]],
         \A x \in Objects :
           /\ plain'[x] \in Nat /\ HowMany(m_Ptr', x) \in Nat
           /\ m_RefCount'[x] = HowMany(m_Ptr', x) + plain'[x]
           /\ m_RefCount[x] = 0 => m_RefCount'[x] = 0
           /\ deleted'[x] =
                deleted[x] + IF m_RefCount[x] > 0 /\ m_RefCount'[x] = 0 THEN 1 ELSE 0
  PROVE  RefInv'
<1>1. made \in SUBSET Objects
  BY Zenon DEF RefInv
<1>2. ASSUME NEW x \in Objects
      PROVE  /\ deleted'[x] = IF x \in made' /\ m_RefCount'[x] = 0 THEN 1 ELSE 0
             /\ m_RefCount'[x] > 0 => x \in made'
  <2>1. /\ m_RefCount[x] \in Nat /\ m_RefCount'[x] \in Nat
        /\ deleted[x] = IF x \in made /\ m_RefCount[x] = 0 THEN 1 ELSE 0
        /\ m_RefCount[x] > 0 => x \in made
    BY OfOneObject
  <2> QED  BY <2>1
<1> QED  BY Zenon, <1>1, <1>2, ByObject

(* The types that every step lemma starts from. *)
LEMMA RefTypes ==
  ASSUME RefInv
  PROVE  /\ m_RefCount \in [Objects -> Nat] /\ plain \in [Objects -> Nat]
         /\ deleted \in [Objects -> Nat] /\ made \in SUBSET Objects /\ m_Ptr \in Held
BY DEF RefInv

LEMMA ConstructStep ==
  ASSUME FiniteSetFacts, RefInv, NEW r \in Pointers, NEW a \in Objects, Construct(r, a)
  PROVE  RefInv'
<1>1. /\ m_Ptr[r] = nullptr /\ m_RefCount[a] > 0
      /\ m_Ptr' = [m_Ptr EXCEPT ![r] = a] /\ m_RefCount' = AddRef(m_RefCount, a)
      /\ made' = made /\ deleted' = deleted /\ plain' = plain
  BY DEF Construct, Set
<1>2. m_Ptr' \in Held
  BY Zenon, <1>1, RefTypes DEF Held
<1>3. m_Ptr'[r] = a /\ \A u \in Pointers \ {r} : m_Ptr'[u] = m_Ptr[u]
  BY Zenon, <1>1, RefTypes DEF Held
<1>4. ASSUME NEW x \in Objects
      PROVE  /\ plain'[x] \in Nat /\ HowMany(m_Ptr', x) \in Nat
             /\ m_RefCount'[x] = HowMany(m_Ptr', x) + plain'[x]
             /\ m_RefCount[x] = 0 => m_RefCount'[x] = 0
             /\ deleted'[x] =
                  deleted[x] + IF m_RefCount[x] > 0 /\ m_RefCount'[x] = 0 THEN 1 ELSE 0
  <2>1. HowMany(m_Ptr', x) = HowMany(m_Ptr, x) + (IF a = x THEN 1 ELSE 0)
    <3>1. HowMany(m_Ptr', x) =
            HowMany(m_Ptr, x) - (IF m_Ptr[r] = x THEN 1 ELSE 0) + (IF a = x THEN 1 ELSE 0)
      <4>1. Recounted(m_Ptr, m_Ptr', r, a, x)
        BY Zenon, <1>2, <1>3, RefTypes, HowManyAfterSet
      <4> QED  BY Zenon, <4>1 DEF Recounted
    <3>2. m_Ptr[r] # x /\ HowMany(m_Ptr, x) \in Nat
      BY Zenon, <1>1, OfOneObject, RefPtrAssumption
    <3> QED  BY SMTT(20), <3>1, <3>2
  <2>2. m_RefCount'[x] = m_RefCount[x] + (IF a = x THEN 1 ELSE 0)
    BY Zenon, <1>1, OfOneObject, CountAfter
  <2>3. /\ m_RefCount[x] \in Nat /\ plain[x] \in Nat /\ deleted[x] \in Nat
        /\ HowMany(m_Ptr, x) \in Nat /\ m_RefCount[x] = HowMany(m_Ptr, x) + plain[x]
    BY Zenon, OfOneObject
  <2>4. plain'[x] = plain[x] /\ deleted'[x] = deleted[x] /\ (a = x => m_RefCount[x] > 0)
    BY Zenon, <1>1
  <2> QED  BY SMTT(20), <2>1, <2>2, <2>3, <2>4
<1>5. /\ m_RefCount' = [x \in Objects |-> m_RefCount'[x]]
      /\ plain' = [x \in Objects |-> plain'[x]]
      /\ deleted' = [x \in Objects |-> deleted'[x]]
  BY <1>1, RefTypes DEF AddRef
<1> QED  BY ZenonT(30), <1>1, <1>2, <1>4, <1>5, CountsMoveWithHolders

LEMMA CopyStep ==
  ASSUME FiniteSetFacts, RefInv, NEW r \in Pointers, NEW v \in Pointers, Copy(r, v)
  PROVE  RefInv'
<1>1. /\ m_Ptr[r] = nullptr /\ m_Ptr' = [m_Ptr EXCEPT ![r] = m_Ptr[v]]
      /\ m_RefCount' = AddRef(m_RefCount, m_Ptr[v])
      /\ made' = made /\ deleted' = deleted /\ plain' = plain
  BY DEF Copy, Set
<1>2. m_Ptr' \in Held /\ m_Ptr[v] \in Objects \cup {nullptr}
  BY <1>1, RefTypes DEF Held
<1>3. m_Ptr'[r] = m_Ptr[v] /\ \A u \in Pointers \ {r} : m_Ptr'[u] = m_Ptr[u]
  BY Zenon, <1>1, RefTypes DEF Held
<1>4. ASSUME NEW x \in Objects
      PROVE  /\ plain'[x] \in Nat /\ HowMany(m_Ptr', x) \in Nat
             /\ m_RefCount'[x] = HowMany(m_Ptr', x) + plain'[x]
             /\ m_RefCount[x] = 0 => m_RefCount'[x] = 0
             /\ deleted'[x] =
                  deleted[x] + IF m_RefCount[x] > 0 /\ m_RefCount'[x] = 0 THEN 1 ELSE 0
  <2>1. HowMany(m_Ptr', x) = HowMany(m_Ptr, x) + (IF m_Ptr[v] = x THEN 1 ELSE 0)
    <3>1. HowMany(m_Ptr', x) =
            HowMany(m_Ptr, x) - (IF m_Ptr[r] = x THEN 1 ELSE 0) + (IF m_Ptr[v] = x THEN 1 ELSE 0)
      <4>1. Recounted(m_Ptr, m_Ptr', r, m_Ptr[v], x)
        BY Zenon, <1>2, <1>3, RefTypes, HowManyAfterSet
      <4> QED  BY Zenon, <4>1 DEF Recounted
    <3>2. m_Ptr[r] # x /\ HowMany(m_Ptr, x) \in Nat
      BY Zenon, <1>1, OfOneObject, RefPtrAssumption
    <3> QED  BY <3>1, <3>2
  <2>2. m_RefCount'[x] = m_RefCount[x] + (IF m_Ptr[v] = x THEN 1 ELSE 0)
    BY <1>1, OfOneObject DEF AddRef
  <2>3. m_Ptr[v] = x => HowMany(m_Ptr, x) > 0
    BY Zenon, RefTypes, HolderCounts
  <2> QED  BY SMTT(20), <1>1, <2>1, <2>2, <2>3, OfOneObject
<1>5. /\ m_RefCount' = [x \in Objects |-> m_RefCount'[x]]
      /\ plain' = [x \in Objects |-> plain'[x]]
      /\ deleted' = [x \in Objects |-> deleted'[x]]
  BY <1>1, RefTypes DEF AddRef
<1> QED  BY Zenon, <1>1, <1>2, <1>4, <1>5, CountsMoveWithHolders

LEMMA MoveStep ==
  ASSUME FiniteSetFacts, RefInv, NEW r \in Pointers, NEW v \in Pointers, Move(r, v)
  PROVE  RefInv'
<1>1. /\ r # v /\ m_Ptr[r] = nullptr /\ m_Ptr' = [m_Ptr EXCEPT ![r] = m_Ptr[v], ![v] = nullptr]
      /\ m_RefCount' = m_RefCount /\ made' = made /\ deleted' = deleted /\ plain' = plain
  BY DEF Move
<1>2. m_Ptr' \in Held
  BY <1>1, RefTypes DEF Held
<1>3. /\ r # v /\ m_Ptr'[r] = m_Ptr[v] /\ m_Ptr'[v] = nullptr
      /\ \A u \in Pointers \ {r, v} : m_Ptr'[u] = m_Ptr[u]
  BY Zenon, <1>1, RefTypes DEF Held
<1>4. ASSUME NEW x \in Objects
      PROVE  /\ plain'[x] \in Nat /\ HowMany(m_Ptr', x) \in Nat
             /\ m_RefCount'[x] = HowMany(m_Ptr', x) + plain'[x]
             /\ m_RefCount[x] = 0 => m_RefCount'[x] = 0
             /\ deleted'[x] =
                  deleted[x] + IF m_RefCount[x] > 0 /\ m_RefCount'[x] = 0 THEN 1 ELSE 0
  <2>1. HowMany(m_Ptr', x) = HowMany(m_Ptr, x) - (IF m_Ptr[r] = x THEN 1 ELSE 0)
    BY <1>2, <1>3, RefTypes, HowManyAfterMove
  <2>2. m_Ptr[r] # x
    BY SMTT(20), <1>1, RefPtrAssumption
  <2>3. /\ m_RefCount[x] \in Nat /\ plain[x] \in Nat /\ deleted[x] \in Nat
        /\ HowMany(m_Ptr, x) \in Nat /\ m_RefCount[x] = HowMany(m_Ptr, x) + plain[x]
    BY Zenon, OfOneObject
  <2>4. plain'[x] = plain[x] /\ deleted'[x] = deleted[x] /\ m_RefCount'[x] = m_RefCount[x]
    BY Zenon, <1>1
  <2> QED  BY SMTT(20), <2>1, <2>2, <2>3, <2>4
<1>5. /\ m_RefCount' = [x \in Objects |-> m_RefCount'[x]]
      /\ plain' = [x \in Objects |-> plain'[x]]
      /\ deleted' = [x \in Objects |-> deleted'[x]]
  BY <1>1, RefTypes
<1> QED  BY Zenon, <1>1, <1>2, <1>4, <1>5, CountsMoveWithHolders

LEMMA DestroyStep ==
  ASSUME FiniteSetFacts, RefInv, NEW r \in Pointers, Destroy(r)
  PROVE  RefInv'
<1>1. /\ m_Ptr' = [m_Ptr EXCEPT ![r] = nullptr]
      /\ m_RefCount' = Drop(m_RefCount, m_Ptr[r]) /\ DeleteIfLast(m_Ptr[r])
      /\ made' = made /\ plain' = plain
  BY DEF Destroy, Set, Release
<1>2. m_Ptr' \in Held /\ nullptr \in Objects \cup {nullptr}
  BY <1>1, RefTypes DEF Held
<1>3. m_Ptr'[r] = nullptr /\ \A u \in Pointers \ {r} : m_Ptr'[u] = m_Ptr[u]
  BY Zenon, <1>1, RefTypes DEF Held
<1>4. ASSUME NEW x \in Objects
      PROVE  /\ plain'[x] \in Nat /\ HowMany(m_Ptr', x) \in Nat
             /\ m_RefCount'[x] = HowMany(m_Ptr', x) + plain'[x]
             /\ m_RefCount[x] = 0 => m_RefCount'[x] = 0
             /\ deleted'[x] =
                  deleted[x] + IF m_RefCount[x] > 0 /\ m_RefCount'[x] = 0 THEN 1 ELSE 0
  <2>1. /\ HowMany(m_Ptr', x) =
             HowMany(m_Ptr, x) - (IF m_Ptr[r] = x THEN 1 ELSE 0) + (IF nullptr = x THEN 1 ELSE 0)
        /\ HowMany(m_Ptr', x) \in Nat /\ nullptr # x
        /\ m_Ptr[r] = x => HowMany(m_Ptr, x) > 0
    <3>1. Recounted(m_Ptr, m_Ptr', r, nullptr, x) /\ nullptr # x
      BY Zenon, <1>2, <1>3, RefTypes, HowManyAfterSet, RefPtrAssumption
    <3> QED  BY Zenon, <3>1 DEF Recounted
  <2>2. m_RefCount'[x] = m_RefCount[x] - (IF m_Ptr[r] = x THEN 1 ELSE 0)
    BY <1>1, OfOneObject DEF Drop
  <2>3. deleted'[x] = deleted[x] + (IF m_Ptr[r] = x /\ m_RefCount[x] = 1 THEN 1 ELSE 0)
    BY ZenonT(30), <1>1, OfOneObject, DeletedAfter
  <2>4. /\ m_RefCount[x] \in Nat /\ plain[x] \in Nat /\ deleted[x] \in Nat
        /\ HowMany(m_Ptr, x) \in Nat /\ m_RefCount[x] = HowMany(m_Ptr, x) + plain[x]
    BY OfOneObject
  <2>5. plain'[x] = plain[x]
    BY <1>1
  <2>6. CASE m_Ptr[r] = x
    <3>1. /\ HowMany(m_Ptr', x) = HowMany(m_Ptr, x) - 1 + 0 /\ m_RefCount'[x] = m_RefCount[x] - 1
          /\ deleted'[x] = deleted[x] + IF m_RefCount[x] = 1 THEN 1 ELSE 0
      BY Zenon, <2>1, <2>2, <2>3, <2>6
    <3> QED  BY <2>1, <2>4, <2>5, <2>6, <3>1
  <2>7. CASE m_Ptr[r] # x
    <3>1. /\ HowMany(m_Ptr', x) = HowMany(m_Ptr, x) - 0 + 0 /\ m_RefCount'[x] = m_RefCount[x] - 0
          /\ deleted'[x] = deleted[x] + 0
      BY Zenon, <2>1, <2>2, <2>3, <2>7
    <3> QED  BY <2>4, <2>5, <3>1
  <2> QED  BY Zenon, <2>6, <2>7
<1>5. /\ m_RefCount' = [x \in Objects |-> m_RefCount'[x]]
      /\ plain' = [x \in Objects |-> plain'[x]]
      /\ deleted' = [x \in Objects |-> deleted'[x]]
  BY <1>1, RefTypes DEF Drop, DeleteIfLast
<1> QED  BY ZenonT(30), <1>1, <1>2, <1>4, <1>5, CountsMoveWithHolders

(* An assignment from a pointer to the same object: there are two holders,   *)
(* so that releasing the old object first does not delete it.                *)
LEMMA CopyAssignStep ==
  ASSUME FiniteSetFacts, RefInv, NEW r \in Pointers, NEW v \in Pointers, CopyAssign(r, v)
  PROVE  RefInv'
<1>1. /\ r # v /\ m_Ptr' = [m_Ptr EXCEPT ![r] = m_Ptr[v]]
      /\ m_RefCount' = AddRef(Drop(m_RefCount, m_Ptr[r]), m_Ptr[v]) /\ DeleteIfLast(m_Ptr[r])
      /\ made' = made /\ plain' = plain
  BY DEF CopyAssign, Set
<1>2. m_Ptr' \in Held /\ m_Ptr[v] \in Objects \cup {nullptr}
  BY <1>1, RefTypes DEF Held
<1>3. m_Ptr'[r] = m_Ptr[v] /\ \A u \in Pointers \ {r} : m_Ptr'[u] = m_Ptr[u]
  BY Zenon, <1>1, RefTypes DEF Held
<1>4. ASSUME NEW x \in Objects
      PROVE  /\ plain'[x] \in Nat /\ HowMany(m_Ptr', x) \in Nat
             /\ m_RefCount'[x] = HowMany(m_Ptr', x) + plain'[x]
             /\ m_RefCount[x] = 0 => m_RefCount'[x] = 0
             /\ deleted'[x] =
                  deleted[x] + IF m_RefCount[x] > 0 /\ m_RefCount'[x] = 0 THEN 1 ELSE 0
  <2>1. /\ HowMany(m_Ptr', x) =
             HowMany(m_Ptr, x) - (IF m_Ptr[r] = x THEN 1 ELSE 0) + (IF m_Ptr[v] = x THEN 1 ELSE 0)
        /\ HowMany(m_Ptr', x) \in Nat
    <3>1. Recounted(m_Ptr, m_Ptr', r, m_Ptr[v], x)
      BY Zenon, <1>2, <1>3, RefTypes, HowManyAfterSet
    <3> QED  BY Zenon, <3>1 DEF Recounted
  <2>2. m_Ptr[r] = x \/ m_Ptr[v] = x => HowMany(m_Ptr, x) > 0
    BY RefTypes, HolderCounts
  <2>3. m_Ptr[r] = x /\ m_Ptr[v] = x => HowMany(m_Ptr, x) >= 2
    BY Zenon, <1>1, RefTypes, TwoHolders
  <2>4. m_RefCount'[x] =
          m_RefCount[x] - (IF m_Ptr[r] = x THEN 1 ELSE 0) + (IF m_Ptr[v] = x THEN 1 ELSE 0)
    BY <1>1, OfOneObject DEF Drop, AddRef
  <2>5. deleted'[x] = deleted[x] + (IF m_Ptr[r] = x /\ m_RefCount[x] = 1 THEN 1 ELSE 0)
    BY ZenonT(30), <1>1, OfOneObject, DeletedAfter
  <2>6. /\ m_RefCount[x] \in Nat /\ plain[x] \in Nat /\ deleted[x] \in Nat
        /\ HowMany(m_Ptr, x) \in Nat /\ m_RefCount[x] = HowMany(m_Ptr, x) + plain[x]
    BY Zenon, OfOneObject
  <2>7. plain'[x] = plain[x]
    BY <1>1
  <2> QED  BY SMTT(20), <2>1, <2>2, <2>3, <2>4, <2>5, <2>6, <2>7
<1>5. /\ m_RefCount' = [x \in Objects |-> m_RefCount'[x]]
      /\ plain' = [x \in Objects |-> plain'[x]]
      /\ deleted' = [x \in Objects |-> deleted'[x]]
  BY <1>1, RefTypes DEF AddRef, DeleteIfLast
<1> QED  BY Zenon, <1>1, <1>2, <1>4, <1>5, CountsMoveWithHolders

LEMMA MoveAssignStep ==
  ASSUME FiniteSetFacts, RefInv, NEW r \in Pointers, NEW v \in Pointers, MoveAssign(r, v)
  PROVE  RefInv'
<1>1. /\ r # v /\ m_Ptr' = [m_Ptr EXCEPT ![r] = m_Ptr[v], ![v] = nullptr]
      /\ m_RefCount' = Drop(m_RefCount, m_Ptr[r]) /\ DeleteIfLast(m_Ptr[r])
      /\ made' = made /\ plain' = plain
  BY DEF MoveAssign, Release
<1>2. m_Ptr' \in Held
  BY <1>1, RefTypes DEF Held
<1>3. /\ r # v /\ m_Ptr'[r] = m_Ptr[v] /\ m_Ptr'[v] = nullptr
      /\ \A u \in Pointers \ {r, v} : m_Ptr'[u] = m_Ptr[u]
  BY Zenon, <1>1, RefTypes DEF Held
<1>4. ASSUME NEW x \in Objects
      PROVE  /\ plain'[x] \in Nat /\ HowMany(m_Ptr', x) \in Nat
             /\ m_RefCount'[x] = HowMany(m_Ptr', x) + plain'[x]
             /\ m_RefCount[x] = 0 => m_RefCount'[x] = 0
             /\ deleted'[x] =
                  deleted[x] + IF m_RefCount[x] > 0 /\ m_RefCount'[x] = 0 THEN 1 ELSE 0
  <2>1. HowMany(m_Ptr', x) = HowMany(m_Ptr, x) - (IF m_Ptr[r] = x THEN 1 ELSE 0)
    BY <1>2, <1>3, RefTypes, HowManyAfterMove
  <2>2. m_Ptr[r] = x => HowMany(m_Ptr, x) > 0
    BY RefTypes, HolderCounts
  <2>3. m_RefCount'[x] = m_RefCount[x] - (IF m_Ptr[r] = x THEN 1 ELSE 0)
    BY <1>1, OfOneObject DEF Drop
  <2>4. deleted'[x] = deleted[x] + (IF m_Ptr[r] = x /\ m_RefCount[x] = 1 THEN 1 ELSE 0)
    BY ZenonT(30), <1>1, OfOneObject, DeletedAfter
  <2>5. /\ m_RefCount[x] \in Nat /\ plain[x] \in Nat /\ deleted[x] \in Nat
        /\ HowMany(m_Ptr, x) \in Nat /\ m_RefCount[x] = HowMany(m_Ptr, x) + plain[x]
    BY OfOneObject
  <2>6. plain'[x] = plain[x]
    BY <1>1
  <2> QED  BY SMTT(20), <2>1, <2>2, <2>3, <2>4, <2>5, <2>6
<1>5. /\ m_RefCount' = [x \in Objects |-> m_RefCount'[x]]
      /\ plain' = [x \in Objects |-> plain'[x]]
      /\ deleted' = [x \in Objects |-> deleted'[x]]
  BY Zenon, <1>1, RefTypes DEF Drop, DeleteIfLast
<1> QED  BY Zenon, <1>1, <1>2, <1>4, <1>5, CountsMoveWithHolders

LEMMA QueryInterfaceStep ==
  ASSUME FiniteSetFacts, RefInv, NEW r \in Pointers, QueryInterface(r)
  PROVE  RefInv'
<1>1. PICK a \in Objects : a = m_Ptr[r]
  BY RefTypes DEF QueryInterface, Held
<1>2. /\ m_RefCount' = AddRef(m_RefCount, a) /\ plain' = [plain EXCEPT ![a] = @ + 1]
      /\ made' = made /\ deleted' = deleted /\ m_Ptr' = m_Ptr
  BY Zenon, <1>1 DEF QueryInterface
<1>3. HowMany(m_Ptr, a) > 0
  BY Zenon, <1>1, RefTypes, HolderCounts
<1>4. ASSUME NEW x \in Objects
      PROVE  /\ plain'[x] \in Nat /\ HowMany(m_Ptr', x) \in Nat
             /\ m_RefCount'[x] = HowMany(m_Ptr', x) + plain'[x]
             /\ m_RefCount[x] = 0 => m_RefCount'[x] = 0
             /\ deleted'[x] =
                  deleted[x] + IF m_RefCount[x] > 0 /\ m_RefCount'[x] = 0 THEN 1 ELSE 0
  <2>1. HowMany(m_Ptr', x) = HowMany(m_Ptr, x)
    BY <1>2
  <2>2. m_RefCount'[x] = m_RefCount[x] + (IF a = x THEN 1 ELSE 0)
    BY Zenon, <1>2, OfOneObject, CountAfter
  <2>3. plain'[x] = plain[x] + (IF a = x THEN 1 ELSE 0)
    BY SMTT(20), <1>2, RefTypes, OfOneObject
  <2>4. /\ m_RefCount[x] \in Nat /\ plain[x] \in Nat /\ deleted[x] \in Nat
        /\ HowMany(m_Ptr, x) \in Nat /\ m_RefCount[x] = HowMany(m_Ptr, x) + plain[x]
    BY OfOneObject
  <2>5. deleted'[x] = deleted[x]
    BY <1>2
  <2> QED  BY <1>3, <2>1, <2>2, <2>3, <2>4, <2>5
<1>5. /\ m_RefCount' = [x \in Objects |-> m_RefCount'[x]]
      /\ plain' = [x \in Objects |-> plain'[x]]
      /\ deleted' = [x \in Objects |-> deleted'[x]]
  BY Zenon, <1>2, RefTypes DEF AddRef
<1> QED  BY <1>2, <1>4, <1>5, RefTypes, CountsMoveWithHolders

LEMMA ReleasePlainStep ==
  ASSUME FiniteSetFacts, RefInv, NEW a \in Objects, ReleasePlain(a)
  PROVE  RefInv'
<1>1. /\ plain[a] > 0 /\ plain' = [plain EXCEPT ![a] = @ - 1]
      /\ m_RefCount' = Drop(m_RefCount, a) /\ DeleteIfLast(a)
      /\ made' = made /\ m_Ptr' = m_Ptr
  BY Zenon DEF ReleasePlain, Release
<1>2. ASSUME NEW x \in Objects
      PROVE  /\ plain'[x] \in Nat /\ HowMany(m_Ptr', x) \in Nat
             /\ m_RefCount'[x] = HowMany(m_Ptr', x) + plain'[x]
             /\ m_RefCount[x] = 0 => m_RefCount'[x] = 0
             /\ deleted'[x] =
                  deleted[x] + IF m_RefCount[x] > 0 /\ m_RefCount'[x] = 0 THEN 1 ELSE 0
  <2>1. HowMany(m_Ptr', x) = HowMany(m_Ptr, x)
    BY SMTT(20), <1>1
  <2>2. m_RefCount'[x] = m_RefCount[x] - (IF a = x THEN 1 ELSE 0)
    BY Zenon, <1>1, OfOneObject, CountAfter
  <2>3. plain'[x] = plain[x] - (IF a = x THEN 1 ELSE 0)
    BY <1>1, RefTypes, OfOneObject
  <2>4. deleted'[x] = deleted[x] + (IF a = x /\ m_RefCount[x] = 1 THEN 1 ELSE 0)
    BY ZenonT(30), <1>1, OfOneObject, DeletedAfter
  <2>5. /\ m_RefCount[x] \in Nat /\ plain[x] \in Nat /\ deleted[x] \in Nat
        /\ HowMany(m_Ptr, x) \in Nat /\ m_RefCount[x] = HowMany(m_Ptr, x) + plain[x]
    BY Zenon, OfOneObject
  <2>6. a = x => plain[x] > 0
    BY <1>1
  <2>7. CASE a = x
    <3>1. /\ m_RefCount'[x] = m_RefCount[x] - 1 /\ plain'[x] = plain[x] - 1
          /\ deleted'[x] = deleted[x] + IF m_RefCount[x] = 1 THEN 1 ELSE 0
      BY Zenon, <2>2, <2>3, <2>4, <2>7
    <3> QED  BY <2>1, <2>5, <2>6, <2>7, <3>1
  <2>8. CASE a # x
    <3>1. /\ m_RefCount'[x] = m_RefCount[x] - 0 /\ plain'[x] = plain[x] - 0
          /\ deleted'[x] = deleted[x] + 0
      BY Zenon, <2>2, <2>3, <2>4, <2>8
    <3> QED  BY <2>1, <2>5, <3>1
  <2> QED  BY Zenon, <2>7, <2>8
<1>3. /\ m_RefCount' = [x \in Objects |-> m_RefCount'[x]]
      /\ plain' = [x \in Objects |-> plain'[x]]
      /\ deleted' = [x \in Objects |-> deleted'[x]]
  BY Zenon, <1>1, RefTypes DEF Drop, DeleteIfLast
<1> QED  BY <1>1, <1>2, <1>3, RefTypes, CountsMoveWithHolders

LEMMA RefInvAlways ==
  ASSUME FiniteSetFacts
  PROVE  RefSpec => []RefInv
<1>1. RefInit => RefInv
  <2> SUFFICES ASSUME RefInit  PROVE RefInv
    OBVIOUS
  <2>1. ASSUME NEW x \in Objects  PROVE HowMany(m_Ptr, x) = 0
    <3>1. {u \in Pointers : m_Ptr[u] = x} = {}
      BY RefPtrAssumption DEF RefInit
    <3> QED  BY <3>1 DEF HowMany, FiniteSetFacts
  <2> QED  BY <2>1 DEF RefInit, RefInv, Held
<1>2. RefInv /\ [RefNext]_refVars => RefInv'
  <2> SUFFICES ASSUME RefInv, [RefNext]_refVars  PROVE RefInv'
    OBVIOUS
  <2>1. CASE UNCHANGED refVars
    BY Zenon, <2>1 DEF refVars, RefInv, HowMany, Held
  <2>2. CASE RefNext
    BY Zenon, <2>2, NewStep, ReleasePlainStep, ConstructStep, CopyStep, MoveStep, CopyAssignStep,
       MoveAssignStep, DestroyStep, QueryInterfaceStep DEF RefNext
  <2> QED  BY Zenon, <2>1, <2>2
<1> QED  BY <1>1, <1>2, PTL DEF RefSpec

LEMMA LastHolder ==
  ASSUME FiniteSetFacts, RefInv
  PROVE  DeletedExactlyWhenUnheld
<1> SUFFICES ASSUME NEW x \in Objects
             PROVE  /\ m_RefCount[x] = Cardinality(Holders(x)) + plain[x]
                    /\ deleted[x] =
                         IF x \in made /\ Holders(x) = {} /\ plain[x] = 0 THEN 1 ELSE 0
  BY DEF DeletedExactlyWhenUnheld
<1>1. Cardinality(Holders(x)) = HowMany(m_Ptr, x)
  BY DEF Holders, HowMany
<1>2. Holders(x) = {} <=> HowMany(m_Ptr, x) = 0
  <2>1. Holders(x) \in SUBSET Pointers
    BY DEF Holders
  <2>2. IsFiniteSet(Holders(x))
    BY Zenon, <2>1, RefPtrAssumption DEF FiniteSetFacts
  <2> QED  BY <1>1, <2>2 DEF FiniteSetFacts
<1> QED  BY SMTT(20), <1>1, <1>2, OfOneObject

FS == INSTANCE FiniteSetTheorems

(* The library's cardinality is that of the standard module. *)
LEMMA SameSets ==
  \A T : FS!Cardinality(T) = Cardinality(T) /\ (FS!IsFiniteSet(T) <=> IsFiniteSet(T))
BY DEF FS!IsFiniteSet, IsFiniteSet, FS!Cardinality, Cardinality

LEMMA FiniteSetFactsHold == FiniteSetFacts
<1>1. Cardinality({}) = 0 /\ \A S : IsFiniteSet(S) /\ Cardinality(S) = 0 => S = {}
  BY SameSets, FS!FS_EmptySet, Zenon
<1>2. \A S : IsFiniteSet(S) => Cardinality(S) \in Nat
  BY SameSets, FS!FS_CardinalityType, Zenon
<1>3. \A S : IsFiniteSet(S) => \A T \in SUBSET S : IsFiniteSet(T)
  BY SameSets, FS!FS_Subset, Zenon
<1>4. \A S, x : IsFiniteSet(S) /\ x \notin S => Cardinality(S \cup {x}) = Cardinality(S) + 1
  BY SameSets, FS!FS_AddElement, Zenon
<1> QED  BY <1>1, <1>2, <1>3, <1>4, Zenon DEF FiniteSetFacts

(* DeletedExactlyWhenUnheld for any objects, pointers and number of plain    *)
(* references: an object's count is always the number of its holders, and    *)
(* Release deletes it exactly once, in the step that takes the last away.    *)
THEOREM ObjectsGoWithTheirLastHolder == RefSpec => []DeletedExactlyWhenUnheld
<1>1. RefInv => DeletedExactlyWhenUnheld
  BY FiniteSetFactsHold, LastHolder
<1>2. RefSpec => []RefInv
  BY FiniteSetFactsHold, RefInvAlways
<1> QED  BY <1>1, <1>2, PTL
===============================================================================
