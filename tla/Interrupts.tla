------------------------------ MODULE Interrupts ------------------------------
(***************************************************************************)
(* One CPU taking interrupts: the local APIC with its request and          *)
(* in-service registers, the interrupt gates of the IDT, Dispatch and the  *)
(* handlers of InterruptDispatch.cpp, and OnTimer, which ends its          *)
(* interrupt itself before Dispatch ends it a second time.                 *)
(***************************************************************************)
EXTENDS Integers, Sequences, FiniteSets

CONSTANTS
  VEC_TIMER, VEC_SPURIOUS,
  Devices,     \* the other vectors the local APIC can be asked to deliver
  MaxRaised    \* bound: how many requests are made

ASSUME VectorsAssumption ==
  /\ VEC_TIMER \in 32 .. 254 /\ VEC_SPURIOUS = 255
  /\ Devices \subseteq 32 .. 254 /\ VEC_TIMER \notin Devices
  /\ MaxRaised \in Nat

Sources == Devices \cup {VEC_TIMER}
Vectors == Sources \cup {VEC_SPURIOUS}
Handlers == {"nullptr", "OnTimer", "OnIRQ0", "device"}

VARIABLES
  flag,            \* the interrupt flag of the CPU
  IRR, ISR,        \* requested and in-service vectors of the local APIC
  frames,          \* the interrupts being handled, the innermost last
  gHandlers,
  TickCount, gNeedReschedule,
  delivered,       \* auxiliary: timer interrupts delivered
  raised           \* requests made so far

tickVars == <<TickCount, gNeedReschedule>>
vars == <<flag, IRR, ISR, frames, gHandlers, tickVars, delivered, raised>>

Top == frames[Len(frames)]

Goto(to) == frames' = [frames EXCEPT ![Len(frames)].at = to]

At(pc) == frames # <<>> /\ Top.at = pc

(* main has run InitInterruptDispatch and InitTimerHandler and ends its      *)
(* critical section.                                                         *)
Init ==
  /\ flag = TRUE
  /\ IRR = {} /\ ISR = {} /\ frames = <<>>
  /\ gHandlers = [v \in Vectors |-> IF v = VEC_TIMER THEN "OnTimer" ELSE "nullptr"]
  /\ TickCount = 0 /\ gNeedReschedule = FALSE
  /\ delivered = 0 /\ raised = 0
-------------------------------------------------------------------------------
(* The local APIC and the CPU. *)

Class(v) == v \div 16

Raise(v) ==
  /\ raised < MaxRaised /\ raised' = raised + 1
  /\ IRR' = IRR \cup {v}
  /\ UNCHANGED <<flag, ISR, frames, gHandlers, tickVars, delivered>>

\* Wrong form: a trap gate, which leaves interrupts on.
TrapGate(v) ==
  /\ flag' = flag
  /\ frames' = Append(frames, [vec |-> v, at |-> "dispatch", saved |-> flag])

(* All gates are interrupt gates: the flag is saved and turned off. *)
InterruptGate(v) ==
  /\ flag' = FALSE
  /\ frames' = Append(frames, [vec |-> v, at |-> "dispatch", saved |-> flag])

(* The highest request is delivered unless one of its class is in service. *)
Deliver ==
  /\ flag
  /\ \E v \in IRR :
       /\ \A w \in IRR : w <= v
       /\ \A w \in ISR : Class(w) < Class(v)
       /\ IRR' = IRR \ {v} /\ ISR' = ISR \cup {v}
       /\ InterruptGate(v)
       /\ delivered' = IF v = VEC_TIMER THEN delivered + 1 ELSE delivered
  /\ UNCHANGED <<gHandlers, tickVars, raised>>

(* A request withdrawn in the middle of its delivery leaves the spurious     *)
(* vector, which is never in service.                                        *)
Spurious ==
  /\ flag /\ raised < MaxRaised /\ raised' = raised + 1
  /\ InterruptGate(VEC_SPURIOUS)
  /\ UNCHANGED <<IRR, ISR, gHandlers, tickVars, delivered>>

(* EndOfInterrupt, DefaultEOI: the highest vector in service is ended. *)
EndOfInterrupt == ISR' = {v \in ISR : \E w \in ISR : v < w}
-------------------------------------------------------------------------------
(* InterruptDispatch.cpp. *)

\* Wrong form: the vectors of the last class are left out.
NeedsEOIBelowF0(vec) == vec >= 32 /\ vec < 240

NeedsEOI(vec) == vec # VEC_SPURIOUS /\ vec >= 32 /\ vec <= 254

(* Dispatch up to the call of the handler.  Nothing is logged, for nothing   *)
(* sets gLogger, and nothing reads gVectorCounts, which are left out.        *)
Dispatch ==
  /\ At("dispatch")
  /\ Goto(gHandlers[Top.vec])
  /\ UNCHANGED <<flag, IRR, ISR, gHandlers, tickVars, delivered, raised>>

\* Wrong form: a tick that finds the flag of the last one set is not counted.
OnTimerMerges ==
  /\ At("OnTimer")
  /\ TickCount' = IF gNeedReschedule THEN TickCount ELSE TickCount + 1
  /\ gNeedReschedule' = TRUE
  /\ EndOfInterrupt
  /\ Goto("eoi")
  /\ UNCHANGED <<flag, IRR, gHandlers, delivered, raised>>

(* The flag that OnTimerTick sets is never cleared. *)
OnTimer ==
  /\ At("OnTimer")
  /\ TickCount' = TickCount + 1
  /\ gNeedReschedule' = TRUE
  /\ EndOfInterrupt
  /\ Goto("eoi")
  /\ UNCHANGED <<flag, IRR, gHandlers, delivered, raised>>

(* A handler that ends its interrupt itself, as OnTimer does. *)
OnIRQ0 ==
  /\ At("OnIRQ0")
  /\ EndOfInterrupt
  /\ Goto("eoi")
  /\ UNCHANGED <<flag, IRR, gHandlers, tickVars, delivered, raised>>

(* No handler, or one that leaves the end of the interrupt to Dispatch. *)
OtherHandler ==
  /\ At("device") \/ At("nullptr")
  /\ Goto("eoi")
  /\ UNCHANGED <<flag, IRR, ISR, gHandlers, tickVars, delivered, raised>>

(* The rest of Dispatch.  The commands to the legacy PICs change nothing:    *)
(* all their lines are masked and none is in service.                        *)
EmitEOI ==
  /\ At("eoi")
  /\ IF NeedsEOI(Top.vec) THEN EndOfInterrupt ELSE UNCHANGED ISR
  /\ Goto("iret")
  /\ UNCHANGED <<flag, IRR, gHandlers, tickVars, delivered, raised>>

Iret ==
  /\ At("iret")
  /\ flag' = Top.saved
  /\ frames' = SubSeq(frames, 1, Len(frames) - 1)
  /\ UNCHANGED <<IRR, ISR, gHandlers, tickVars, delivered, raised>>
-------------------------------------------------------------------------------
(* What threads do meanwhile. *)

StartCriticalSection ==
  /\ frames = <<>> /\ flag /\ flag' = FALSE
  /\ UNCHANGED <<IRR, ISR, frames, gHandlers, tickVars, delivered, raised>>

\* Wrong form: interrupts stay off.
EndCriticalSectionOff ==
  /\ frames = <<>> /\ ~flag /\ flag' = FALSE
  /\ UNCHANGED <<IRR, ISR, frames, gHandlers, tickVars, delivered, raised>>

EndCriticalSection ==
  /\ frames = <<>> /\ ~flag /\ flag' = TRUE
  /\ UNCHANGED <<IRR, ISR, frames, gHandlers, tickVars, delivered, raised>>

(* Handlers come and go, but the timer's stays. *)
RegisterInterruptHandler(v) ==
  /\ frames = <<>>
  /\ \E handler \in {"OnIRQ0", "device"} : gHandlers' = [gHandlers EXCEPT ![v] = handler]
  /\ UNCHANGED <<flag, IRR, ISR, frames, tickVars, delivered, raised>>

UnregisterInterruptHandler(v) ==
  /\ frames = <<>> /\ gHandlers[v] # "nullptr"
  /\ gHandlers' = [gHandlers EXCEPT ![v] = "nullptr"]
  /\ UNCHANGED <<flag, IRR, ISR, frames, tickVars, delivered, raised>>

Handling == Dispatch \/ OnTimer \/ OnIRQ0 \/ OtherHandler \/ EmitEOI \/ Iret

Thread ==
  \/ StartCriticalSection \/ EndCriticalSection
  \/ \E v \in Devices : RegisterInterruptHandler(v) \/ UnregisterInterruptHandler(v)

Next ==
  \/ \E v \in Sources : Raise(v)
  \/ Deliver \/ Spurious \/ Handling \/ Thread

Spec == Init /\ [][Next]_vars

(* The CPU goes on, and a critical section ends.  A request is delivered as  *)
(* soon as interrupts are on, even if it is not for long.                    *)
Fairness == WF_vars(Handling) /\ WF_vars(EndCriticalSection) /\ SF_vars(Deliver)

FairSpec == Spec /\ Fairness
-------------------------------------------------------------------------------
(* Properties. *)

Points == {"dispatch", "eoi", "iret"} \cup Handlers

(* Interrupts do not nest: the gates keep them off until the iretq of the    *)
(* handler, so a kernel stack holds one interrupt frame at most.             *)
HandlersDoNotNest == Len(frames) <= 1 /\ (frames # <<>> => ~flag)

(* No interrupt stays in service after its handler has returned, which would *)
(* block its class and all the lower ones for good.                          *)
InServiceIsHandled ==
  \A v \in ISR : \E i \in DOMAIN frames : frames[i].vec = v /\ frames[i].at # "iret"

(* An end of interrupt ends the interrupt that is being handled or none:     *)
(* the two that a timer interrupt gets, from OnTimer and from Dispatch, never *)
(* end another one in service.                                               *)
EndsOnlyItsOwn ==
  [][\A v \in ISR \ ISR' : frames # <<>> /\ v = Top.vec]_vars

(* Timer interrupts that have been delivered and not counted yet. *)
Uncounted ==
  Cardinality({i \in DOMAIN frames :
                 frames[i].vec = VEC_TIMER /\ frames[i].at \in {"dispatch", "OnTimer"}})

(* Every timer interrupt that is delivered is one tick, whatever else is     *)
(* handled meanwhile.                                                        *)
EveryTickIsCounted == TickCount + Uncounted = delivered

(* Every request is delivered at last. *)
RequestsAreServed == \A v \in Sources : v \in IRR ~> v \notin IRR
===============================================================================
