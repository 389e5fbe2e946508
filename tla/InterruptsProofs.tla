--------------------------- MODULE InterruptsProofs ---------------------------
(***************************************************************************)
(* Proofs about modules Interrupts, IOAPIC, ContextSwitch and MADT, for    *)
(* any vectors, any tables, any number of requests and of threads.         *)
(***************************************************************************)
EXTENDS IOAPIC, ContextSwitch, MADT, TLAPS

Frame == [vec : Vectors, at : Points, saved : BOOLEAN]

(* The state of the CPU, without the counts. *)
Types ==
  /\ flag \in BOOLEAN
  /\ IRR \subseteq Sources /\ ISR \subseteq Sources
  /\ gHandlers \in [Vectors -> Handlers]
  /\ TickCount \in Nat /\ delivered \in Nat

(* There is one frame at most, and interrupts are off while there is one. *)
Single ==
  \/ frames = <<>>
  \/ ~flag /\ \E f \in Frame : frames = <<f>>

(* What is in service is the frame's own interrupt, before its last EOI. *)
Own ==
  \A v \in ISR : frames # <<>> /\ v = frames[1].vec /\ frames[1].at # "iret"

(* The timer's handler is OnTimer, and nobody else's is. *)
TimerHandled ==
  /\ \A v \in Vectors : gHandlers[v] = "OnTimer" <=> v = VEC_TIMER
  /\ frames # <<>> => /\ frames[1].at = "OnTimer" => frames[1].vec = VEC_TIMER
                      /\ frames[1].at \in {"OnIRQ0", "device", "nullptr"} => frames[1].vec # VEC_TIMER

(* Whether a timer interrupt is delivered and not counted. *)
Due ==
  frames # <<>> /\ frames[1].vec = VEC_TIMER /\ frames[1].at \in {"dispatch", "OnTimer"}

Ticks == delivered = IF Due THEN TickCount + 1 ELSE TickCount

IInv == Types /\ Single /\ Own /\ TimerHandled /\ Ticks
-------------------------------------------------------------------------------
(* Initially nothing is handled. *)
LEMMA InitIInv == Init => IInv
BY VectorsAssumption DEF Init, IInv, Types, Single, Own, TimerHandled, Due, Ticks, Sources,
   Vectors, Handlers

(* With one frame, an EOI leaves nothing in service. *)
LEMMA EoiClears ==
  ASSUME IInv, EndOfInterrupt
  PROVE  ISR' = {}
<1>1. \A v, w \in ISR : v = w /\ v \in Nat
  BY VectorsAssumption DEF IInv, Own, Types, Sources
<1> QED BY <1>1 DEF EndOfInterrupt

(* Moving the only frame on. *)
LEMMA GotoOne ==
  ASSUME NEW f \in Frame, frames = <<f>>, NEW to \in Points, Goto(to)
  PROVE  /\ \E g \in Frame : frames' = <<g>>
         /\ frames' # <<>> /\ frames'[1].vec = f.vec /\ frames'[1].at = to
<1> DEFINE g == [f EXCEPT !.at = to]
<1>1. frames' = <<g>> BY DEF Goto, Frame
<1>2. g \in Frame /\ g.vec = f.vec /\ g.at = to BY DEF Frame
<1> QED BY Zenon, <1>1, <1>2

(* A gate with no frame below it makes the only frame. *)
LEMMA GateStep ==
  ASSUME IInv, flag, NEW v \in Vectors, InterruptGate(v),
         IRR' \subseteq IRR, ISR' = ISR \cup ({v} \cap Sources),
         UNCHANGED <<gHandlers, TickCount>>,
         delivered' = IF v = VEC_TIMER THEN delivered + 1 ELSE delivered
  PROVE  IInv'
<1>1. frames = <<>> /\ ISR = {} /\ flag \in BOOLEAN
  BY DEF IInv, Types, Single, Own
<1> DEFINE f == [vec |-> v, at |-> "dispatch", saved |-> flag]
<1>2. f \in Frame
  BY <1>1 DEF Frame, Points
<1>3. flag' = FALSE /\ frames' = <<f>> /\ frames'[1] = f /\ frames' # <<>>
  BY <1>1 DEF InterruptGate
<1> HIDE DEF f
<1>4. f.vec = v /\ f.at = "dispatch"
  BY DEF f
<1>5. Types'
  <2>1. IRR' \subseteq Sources /\ ISR' \subseteq Sources /\ delivered' \in Nat
    BY <1>1 DEF IInv, Types
  <2> QED BY Zenon, <1>3, <2>1 DEF IInv, Types
<1>6. TimerHandled' /\ Own'
  BY <1>1, <1>3, <1>4 DEF IInv, TimerHandled, Own
<1>7. Ticks'
  BY <1>1, <1>3, <1>4 DEF IInv, Ticks, Due
<1> QED BY Zenon, <1>2, <1>3, <1>5, <1>6, <1>7 DEF IInv, Single

(* The only frame goes on after its handler: what was due is counted, and    *)
(* nothing is in service when it returns.                                    *)
LEMMA HandlerStep ==
  ASSUME IInv, NEW f \in Frame, frames = <<f>>, NEW to \in {"eoi", "iret"}, Goto(to),
         UNCHANGED <<flag, IRR, gHandlers, delivered>>,
         ISR' = {} \/ (ISR' = ISR /\ f.at # "iret" /\ to = "eoi"),
         TickCount' = IF Due THEN TickCount + 1 ELSE TickCount
  PROVE  IInv'
<1>1. to \in Points
  BY DEF Points
<1>2. /\ \E g \in Frame : frames' = <<g>>
      /\ frames' # <<>> /\ frames'[1].vec = f.vec /\ frames'[1].at = to
  BY <1>1, GotoOne
<1>3. Types' /\ Ticks'
  BY <1>2 DEF IInv, Types, Ticks, Due
<1>4. Own' /\ TimerHandled'
  BY <1>2 DEF IInv, Own, TimerHandled
<1> QED BY <1>2, <1>3, <1>4 DEF IInv, Single

(* Every step preserves the invariant. *)
LEMMA NextIInv == IInv /\ [Next]_vars => IInv'
<1> SUFFICES ASSUME IInv, [Next]_vars PROVE IInv'
  BY Zenon
<1> USE VectorsAssumption
<1>1. ASSUME NEW v \in Sources, Raise(v) PROVE IInv'
  BY Zenon, <1>1 DEF IInv, Types, Single, Own, TimerHandled, Ticks, Due, Raise, tickVars
<1>2. CASE Deliver
  <2>1. PICK v \in IRR : /\ IRR' = IRR \ {v} /\ ISR' = ISR \cup {v} /\ InterruptGate(v)
                        /\ delivered' = IF v = VEC_TIMER THEN delivered + 1 ELSE delivered
    BY <1>2 DEF Deliver
  <2>2. v \in Sources /\ v \in Vectors
    BY DEF IInv, Types, Vectors
  <2> QED BY <1>2, <2>1, <2>2, GateStep DEF Deliver, tickVars
<1>3. CASE Spurious
  <2>1. VEC_SPURIOUS \in Vectors /\ VEC_SPURIOUS # VEC_TIMER /\ VEC_SPURIOUS \notin Sources
    BY DEF Vectors, Sources
  <2> QED BY <1>3, <2>1, GateStep DEF Spurious, tickVars
<1>4. CASE Handling
  <2>1. PICK f \in Frame : frames = <<f>>
    BY Zenon, <1>4 DEF IInv, Single, Handling, Dispatch, OnTimer, OnIRQ0, OtherHandler, EmitEOI, Iret, At
  <2>2. /\ Top = f /\ frames[1] = f /\ frames # <<>> /\ f.vec \in Vectors /\ f.at \in Points
        /\ ~flag /\ flag \in BOOLEAN
    BY <2>1 DEF Top, Frame, IInv, Types, Single
  <2>3. CASE Dispatch
    <3>1. Goto(gHandlers[f.vec]) /\ f.at = "dispatch" /\ gHandlers[f.vec] \in Handlers
      BY <2>2, <2>3 DEF Dispatch, At, IInv, Types
    <3>2. /\ \E g \in Frame : frames' = <<g>>
          /\ frames' # <<>> /\ frames'[1].vec = f.vec /\ frames'[1].at = gHandlers[f.vec]
      BY Zenon, <2>1, <3>1, GotoOne DEF Points
    <3>3. UNCHANGED <<flag, IRR, ISR, gHandlers, TickCount, delivered>>
      BY Zenon, <2>3 DEF Dispatch, tickVars
    <3>4. Own' /\ TimerHandled'
      BY <2>2, <3>1, <3>2, <3>3 DEF IInv, Own, TimerHandled, Handlers
    <3>5. Types' /\ Ticks'
      BY <2>2, <3>1, <3>2, <3>3 DEF IInv, Types, Ticks, Due, TimerHandled, Handlers
    <3> QED BY Zenon, <2>2, <3>2, <3>3, <3>4, <3>5 DEF IInv, Single
  <2>4. CASE OnTimer
    <3>1. ISR' = {} /\ Due
      BY <2>2, <2>4, EoiClears DEF OnTimer, At, IInv, TimerHandled, Due
    <3> QED BY Zenon, <2>1, <2>4, <3>1, HandlerStep DEF OnTimer
  <2>5. CASE OnIRQ0
    <3>1. ISR' = {} /\ ~Due
      BY <2>2, <2>5, EoiClears DEF OnIRQ0, At, Due
    <3> QED BY <2>1, <2>5, <3>1, HandlerStep DEF OnIRQ0, tickVars
  <2>6. CASE OtherHandler
    <3>1. f.at # "iret" /\ ~Due
      BY <2>2, <2>6 DEF OtherHandler, At, Due
    <3> QED BY <2>1, <2>6, <3>1, HandlerStep DEF OtherHandler, tickVars
  <2>7. CASE EmitEOI
    <3>1. CASE NeedsEOI(f.vec)
      BY <2>2, <2>7, <3>1, EoiClears, HandlerStep, <2>1 DEF EmitEOI, At, Due, tickVars
    <3>2. CASE ~NeedsEOI(f.vec)
      <4>1. f.vec \notin Sources
        <5>1. \A v \in Sources : v \in 32 .. 254 /\ v # VEC_SPURIOUS
          BY DEF Sources
        <5> QED BY <3>2, <5>1 DEF NeedsEOI
      <4>2. ISR = {} /\ ~Due
        BY Zenon, <2>2, <2>7, <4>1 DEF IInv, Types, Own, EmitEOI, At, Due
      <4> QED BY <2>1, <2>2, <2>7, <3>2, <4>2, HandlerStep DEF EmitEOI, tickVars
    <3> QED BY <3>1, <3>2
  <2>8. CASE Iret
    <3>1. f.at = "iret" /\ f.saved \in BOOLEAN /\ ISR = {} /\ ~Due
      BY <2>2, <2>8 DEF Iret, At, Frame, IInv, Own, Due
    <3>2. /\ frames' = <<>> /\ flag' \in BOOLEAN
          /\ UNCHANGED <<IRR, ISR, gHandlers, TickCount, delivered>>
      BY <2>1, <2>2, <2>8, <3>1 DEF Iret, tickVars
    <3> QED BY Zenon, <3>1, <3>2 DEF IInv, Types, Single, Own, TimerHandled, Ticks, Due
  <2> QED BY Zenon, <1>4, <2>3, <2>4, <2>5, <2>6, <2>7, <2>8 DEF Handling
<1>5. CASE Thread
  <2>1. /\ UNCHANGED <<IRR, ISR, frames, TickCount, delivered>> /\ frames = <<>>
        /\ flag' \in BOOLEAN
    BY Zenon, <1>5 DEF Thread, StartCriticalSection, EndCriticalSection, IInv, Types,
       RegisterInterruptHandler, UnregisterInterruptHandler, tickVars
  <2>2. \/ gHandlers' = gHandlers
        \/ \E v \in Devices, handler \in {"OnIRQ0", "device", "nullptr"} :
             gHandlers' = [gHandlers EXCEPT ![v] = handler]
    BY <1>5 DEF Thread, StartCriticalSection, EndCriticalSection,
       RegisterInterruptHandler, UnregisterInterruptHandler
  <2>3. /\ gHandlers' \in [Vectors -> Handlers]
        /\ \A v \in Vectors : gHandlers'[v] = "OnTimer" <=> v = VEC_TIMER
    <3>1. /\ gHandlers \in [Vectors -> Handlers]
          /\ \A v \in Vectors : gHandlers[v] = "OnTimer" <=> v = VEC_TIMER
      BY DEF IInv, Types, TimerHandled
    <3>2. Devices \subseteq Vectors /\ VEC_TIMER \notin Devices BY DEF Vectors, Sources
    <3>3. {"OnIRQ0", "device", "nullptr"} \subseteq Handlers \ {"OnTimer"} BY DEF Handlers
    <3> QED BY <2>2, <3>1, <3>2, <3>3
  <2> QED BY <2>1, <2>3 DEF IInv, Types, Single, Own, TimerHandled, Ticks, Due
<1>6. CASE UNCHANGED vars
  BY <1>6 DEF vars, tickVars, IInv, Types, Single, Own, TimerHandled, Ticks, Due
<1> QED BY <1>1, <1>2, <1>3, <1>4, <1>5, <1>6 DEF Next

(* The invariant holds throughout. *)
LEMMA IInvAlways == Spec => []IInv
BY InitIInv, NextIInv, PTL DEF Spec
-------------------------------------------------------------------------------
(* Handlers never nest, whatever interrupts arrive and when: every gate is   *)
(* an interrupt gate and nothing in Dispatch turns interrupts on.            *)
THEOREM HandlersNeverNest == Spec => []HandlersDoNotNest
<1>1. IInv => HandlersDoNotNest
  <2> SUFFICES ASSUME IInv PROVE HandlersDoNotNest
    OBVIOUS
  <2>1. CASE frames = <<>> BY <2>1 DEF HandlersDoNotNest
  <2>2. ASSUME ~flag, NEW f \in Frame, frames = <<f>> PROVE HandlersDoNotNest
    <3>1. Len(frames) = 1 BY <2>2
    <3> QED BY <2>2, <3>1 DEF HandlersDoNotNest
  <2> QED BY <2>1, <2>2 DEF IInv, Single
<1> QED BY <1>1, IInvAlways, PTL

(* Nothing stays in service once its handler has returned: NeedsEOI covers   *)
(* every vector that the local APIC puts in service.                         *)
THEOREM NothingStaysInService == Spec => []InServiceIsHandled
<1>1. IInv => InServiceIsHandled
  <2> SUFFICES ASSUME IInv, NEW v \in ISR
               PROVE  \E i \in DOMAIN frames : frames[i].vec = v /\ frames[i].at # "iret"
    BY DEF InServiceIsHandled
  <2>1. frames # <<>> /\ frames[1].vec = v /\ frames[1].at # "iret" BY DEF IInv, Own
  <2>2. 1 \in DOMAIN frames BY <2>1 DEF IInv, Single
  <2> QED BY <2>1, <2>2
<1> QED BY <1>1, IInvAlways, PTL

(* The second EOI of a timer interrupt, Dispatch's after OnTimer's, never    *)
(* ends another interrupt.                                                   *)
THEOREM AnEoiEndsItsOwn == Spec => EndsOnlyItsOwn
<1>1. IInv /\ [Next]_vars => [\A v \in ISR \ ISR' : frames # <<>> /\ v = Top.vec]_vars
  <2> SUFFICES ASSUME IInv, NEW v \in ISR PROVE frames # <<>> /\ v = Top.vec
    OBVIOUS
  <2>1. frames # <<>> /\ v = frames[1].vec BY DEF IInv, Own
  <2>2. Len(frames) = 1 BY <2>1 DEF IInv, Single
  <2> QED BY <2>1, <2>2 DEF Top
<1> QED BY <1>1, IInvAlways, PTL DEF Spec, EndsOnlyItsOwn
-------------------------------------------------------------------------------
(* The redirection table.  The low half of an entry is that of the last call *)
(* that has returned; its high half is that of a call between its two writes. *)

TableTyped ==
  /\ regs \in [16 .. regHi(RedirCount) -> Low \cup Dests]
  /\ \A idx \in Entries :
       /\ regs[regLo(idx)] \in Low
       /\ ~Masked(idx) => regs[regLo(idx)].vector \in Lines
  /\ call \in Call
  /\ call.at # "none" => call.low.vector \in Lines
  /\ routed \in [Entries -> [dest : Dests, low : Low]]

TableWhole ==
  \A idx \in Entries :
    /\ regs[regLo(idx)] = routed[idx].low
    /\ regs[regHi(idx)] = routed[idx].dest \/ (call.at = "second" /\ call.idx = idx)
    /\ call.at = "second" /\ call.idx = idx => regs[regHi(idx)] = call.dest

IOInv == TableTyped /\ TableWhole

(* The halves of the entries are registers of their own. *)
LEMMA TableRegisters ==
  /\ \A i \in Entries : regLo(i) \in 16 .. regHi(RedirCount) /\ regHi(i) \in 16 .. regHi(RedirCount)
  /\ \A i, j \in Entries : regLo(i) # regHi(j)
  /\ \A i, j \in Entries : i # j => regLo(i) # regLo(j) /\ regHi(i) # regHi(j)
BY IOAPICAssumption DEF Entries, regLo, regHi

(* Reset leaves every entry masked. *)
LEMMA InitIOInv == IOInit => IOInv
<1> SUFFICES ASSUME IOInit PROVE IOInv
  OBVIOUS
<1>1. \A i \in Entries : regLo(i) % 2 = 0 /\ regHi(i) % 2 = 1
  BY IOAPICAssumption DEF Entries, regLo, regHi
<1>2. \A i \in Entries : regs[regLo(i)] = ResetLow /\ regs[regHi(i)] = Here
  BY <1>1, TableRegisters DEF IOInit
<1>3. 0 \in Entries BY IOAPICAssumption DEF Entries
<1>4. ResetLow \in Low /\ ResetLow.masked = TRUE BY DEF Low, ResetLow
<1>5. regs \in [16 .. regHi(RedirCount) -> Low \cup Dests]
  BY <1>4 DEF IOInit, Dests
<1>6. call \in Call /\ call.at = "none"
  BY <1>3, <1>4 DEF IOInit, NoCall, Call, Dests
<1>7. /\ routed \in [Entries -> [dest : Dests, low : Low]]
      /\ \A i \in Entries : routed[i].low = ResetLow /\ routed[i].dest = Here
  BY <1>4 DEF IOInit, Dests
<1>8. TableTyped BY <1>2, <1>4, <1>5, <1>6, <1>7 DEF TableTyped, Masked
<1>9. TableWhole BY <1>2, <1>6, <1>7 DEF TableWhole
<1> QED BY <1>8, <1>9 DEF IOInv

(* Every step keeps the entries whole. *)
LEMMA NextIOInv == IOInv /\ [IONext]_allVars => IOInv'
<1> SUFFICES ASSUME IOInv, [IONext]_allVars PROVE IOInv'
  OBVIOUS
<1>1. ASSUME NEW gsi \in GSIs, NEW vector \in Lines, NEW dest \in Dests,
             NEW polarity \in Polarities, NEW trigger \in Triggers, NEW masked \in BOOLEAN,
             RouteGSI(gsi, vector, dest, polarity, trigger, masked)
      PROVE  IOInv'
  <2> DEFINE idx == gsi - GSIBase
             low == [vector |-> vector, polarity |-> polarity, trigger |-> trigger,
                     masked |-> masked]
  <2>1. idx \in Entries
    BY <1>1, IOAPICAssumption DEF RouteGSI, OwnsGSI, Entries
  <2>2. call' = [at |-> "first", idx |-> idx, dest |-> dest, low |-> low]
    BY <1>1 DEF RouteGSI
  <2>3. UNCHANGED <<regs, routed>> /\ call.at = "none" BY <1>1 DEF RouteGSI
  <2>4. low \in Low /\ low.vector \in Lines
    BY IOAPICAssumption DEF Low
  <2> HIDE DEF low, idx
  <2>5. call' \in Call /\ call'.at = "first" /\ call'.low = low BY Zenon, <2>1, <2>2, <2>4 DEF Call
  <2>6. TableTyped' BY <2>3, <2>4, <2>5 DEF IOInv, TableTyped, Masked
  <2>7. TableWhole' BY <2>3, <2>5 DEF IOInv, TableWhole
  <2> QED BY <2>6, <2>7 DEF IOInv
<1>2. CASE WriteRedir
  <2> DEFINE i == call.idx
  <2>1. /\ call \in Call /\ i \in Entries /\ call.dest \in Dests /\ call.low \in Low
        /\ call.low.vector \in Lines
    BY <1>2 DEF IOInv, TableTyped, Call, WriteRedir
  <2>2. CASE call.at = "first"
    <3>1. /\ regs' = [regs EXCEPT ![regHi(i)] = call.dest]
          /\ call' = [call EXCEPT !.at = "second"] /\ UNCHANGED routed
      BY <1>2, <2>2 DEF WriteRedir, Half
    <3>2. \A j \in Entries : regs'[regLo(j)] = regs[regLo(j)]
      BY <2>1, <3>1, TableRegisters DEF IOInv, TableTyped
    <3>3. \A j \in Entries : regs'[regHi(j)] = IF j = i THEN call.dest ELSE regs[regHi(j)]
      BY <2>1, <3>1, TableRegisters DEF IOInv, TableTyped
    <3>4. /\ call' \in Call /\ call'.at = "second" /\ call'.idx = i /\ call'.dest = call.dest
          /\ call'.low = call.low
      BY <2>1, <3>1 DEF Call
    <3>5. regs' \in [16 .. regHi(RedirCount) -> Low \cup Dests]
      BY <2>1, <3>1, TableRegisters DEF IOInv, TableTyped
    <3>6. TableTyped' BY <2>1, <3>1, <3>2, <3>4, <3>5 DEF IOInv, TableTyped, Masked
    <3>7. TableWhole' BY <2>1, <2>2, <3>1, <3>2, <3>3, <3>4 DEF IOInv, TableWhole
    <3> QED BY <3>6, <3>7 DEF IOInv
  <2>3. CASE call.at = "second"
    <3> DEFINE asked == [dest |-> call.dest, low |-> call.low]
    <3>1. /\ regs' = [regs EXCEPT ![regLo(i)] = call.low]
          /\ call' = NoCall /\ routed' = [routed EXCEPT ![i] = asked]
      BY <1>2, <2>3 DEF WriteRedir, Half
    <3>2. \A j \in Entries : regs'[regLo(j)] = IF j = i THEN call.low ELSE regs[regLo(j)]
      BY ZenonT(30), <2>1, <3>1, TableRegisters DEF IOInv, TableTyped
    <3>3. \A j \in Entries : regs'[regHi(j)] = regs[regHi(j)]
      BY <2>1, <3>1, TableRegisters DEF IOInv, TableTyped
    <3>4. call' \in Call /\ call'.at = "none"
      BY SMTT(20), <3>1, IOAPICAssumption DEF NoCall, Call, Entries, Dests, Low, ResetLow
    <3>5. regs' \in [16 .. regHi(RedirCount) -> Low \cup Dests]
      BY <2>1, <3>1, TableRegisters DEF IOInv, TableTyped
    <3>6. asked \in [dest : Dests, low : Low] /\ asked.dest = call.dest /\ asked.low = call.low
      BY <2>1
    <3> HIDE DEF asked
    <3>7. /\ routed' \in [Entries -> [dest : Dests, low : Low]]
          /\ \A j \in Entries : routed'[j] = IF j = i THEN asked ELSE routed[j]
      BY Zenon, <2>1, <3>1, <3>6 DEF IOInv, TableTyped
    <3>8. TableTyped' BY Zenon, <2>1, <3>2, <3>4, <3>5, <3>7 DEF IOInv, TableTyped, Masked
    <3>9. regs[regHi(i)] = call.dest BY Zenon, <2>1, <2>3 DEF IOInv, TableWhole
    <3>10. ASSUME NEW j \in Entries
           PROVE  regs'[regLo(j)] = routed'[j].low /\ regs'[regHi(j)] = routed'[j].dest
      <4>1. CASE j = i
        BY Zenon, <3>2, <3>3, <3>6, <3>7, <3>9, <4>1
      <4>2. CASE j # i
        BY Zenon, <3>2, <3>3, <3>7, <4>2 DEF IOInv, TableWhole
      <4> QED  BY Zenon, <4>1, <4>2
    <3>11. TableWhole' BY Zenon, <3>4, <3>10 DEF TableWhole
    <3> QED BY Zenon, <3>8, <3>11 DEF IOInv
  <2> QED BY <1>2, <2>2, <2>3 DEF WriteRedir
<1>3. CASE UNCHANGED ioVars
  BY Zenon, <1>3 DEF ioVars, IOInv, TableTyped, TableWhole, Masked
<1> QED BY <1>1, <1>2, <1>3 DEF IONext, allVars, Assert

(* The entries stay whole. *)
LEMMA IOInvAlways == IOSpec => []IOInv
BY InitIOInv, NextIOInv, PTL DEF IOSpec

(* A line that can interrupt does so as the last call of RouteGSI that has   *)
(* returned asked, but for the CPU of a live line between the two writes of  *)
(* the call that moves it: for a table of any size and any calls.            *)
THEOREM LinesAlwaysGoAsRouted == IOSpec => []LinesGoAsRouted
<1>1. IOInv => LinesGoAsRouted BY Zenon DEF IOInv, TableWhole, LinesGoAsRouted
<1> QED BY <1>1, IOInvAlways, PTL

(* Behind the table the local APIC is that of module Interrupts: all that is *)
(* proved of it holds for the lines that RouteGSI connects.                  *)
THEOREM LinesAreRequests == IOSpec => Spec
<1>1. IOInit => Init BY DEF IOInit
<1>2. IOInv /\ [IONext]_allVars => [Next]_vars
  <2> SUFFICES ASSUME IOInv, [IONext]_allVars PROVE [Next]_vars
    OBVIOUS
  <2>1. ASSUME NEW idx \in Entries, Assert(idx) PROVE Next
    <3>1. regs[regLo(idx)].vector \in Sources
      BY <2>1, IOAPICAssumption DEF Assert, IOInv, TableTyped, Sources
    <3> QED BY Zenon, <2>1, <3>1 DEF Assert, Next
  <2>2. CASE UNCHANGED vars BY <2>2
  <2> QED BY <2>1, <2>2 DEF IONext, allVars, RouteGSI, WriteRedir, Next
<1> QED BY <1>1, <1>2, IOInvAlways, PTL DEF IOSpec, Spec
-------------------------------------------------------------------------------
(* The context switch of module ContextSwitch, with an interrupt between any *)
(* two of its instructions.                                                  *)

(* The place of a register among those that ArchSwitchContext pushes, and    *)
(* what is on the stack before instruction k: how many, and which.           *)
Slot(r) ==
  IF r = "rbp" THEN 1 ELSE IF r = "rbx" THEN 2 ELSE IF r = "r12" THEN 3
  ELSE IF r = "r13" THEN 4 ELSE IF r = "r14" THEN 5 ELSE 6

Stacked(k) == IF k <= 7 THEN k - 1 ELSE IF k = 8 THEN 6 ELSE 15 - k

OnStack(k) == {r \in Registers : Slot(r) <= Stacked(k)}

AtCode(k) == rip = [at |-> "Code", k |-> k]

Contents ==
  [kind : {"value", "zero", "junk", "SwitchTo", "trampoline"}, thread : All,
   reg : Registers \cup {"none", "rip"}, version : 0 .. Versions]

SwitchTypes ==
  /\ CurrentThread \in All /\ rdi \in All /\ rsi \in All
  /\ CtxRSP \in [All -> Nat]
  /\ stack \in [All -> [Words -> Contents]]
  /\ rsp \in [thread : All, depth : Nat]
  /\ reg \in [Registers -> Contents]
  /\ left \in [All -> [reg : [Registers -> Contents], depth : 1 .. MaxDepth,
                         at : {"SwitchTo", "trampoline"}]]

(* The place that t goes on at, and what it left in the registers R, are on  *)
(* its stack.                                                                *)
Stored(t, R) ==
  /\ stack[t][left[t].depth + 1] = Address(left[t].at, t)
  /\ \A r \in R : stack[t][left[t].depth + 1 + Slot(r)] = left[t].reg[r]

Whole(t) == CtxRSP[t] = left[t].depth + 7 /\ Stored(t, Registers)

(* Up to the load of the stack pointer the registers are those of the thread *)
(* that leaves, and the first of them are on its stack as well.              *)
Leaving(k) ==
  /\ rsp.thread = rdi /\ rsi = CurrentThread /\ rdi # rsi /\ rsi \in Threads
  /\ rsp.depth = left[rdi].depth + 1 + Stacked(k) /\ Stored(rdi, OnStack(k))
  /\ \A r \in Registers : reg[r] = left[rdi].reg[r]
  /\ k = 8 => CtxRSP[rdi] = rsp.depth

(* After it those that are not on the stack any more have been restored. *)
Resuming(k) ==
  /\ rsp.thread = rsi /\ rsi = CurrentThread
  /\ rsp.depth = left[rsi].depth + 1 + Stacked(k) /\ Stored(rsi, OnStack(k))
  /\ \A r \in Registers \ OnStack(k) : reg[r] = left[rsi].reg[r]

Running == rip.at = "run" /\ rsp.thread = CurrentThread /\ rsp.depth \in 1 .. MaxDepth

Switching(k) ==
  \/ k \in 1 .. 8 /\ Leaving(k)
  \/ k \in 9 .. 15 /\ Resuming(k)

Somewhere == Running \/ \E k \in 1 .. 15 : AtCode(k) /\ Switching(k)

(* The inductive invariant.  The context of every thread whose stack is not  *)
(* in use is whole: CurrentThread alone does not say so, since SwitchTo sets *)
(* it before the stacks are switched.                                        *)
SwitchInv ==
  SwitchTypes /\ Somewhere /\ \A t \in Threads \ {rsp.thread} : Whole(t)

LEMMA TypeFacts ==
  ASSUME SwitchTypes
  PROVE  /\ rsp.thread \in All /\ rsp.depth \in Nat /\ rsp \in [thread : All, depth : Nat]
         /\ CurrentThread \in All /\ rdi \in All /\ rsi \in All
         /\ reg \in [Registers -> Contents] /\ \A r \in Registers : reg[r] \in Contents
         /\ \A t \in All : CtxRSP[t] \in Nat /\ left[t].at \in {"SwitchTo", "trampoline"}
BY DEF SwitchTypes

LEMMA WordsAreNumbers ==
  \A k \in Words : k \in Nat
BY ContextSwitchAssumption DEF Words

LEMMA SlotFacts ==
  /\ \A r \in Registers : Slot(r) \in 1 .. 6
  /\ \A k \in 1 .. 15 : Stacked(k) \in 0 .. 6
  /\ \A k \in 1 .. 15 : OnStack(k) \in SUBSET Registers /\ \A r \in OnStack(k) : Slot(r) <= Stacked(k)
BY SMTT(20) DEF Registers, Slot, Stacked, OnStack

(* ArchSwitchContext pushes the registers in the order of their slots.       *)
LEMMA Pushes ==
  ASSUME NEW k \in 1 .. 15, Code[k].op = "push"
  PROVE  /\ k \in 1 .. 6 /\ k + 1 \in 1 .. 15
         /\ Code[k].reg \in Registers /\ Slot(Code[k].reg) = k
         /\ Stacked(k) = k - 1 /\ Stacked(k + 1) = k
         /\ OnStack(k + 1) = OnStack(k) \cup {Code[k].reg}
<1>1. k = 1 \/ k = 2 \/ k = 3 \/ k = 4 \/ k = 5 \/ k = 6
  BY SMTT(20) DEF Code, Ins
<1>2. Code[k].reg \in Registers /\ Slot(Code[k].reg) = k
  BY <1>1 DEF Code, Ins, Registers, Slot
<1>3. /\ k \in 1 .. 6 /\ k + 1 \in 1 .. 15
      /\ Stacked(k) = k - 1 /\ Stacked(k + 1) = k
  BY <1>1 DEF Stacked
<1>4. ASSUME NEW r \in Registers
      PROVE  Slot(r) <= k <=> Slot(r) <= k - 1 \/ r = Code[k].reg
  <2>1. Slot(r) \in 1 .. 6 /\ (Slot(r) = k => r = Code[k].reg)
    BY <1>2 DEF Registers, Slot
  <2> QED  BY <1>2, <1>3, <2>1
<1> QED  BY Zenon, <1>2, <1>3, <1>4 DEF OnStack

(* It pops them in the opposite order. *)
LEMMA Pops ==
  ASSUME NEW k \in 1 .. 15, Code[k].op = "pop"
  PROVE  /\ k \in 9 .. 14 /\ k + 1 \in 1 .. 15
         /\ Code[k].reg \in Registers /\ Slot(Code[k].reg) = 15 - k
         /\ Stacked(k) = 15 - k /\ Stacked(k + 1) = 14 - k
         /\ Code[k].reg \in OnStack(k)
         /\ OnStack(k + 1) = OnStack(k) \ {Code[k].reg}
<1>1. k = 9 \/ k = 10 \/ k = 11 \/ k = 12 \/ k = 13 \/ k = 14
  BY DEF Code, Ins
<1>2. Code[k].reg \in Registers /\ Slot(Code[k].reg) = 15 - k
  BY <1>1 DEF Code, Ins, Registers, Slot
<1>3. /\ k \in 9 .. 14 /\ k + 1 \in 1 .. 15
      /\ Stacked(k) = 15 - k /\ Stacked(k + 1) = 14 - k
      /\ Slot(Code[k].reg) <= Stacked(k)
  BY <1>1, <1>2 DEF Stacked
<1>4. ASSUME NEW r \in Registers
      PROVE  Slot(r) <= 14 - k <=> Slot(r) <= 15 - k /\ r # Code[k].reg
  <2>1. Slot(r) \in 1 .. 6 /\ (Slot(r) = 15 - k => r = Code[k].reg)
    BY <1>2 DEF Registers, Slot
  <2> QED  BY <1>2, <1>3, <2>1
<1> QED  BY Zenon, <1>2, <1>3, <1>4 DEF OnStack

(* In between it saves and loads the stack pointer, and at last it returns. *)
LEMMA Others ==
  ASSUME NEW k \in 1 .. 15
  PROVE  /\ Code[k].op = "save" => k = 7
         /\ Code[k].op = "load" => k = 8
         /\ Code[k].op = "ret" => k = 15
<1>1. \/ k = 1 \/ k = 2 \/ k = 3 \/ k = 4 \/ k = 5 \/ k = 6 \/ k = 7 \/ k = 8
      \/ k = 9 \/ k = 10 \/ k = 11 \/ k = 12 \/ k = 13 \/ k = 14 \/ k = 15
  OBVIOUS
<1> QED  BY <1>1 DEF Code, Ins

(* Nothing is on the stack at both ends, and everything at the switch. *)
LEMMA EmptyAndFull ==
  /\ Stacked(1) = 0 /\ OnStack(1) = {} /\ Stacked(15) = 0 /\ OnStack(15) = {}
  /\ Stacked(7) = 6 /\ OnStack(7) = Registers
  /\ Stacked(8) = 6 /\ OnStack(8) = Registers /\ 8 \in 1 .. 8 /\ 8 \in 1 .. 15
  /\ Stacked(9) = 6 /\ OnStack(9) = Registers /\ 9 \in 9 .. 15 /\ 9 \in 1 .. 15
BY SlotFacts DEF Stacked, OnStack

(* What is known before an instruction of ArchSwitchContext. *)
LEMMA BeforeInstruction ==
  ASSUME SwitchInv, rip.at = "Code"
  PROVE  \E k \in 1 .. 15 : Switching(k) /\ rip.k = k /\ (Forward => AtCode(k + 1)')
<1>1. PICK k \in 1 .. 15 : AtCode(k) /\ Switching(k)
  BY DEF SwitchInv, Somewhere, Running
<1>2. rip.k = k /\ (Forward => AtCode(k + 1)')
  BY <1>1 DEF AtCode, Forward
<1> QED  BY <1>1, <1>2

LEMMA AtTheSwitch ==
  ASSUME SwitchInv
  PROVE  /\ AtOp("save") => Leaving(7) /\ (Forward => AtCode(8)')
         /\ AtOp("load") => Leaving(8) /\ (Forward => AtCode(9)')
         /\ AtOp("ret") => Resuming(15)
<1>1. ASSUME rip.at = "Code"
      PROVE  \E k \in 1 .. 15 :
               /\ Switching(k) /\ rip.k = k /\ (Forward => AtCode(k + 1)')
               /\ Code[k].op = "save" => k = 7
               /\ Code[k].op = "load" => k = 8
               /\ Code[k].op = "ret" => k = 15
  BY Zenon, <1>1, BeforeInstruction, Others
<1>2. 7 + 1 = 8 /\ 8 + 1 = 9 /\ 7 \notin 9 .. 15 /\ 8 \notin 9 .. 15 /\ 15 \notin 1 .. 8
  OBVIOUS
<1> QED  BY Zenon, <1>1, <1>2 DEF AtOp, Switching

(* Where a context is. *)
LEMMA LeftFacts ==
  ASSUME SwitchTypes, NEW t \in All
  PROVE  /\ left[t].depth \in Nat /\ left[t].depth \in 1 .. MaxDepth
         /\ left[t].depth + 1 \in Words
         /\ \A r \in Registers : left[t].depth + 1 + Slot(r) \in Words
         /\ left[t].reg \in [Registers -> Contents]
<1>1. /\ left[t].depth \in 1 .. MaxDepth /\ left[t].reg \in [Registers -> Contents]
      /\ MaxDepth \in Nat /\ FrameWords \in Nat
  BY Zenon, ContextSwitchAssumption DEF SwitchTypes
<1> QED  BY <1>1, SlotFacts DEF Words

(* What is written to a stack is written below the stack pointer. *)
Intact ==
  /\ stack' \in [All -> [Words -> Contents]]
  /\ \A t \in All, k \in Words :
       t # rsp.thread \/ k <= rsp.depth => stack'[t][k] = stack[t][k]

(* What is not below the stack pointer stays. *)
LEMMA StaysStored ==
  ASSUME SwitchTypes, Intact, NEW t \in All, left'[t] = left[t],
         NEW R \in SUBSET Registers, Stored(t, R),
         t = rsp.thread => /\ left[t].depth + 1 <= rsp.depth
                           /\ \A r \in R : left[t].depth + 1 + Slot(r) <= rsp.depth
  PROVE  Stored(t, R)'
BY Zenon, LeftFacts DEF Intact, Stored

(* So does what ArchSwitchContext has on the stack in use. *)
LEMMA StaysOnStack ==
  ASSUME SwitchTypes, Intact, NEW k \in 1 .. 15,
         NEW t \in All, t = rsp.thread, left'[t] = left[t],
         rsp.depth = left[t].depth + 1 + Stacked(k), Stored(t, OnStack(k))
  PROVE  Stored(t, OnStack(k))'
<1>1. left[t].depth + 1 <= rsp.depth /\ \A r \in OnStack(k) : left[t].depth + 1 + Slot(r) <= rsp.depth
  <2>1. /\ left[t].depth \in Nat /\ Stacked(k) \in 0 .. 6
        /\ \A r \in OnStack(k) : Slot(r) \in 1 .. 6 /\ Slot(r) <= Stacked(k)
    BY Zenon, SlotFacts, LeftFacts
  <2>2. \A d \in Nat, m \in 0 .. 6 :
          d + 1 <= d + 1 + m /\ \A s \in 1 .. 6 : s <= m => d + 1 + s <= d + 1 + m
    OBVIOUS
  <2> QED  BY Zenon, <2>1, <2>2
<1> QED  BY Zenon, <1>1, SlotFacts, StaysStored

(* A thread whose stack is not in use keeps its context. *)
LEMMA StaysWhole ==
  ASSUME SwitchInv, Intact, rsp'.thread = rsp.thread,
         \A t \in Threads \ {rsp.thread} : left'[t] = left[t] /\ CtxRSP'[t] = CtxRSP[t]
  PROVE  \A t \in Threads \ {rsp'.thread} : Whole(t)'
BY Zenon, StaysStored DEF SwitchInv, Whole, All

LEMMA InitSwitchInv ==
  ASSUME SwitchInit
  PROVE  SwitchInv
<1>2. SwitchTypes
  BY SMTT(20), WordsAreNumbers, ContextSwitchAssumption DEF SwitchInit, SwitchTypes, Contents, All,
     PrepareInitialStack, Address, Zero, Junk, Word, Values
<1>3. ASSUME NEW t \in Threads  PROVE Whole(t)
  <2>1. /\ stack[t] = PrepareInitialStack(t) /\ CtxRSP[t] = 8
        /\ left[t] = [reg |-> [r \in Registers |-> Zero], depth |-> 1, at |-> "trampoline"]
        /\ \A k \in 2 .. 8 : k \in Words
    <3>1. t \in All /\ t # Bootstrap
      BY Zenon, ContextSwitchAssumption DEF All
    <3>2. \A k \in 2 .. 8 : k \in Words
      BY ContextSwitchAssumption DEF Words
    <3> QED  BY Zenon, <3>1, <3>2 DEF SwitchInit
  <2>2. stack[t][2] = Address("trampoline", t) /\ \A k \in 3 .. 8 : stack[t][k] = Zero
    <3>1. \A k \in 2 .. 8 : stack[t][k] = IF k = 2 THEN Address("trampoline", t) ELSE Zero
      BY Zenon, <2>1 DEF PrepareInitialStack
    <3>2. 2 \in 2 .. 8 /\ \A k \in 3 .. 8 : k \in 2 .. 8 /\ k # 2
      OBVIOUS
    <3> QED  BY Zenon, <3>1, <3>2
  <2>3. left[t].depth = 1 /\ left[t].at = "trampoline" /\ \A r \in Registers : left[t].reg[r] = Zero
    BY <2>1
  <2>4. 1 + 1 = 2 /\ 1 + 7 = 8 /\ \A r \in Registers : 1 + 1 + Slot(r) \in 3 .. 8
    BY SlotFacts
  <2> QED  BY ZenonT(30), <2>1, <2>2, <2>3, <2>4 DEF Whole, Stored
<1> QED  BY SMTT(20), <1>2, <1>3, ContextSwitchAssumption DEF SwitchInit, SwitchInv, Somewhere, Running

LEMMA RunStep ==
  ASSUME SwitchInv, Run
  PROVE  SwitchInv'
<1>1. rip.at = "run" /\ UNCHANGED <<CurrentThread, CtxRSP, stack, rip, rdi, rsi, left>>
  BY DEF Run
<1>2. PICK version \in 1 .. Versions, depth \in 1 .. MaxDepth :
        reg' = Values(CurrentThread, version) /\ rsp' = [rsp EXCEPT !.depth = depth]
  BY DEF Run
<1>3. rsp'.thread = rsp.thread /\ rsp'.depth = depth /\ rsp' \in [thread : All, depth : Nat]
  <2>1. depth \in Nat
    BY ContextSwitchAssumption
  <2> QED  BY <1>2, <2>1, TypeFacts DEF SwitchInv
<1>4. reg' \in [Registers -> Contents]
  BY <1>2, TypeFacts DEF Values, Word, Contents, SwitchInv
<1>5. SwitchTypes'
  BY Zenon, <1>1, <1>3, <1>4 DEF SwitchInv, SwitchTypes
<1>6. Running /\ Running'
  BY <1>1, <1>3 DEF SwitchInv, Somewhere, AtCode, Running
<1> QED  BY ZenonT(30), <1>1, <1>3, <1>5, <1>6 DEF SwitchInv, Somewhere, Whole, Stored

LEMMA InterruptStep ==
  ASSUME SwitchInv, Interrupt
  PROVE  SwitchInv'
<1>1. UNCHANGED <<CurrentThread, CtxRSP, rsp, reg, rip, rdi, rsi, left>>
  BY Zenon DEF Interrupt
<1>2. SwitchTypes /\ rsp.thread \in All /\ rsp.depth \in Nat
  BY Zenon, TypeFacts DEF SwitchInv
<1>3. Intact
  <2>1. Junk \in Contents
    BY ContextSwitchAssumption DEF Junk, Word, Contents, All
  <2> QED  BY <1>2, <2>1, WordsAreNumbers DEF Interrupt, Intact, SwitchTypes
<1>4. SwitchTypes'
  BY ZenonT(30), <1>1, <1>2, <1>3 DEF SwitchTypes, Intact
<1>5. \A t \in Threads \ {rsp'.thread} : Whole(t)'
  BY Zenon, <1>1, <1>3, StaysWhole
<1>6. ASSUME NEW k \in 1 .. 8, Leaving(k)  PROVE Leaving(k)'
  <2>1. k \in 1 .. 15
    OBVIOUS
  <2>2. Stored(rdi, OnStack(k))'
    BY Zenon, <1>1, <1>2, <1>3, <1>6, <2>1, StaysOnStack DEF Leaving
  <2> QED  BY Zenon, <1>1, <1>6, <2>2 DEF Leaving
<1>7. ASSUME NEW k \in 9 .. 15, Resuming(k)  PROVE Resuming(k)'
  <2>1. k \in 1 .. 15
    OBVIOUS
  <2>2. Stored(rsi, OnStack(k))'
    BY Zenon, <1>1, <1>2, <1>3, <1>7, <2>1, StaysOnStack DEF Resuming
  <2> QED  BY Zenon, <1>1, <1>7, <2>2 DEF Resuming
<1> QED  BY Zenon, <1>1, <1>4, <1>5, <1>6, <1>7 DEF SwitchInv, Somewhere, Switching, AtCode, Running

(* A word is written below the stack pointer. *)
LEMMA OneWordPushed ==
  ASSUME SwitchTypes, NEW w \in Contents, rsp.depth + 1 \in Words,
         stack' = [stack EXCEPT ![rsp.thread][rsp.depth + 1] = w],
         rsp' = [rsp EXCEPT !.depth = @ + 1]
  PROVE  /\ Intact /\ stack'[rsp.thread][rsp.depth + 1] = w
         /\ rsp'.thread = rsp.thread /\ rsp'.depth = rsp.depth + 1
         /\ rsp' \in [thread : All, depth : Nat]
<1>1. stack \in [All -> [Words -> Contents]]
  BY Zenon DEF SwitchTypes
<1> QED  BY SMTT(20), <1>1, TypeFacts, WordsAreNumbers DEF Intact

LEMMA OneWordPopped ==
  ASSUME rsp \in [thread : All, depth : Nat], rsp.depth - 1 \in Nat,
         rsp' = [rsp EXCEPT !.depth = @ - 1]
  PROVE  /\ rsp'.thread = rsp.thread /\ rsp'.depth = rsp.depth - 1
         /\ rsp' \in [thread : All, depth : Nat]
  OBVIOUS

LEMMA SwitchToStep ==
  ASSUME SwitchInv, NEW next_ \in Threads, SwitchTo(next_)
  PROVE  SwitchInv'
<1>1. /\ SwitchTypes /\ CurrentThread \in All /\ rsp.thread = CurrentThread
      /\ rsp.depth \in 1 .. MaxDepth /\ rsp.depth \in Nat
  <2>1. SwitchTypes /\ CurrentThread \in All /\ rsp.depth \in Nat
    BY Zenon, TypeFacts DEF SwitchInv
  <2>2. rip.at # "Code"
    BY Zenon DEF SwitchTo
  <2>3. \A k : ~AtCode(k)
    BY <2>2 DEF AtCode
  <2> QED  BY Zenon, <2>1, <2>3 DEF SwitchInv, Somewhere, Running
<1>2. Address("SwitchTo", CurrentThread) \in Contents /\ rsp.depth + 1 \in Words
  <2>1. 0 \in 0 .. Versions
    BY ContextSwitchAssumption
  <2>2. Address("SwitchTo", CurrentThread) \in Contents
    BY Zenon, <1>1, <2>1 DEF Address, Word, Contents
  <2>3. rsp.depth + 1 \in Words
    BY <1>1, ContextSwitchAssumption DEF Words
  <2> QED  BY Zenon, <2>2, <2>3
<1>3. /\ Intact /\ stack'[CurrentThread][rsp.depth + 1] = Address("SwitchTo", CurrentThread)
      /\ rsp'.thread = CurrentThread /\ rsp'.depth = rsp.depth + 1
      /\ rsp' \in [thread : All, depth : Nat]
  BY Zenon, <1>1, <1>2, OneWordPushed DEF SwitchTo
<1>4. /\ left'[CurrentThread].reg = reg /\ left'[CurrentThread].depth = rsp.depth
      /\ left'[CurrentThread].at = "SwitchTo"
      /\ \A t \in All : t # CurrentThread => left'[t] = left[t]
      /\ left' \in [All -> [reg : [Registers -> Contents], depth : 1 .. MaxDepth,
                              at : {"SwitchTo", "trampoline"}]]
  BY <1>1 DEF SwitchTo, SwitchTypes
<1>5. /\ rdi' = CurrentThread /\ rsi' = next_ /\ next_ # CurrentThread /\ CurrentThread' = next_
      /\ rip' = [at |-> "Code", k |-> 1] /\ UNCHANGED <<CtxRSP, reg>>
  BY DEF SwitchTo
<1>6. SwitchTypes'
  BY ZenonT(30), <1>1, <1>3, <1>4, <1>5 DEF SwitchTypes, Intact, All
<1>7. \A t \in Threads \ {rsp'.thread} : Whole(t)'
  <2>1. \A t \in Threads \ {rsp.thread} : left'[t] = left[t] /\ CtxRSP'[t] = CtxRSP[t]
    BY Zenon, <1>1, <1>4, <1>5 DEF All
  <2>2. rsp'.thread = rsp.thread
    BY Zenon, <1>1, <1>3
  <2> QED  BY Zenon, <1>3, <2>1, <2>2, StaysWhole
<1>8. Leaving(1)'
  <2>1. left'[rdi'].depth = rsp.depth /\ left'[rdi'].at = "SwitchTo" /\ left'[rdi'].reg = reg
    BY Zenon, <1>4, <1>5
  <2>2. stack'[rdi'][rsp.depth + 1] = Address("SwitchTo", rdi')
    BY Zenon, <1>3, <1>5
  <2>3. Stored(rdi, OnStack(1))'
    BY Zenon, <2>1, <2>2, EmptyAndFull DEF Stored
  <2>4. rsp.depth + 1 = rsp.depth + 1 + 0 /\ 1 # 8
    BY <1>1
  <2>5. rsp'.depth = left'[rdi'].depth + 1 + Stacked(1)
    BY Zenon, <1>3, <2>1, <2>4, EmptyAndFull
  <2> QED  BY Zenon, <1>3, <1>5, <2>1, <2>3, <2>4, <2>5 DEF Leaving
<1>9. 1 \in 1 .. 8 /\ 1 \in 1 .. 15
  OBVIOUS
<1> QED  BY Zenon, <1>5, <1>6, <1>7, <1>8, <1>9 DEF SwitchInv, Somewhere, Switching, AtCode

LEMMA PushStep ==
  ASSUME SwitchInv, Push
  PROVE  SwitchInv'
<1>1. PICK k \in 1 .. 15 : Switching(k) /\ rip.k = k /\ AtCode(k + 1)'
  BY BeforeInstruction DEF Push, AtOp
<1>2. PICK r \in Registers :
        /\ r = Code[k].reg /\ Slot(r) = k /\ k \in 1 .. 6 /\ k + 1 \in 1 .. 8 /\ k + 1 \in 1 .. 15 /\ k + 1 # 8
        /\ Stacked(k) = k - 1 /\ Stacked(k + 1) = k /\ OnStack(k + 1) = OnStack(k) \cup {r}
        /\ Leaving(k)
  BY <1>1, Pushes DEF Push, AtOp, Switching
<1>3. /\ stack' = [stack EXCEPT ![rsp.thread][rsp.depth + 1] = reg[r]]
      /\ rsp' = [rsp EXCEPT !.depth = @ + 1]
      /\ UNCHANGED <<CurrentThread, CtxRSP, reg, rdi, rsi, left>>
  BY <1>1, <1>2 DEF Push
<1>4. SwitchTypes /\ rdi \in All /\ reg[r] \in Contents /\ rsp.depth \in Nat
  BY ZenonT(30), TypeFacts DEF SwitchInv
<1>5. /\ rsp.thread = rdi /\ left[rdi].depth \in Nat
      /\ rsp.depth = left[rdi].depth + k /\ rsp.depth + 1 = left[rdi].depth + 1 + Slot(r)
      /\ Stored(rdi, OnStack(k)) /\ reg[r] = left[rdi].reg[r]
  <2>1. /\ rsp.thread = rdi /\ left[rdi].depth \in Nat
        /\ rsp.depth = left[rdi].depth + 1 + Stacked(k)
        /\ Stored(rdi, OnStack(k)) /\ reg[r] = left[rdi].reg[r]
    BY ZenonT(30), <1>2, <1>4, LeftFacts DEF Leaving
  <2>2. k \in Nat /\ \A d \in Nat : d + 1 + (k - 1) = d + k /\ d + k + 1 = d + 1 + k
    BY SMTT(20)
  <2> QED  BY Zenon, <1>2, <2>1, <2>2
<1>6. rsp.depth + 1 \in Words
  BY Zenon, <1>4, <1>5, LeftFacts
<1>7. /\ Intact /\ stack'[rdi][rsp.depth + 1] = reg[r]
      /\ rsp'.thread = rdi /\ rsp'.depth = rsp.depth + 1 /\ rsp' \in [thread : All, depth : Nat]
  BY Zenon, <1>3, <1>4, <1>5, <1>6, OneWordPushed
<1>8. Stored(rdi, OnStack(k + 1))'
  <2>1. Stored(rdi, OnStack(k))'
    BY Zenon, <1>2, <1>3, <1>4, <1>5, <1>7, StaysOnStack DEF Leaving
  <2>2. stack'[rdi][left'[rdi].depth + 1 + Slot(r)] = left'[rdi].reg[r]
    BY Zenon, <1>3, <1>5, <1>7
  <2> QED  BY Zenon, <1>2, <1>3, <2>1, <2>2 DEF Stored
<1>9. Leaving(k + 1)'
  <2>1. rsp'.depth = left'[rdi].depth + 1 + Stacked(k + 1)
    BY <1>2, <1>3, <1>5, <1>7
  <2> QED  BY ZenonT(30), <1>2, <1>3, <1>7, <1>8, <2>1 DEF Leaving
<1>10. SwitchTypes'
  BY Zenon, <1>3, <1>4, <1>7 DEF SwitchTypes, Intact
<1>11. \A t \in Threads \ {rsp'.thread} : Whole(t)'
  BY <1>3, <1>5, <1>7, StaysWhole
<1> QED  BY Zenon, <1>1, <1>2, <1>9, <1>10, <1>11 DEF SwitchInv, Somewhere, Switching

LEMMA SaveStep ==
  ASSUME SwitchInv, Save
  PROVE  SwitchInv'
<1>1. Leaving(7) /\ AtCode(8)'
  BY Zenon, AtTheSwitch DEF Save
<1>2. UNCHANGED <<CurrentThread, stack, rsp, reg, rdi, rsi, left>>
  BY ZenonT(30) DEF Save
<1>3. /\ CtxRSP' \in [All -> Nat] /\ CtxRSP'[rdi] = rsp.depth
      /\ \A t \in Threads : t # rdi => CtxRSP'[t] = CtxRSP[t]
  BY TypeFacts DEF Save, SwitchInv, SwitchTypes, All
<1>4. SwitchTypes'
  BY Zenon, <1>2, <1>3 DEF SwitchInv, SwitchTypes
<1>5. Leaving(8)' /\ 8 \in 1 .. 8 /\ 8 \in 1 .. 15
  <2>1. rsp.depth = left[rdi].depth + 1 + Stacked(8) /\ Stored(rdi, OnStack(8))
    BY Zenon, <1>1, EmptyAndFull DEF Leaving
  <2>2. Stored(rdi, OnStack(8))'
    BY Zenon, <1>2, <2>1 DEF Stored
  <2> QED  BY Zenon, <1>1, <1>2, <1>3, <2>1, <2>2, EmptyAndFull DEF Leaving
<1>6. rsp.thread = rdi
  BY ZenonT(30), <1>1 DEF Leaving
<1>7. \A t \in Threads \ {rsp'.thread} : Whole(t)'
  BY ZenonT(30), <1>2, <1>3, <1>6 DEF SwitchInv, Whole, Stored
<1> QED  BY ZenonT(30), <1>1, <1>4, <1>5, <1>7 DEF SwitchInv, Somewhere, Switching

LEMMA LoadStep ==
  ASSUME SwitchInv, Load
  PROVE  SwitchInv'
<1>1. Leaving(8) /\ AtCode(9)'
  BY Zenon, AtTheSwitch DEF Load
<1>2. UNCHANGED <<CurrentThread, CtxRSP, stack, reg, rdi, rsi, left>>
  BY Zenon DEF Load
<1>3. rsp'.thread = rsi /\ rsp'.depth = CtxRSP[rsi] /\ rsp' \in [thread : All, depth : Nat]
  BY TypeFacts DEF Load, SwitchInv
<1>4. /\ rsp.thread = rdi /\ rsi # rdi /\ rsi \in Threads /\ rsi = CurrentThread
      /\ rsp.depth = left[rdi].depth + 1 + 6 /\ Stored(rdi, Registers) /\ CtxRSP[rdi] = rsp.depth
  BY ZenonT(30), <1>1, EmptyAndFull DEF Leaving
<1>5. Whole(rdi) /\ Whole(rsi) /\ left[rsi].depth \in Nat
  <2>1. rdi \in All /\ rsi \in All /\ SwitchTypes
    BY Zenon, TypeFacts DEF SwitchInv
  <2>2. left[rdi].depth \in Nat /\ left[rsi].depth \in Nat
    BY Zenon, <2>1, LeftFacts
  <2>3. CtxRSP[rdi] = left[rdi].depth + 7
    BY <1>4, <2>2
  <2> QED  BY Zenon, <1>4, <2>2, <2>3 DEF SwitchInv, Whole
<1>6. SwitchTypes'
  BY Zenon, <1>2, <1>3 DEF SwitchInv, SwitchTypes
<1>7. Resuming(9)' /\ 9 \in 9 .. 15 /\ 9 \in 1 .. 15
  <2>1. rsp'.depth = left'[rsi].depth + 1 + Stacked(9)
    <3>1. CtxRSP[rsi] = left[rsi].depth + 1 + Stacked(9)
      <4>1. \A n \in Nat : n + 7 = n + 1 + 6
        OBVIOUS
      <4> QED  BY Zenon, <1>5, <4>1, EmptyAndFull DEF Whole
    <3> QED  BY Zenon, <1>2, <1>3, <3>1
  <2> QED  BY ZenonT(30), <1>2, <1>3, <1>4, <1>5, <2>1, EmptyAndFull DEF Resuming, Whole, Stored
<1>8. \A t \in Threads \ {rsp'.thread} : Whole(t)'
  <2>1. \A t \in Threads : Whole(t)
    BY Zenon, <1>4, <1>5 DEF SwitchInv
  <2> QED  BY Zenon, <1>2, <2>1 DEF Whole, Stored
<1> QED  BY Zenon, <1>1, <1>6, <1>7, <1>8 DEF SwitchInv, Somewhere, Switching

OneLess(e, d, n) == e - 1 = d + 1 + (n - 1) /\ e - 1 \in Nat

LEMMA PopsOne ==
  ASSUME NEW d \in Nat, NEW n \in 1 .. 6, NEW e, e = d + 1 + n
  PROVE  OneLess(e, d, n)
BY DEF OneLess

LEMMA PopStep ==
  ASSUME SwitchInv, Pop
  PROVE  SwitchInv'
<1>1. PICK k \in 1 .. 15 : Switching(k) /\ rip.k = k /\ AtCode(k + 1)'
  BY BeforeInstruction DEF Pop, AtOp
<1>2. PICK r \in Registers :
        /\ r = Code[k].reg /\ Slot(r) = Stacked(k) /\ k + 1 \in 9 .. 15 /\ k + 1 \in 1 .. 15
        /\ Stacked(k + 1) = Stacked(k) - 1 /\ Stacked(k) \in 1 .. 6
        /\ r \in OnStack(k) /\ OnStack(k + 1) = OnStack(k) \ {r}
        /\ Resuming(k)
  BY <1>1, Pops DEF Pop, AtOp, Switching
<1>3. /\ SwitchTypes /\ rsi \in All /\ rsp \in [thread : All, depth : Nat]
      /\ reg \in [Registers -> Contents] /\ left[rsi].depth \in Nat
      /\ left[rsi].reg \in [Registers -> Contents]
  BY Zenon, TypeFacts, LeftFacts DEF SwitchInv
<1>4. /\ rsp.thread = rsi /\ rsp.depth = left[rsi].depth + 1 + Slot(r)
      /\ TopWord = left[rsi].reg[r]
  <2>1. /\ rsp.thread = rsi /\ rsp.depth = left[rsi].depth + 1 + Slot(r)
        /\ stack[rsi][left[rsi].depth + 1 + Slot(r)] = left[rsi].reg[r]
    BY Zenon, <1>2 DEF Resuming, Stored
  <2> QED  BY Zenon, <2>1 DEF TopWord
<1>5. /\ reg' \in [Registers -> Contents] /\ reg'[r] = left[rsi].reg[r]
      /\ \A q \in Registers : q # r => reg'[q] = reg[q]
      /\ UNCHANGED <<CurrentThread, CtxRSP, stack, rdi, rsi, left>>
  BY <1>1, <1>2, <1>3, <1>4 DEF Pop
<1>6. /\ rsp'.thread = rsi /\ rsp'.depth = left[rsi].depth + 1 + Stacked(k + 1)
      /\ rsp' \in [thread : All, depth : Nat]
  <2>1. rsp.depth - 1 = left[rsi].depth + 1 + Stacked(k + 1) /\ rsp.depth - 1 \in Nat
    <3>1. Slot(r) \in 1 .. 6 /\ Stacked(k + 1) = Slot(r) - 1
      BY Zenon, <1>2
    <3>2. OneLess(rsp.depth, left[rsi].depth, Slot(r))
      BY Zenon, <1>3, <1>4, <3>1, PopsOne
    <3> QED  BY Zenon, <3>1, <3>2 DEF OneLess
  <2>2. rsp' = [rsp EXCEPT !.depth = @ - 1]
    BY Zenon DEF Pop
  <2> QED  BY ZenonT(30), <1>3, <1>4, <2>1, <2>2, OneWordPopped
<1>7. Resuming(k + 1)'
  BY Zenon, <1>2, <1>5, <1>6 DEF Resuming, Stored
<1>8. SwitchTypes'
  BY ZenonT(30), <1>3, <1>5, <1>6 DEF SwitchTypes
<1>9. \A t \in Threads \ {rsp'.thread} : Whole(t)'
  BY ZenonT(30), <1>4, <1>5, <1>6 DEF SwitchInv, Whole, Stored
<1> QED  BY Zenon, <1>1, <1>2, <1>7, <1>8, <1>9 DEF SwitchInv, Somewhere, Switching

LEMMA AddressKind ==
  ASSUME NEW place, NEW t
  PROVE  Address(place, t).kind = place
BY DEF Address, Word

Same(f, g) == f = g

LEMMA SameFunction ==
  ASSUME NEW S, NEW T, NEW f \in [S -> T], NEW g \in [S -> T], \A x \in S : f[x] = g[x]
  PROVE  Same(f, g)
BY DEF Same

(* The return goes where the thread left, with what it left. *)
LEMMA RetResumes ==
  ASSUME SwitchInv, Ret
  PROVE  /\ rsp.thread = CurrentThread
         /\ rip' = [at |-> "run", k |-> 0] /\ TopWord = Address(left[CurrentThread].at, CurrentThread)
         /\ reg' = left[CurrentThread].reg
         /\ rsp' = [thread |-> CurrentThread, depth |-> left[CurrentThread].depth]
<1>1. Resuming(15)
  BY Zenon, AtTheSwitch DEF Ret
<1>2. /\ rsp \in [thread : All, depth : Nat] /\ reg \in [Registers -> Contents]
      /\ left[rsi].depth \in Nat /\ left[rsi].reg \in [Registers -> Contents]
      /\ left[rsi].at \in {"SwitchTo", "trampoline"}
  BY Zenon, TypeFacts, LeftFacts DEF SwitchInv
<1>3. /\ rsp.thread = rsi /\ rsi = CurrentThread /\ rsp.depth = left[rsi].depth + 1
      /\ TopWord = Address(left[rsi].at, rsi) /\ \A r \in Registers : reg[r] = left[rsi].reg[r]
  <2>1. /\ rsp.thread = rsi /\ rsi = CurrentThread /\ rsp.depth = left[rsi].depth + 1 + Stacked(15)
        /\ stack[rsi][left[rsi].depth + 1] = Address(left[rsi].at, rsi)
        /\ \A r \in Registers : reg[r] = left[rsi].reg[r]
    BY Zenon, <1>1, EmptyAndFull DEF Resuming, Stored
  <2>2. \A d \in Nat : d + 1 + 0 = d + 1
    OBVIOUS
  <2>3. rsp.depth = left[rsi].depth + 1
    BY ZenonT(30), <1>2, <2>1, <2>2, EmptyAndFull
  <2> QED  BY Zenon, <2>1, <2>3 DEF TopWord
<1>4. TopWord.kind = left[rsi].at /\ reg = left[rsi].reg
  <2>1. Address(left[rsi].at, rsi).kind = left[rsi].at
    BY Zenon, AddressKind
  <2>2. reg = left[rsi].reg
    <3>1. Same(reg, left[rsi].reg)
      BY Zenon, <1>2, <1>3, SameFunction
    <3> QED  BY Zenon, <3>1 DEF Same
  <2> QED  BY Zenon, <1>3, <2>1, <2>2
<1> QED  BY <1>2, <1>3, <1>4 DEF Ret

LEMMA RetStep ==
  ASSUME SwitchInv, Ret
  PROVE  SwitchInv'
<1>1. /\ SwitchTypes /\ CurrentThread \in All /\ left[CurrentThread].depth \in Nat
      /\ left[CurrentThread].depth \in 1 .. MaxDepth
  BY Zenon, TypeFacts, LeftFacts DEF SwitchInv
<1>2. UNCHANGED <<CurrentThread, CtxRSP, stack, reg, rdi, rsi, left>>
  BY Zenon DEF Ret
<1>3. /\ rsp.thread = CurrentThread /\ rsp'.thread = CurrentThread
      /\ rsp'.depth = left[CurrentThread].depth /\ rsp' \in [thread : All, depth : Nat]
      /\ rip'.at = "run"
  <2>1. /\ rsp.thread = CurrentThread /\ rip' = [at |-> "run", k |-> 0]
        /\ rsp' = [thread |-> CurrentThread, depth |-> left[CurrentThread].depth]
    BY Zenon, RetResumes
  <2> QED  BY Zenon, <1>1, <2>1
<1>4. SwitchTypes'
  BY Zenon, <1>1, <1>2, <1>3 DEF SwitchTypes
<1>5. Running'
  BY Zenon, <1>1, <1>2, <1>3 DEF Running
<1> QED  BY ZenonT(30), <1>2, <1>3, <1>4, <1>5 DEF SwitchInv, Somewhere, Whole, Stored

LEMMA NextSwitchInv ==
  ASSUME SwitchInv, [SwitchNext]_switchVars
  PROVE  SwitchInv'
<1>1. CASE UNCHANGED switchVars
  <2>1. SwitchTypes'
    BY Zenon, <1>1 DEF switchVars, SwitchInv, SwitchTypes
  <2>2. Somewhere'
    BY ZenonT(30), <1>1 DEF switchVars, SwitchInv, Somewhere, Switching, AtCode, Running, Leaving, Resuming, Stored
  <2>3. \A t \in Threads \ {rsp'.thread} : Whole(t)'
    BY ZenonT(30), <1>1 DEF switchVars, SwitchInv, Whole, Stored
  <2> QED  BY Zenon, <2>1, <2>2, <2>3 DEF SwitchInv
<1>2. CASE SwitchNext
  BY Zenon, <1>2, RunStep, PushStep, SaveStep, LoadStep, PopStep, RetStep, InterruptStep, SwitchToStep
     DEF SwitchNext
<1> QED  BY <1>1, <1>2, Zenon

LEMMA SwitchInvAlways ==
  SwitchSpec => []SwitchInv
<1>1. SwitchInit => SwitchInv
  BY InitSwitchInv
<1>2. SwitchInv /\ [SwitchNext]_switchVars => SwitchInv'
  BY NextSwitchInv
<1> QED  BY <1>1, <1>2, PTL DEF SwitchSpec

(* ContextsAreWhole for any number of threads, depth of calls and size of an *)
(* interrupt's frame: nothing but its own thread writes to the context that  *)
(* ArchSwitchContext has saved.                                              *)
THEOREM SavedContextsAreWhole == SwitchSpec => []ContextsAreWhole
<1>1. ASSUME SwitchInv, NEW t \in Threads \ {CurrentThread, rsp.thread}
      PROVE  /\ \A k \in 1 .. 6 : stack[t][CtxRSP[t] - k + 1] =
                   left[t].reg[<< "r15", "r14", "r13", "r12", "rbx", "rbp" >>[k]]
             /\ stack[t][CtxRSP[t] - 6] = Address(left[t].at, t)
  <2>1. Whole(t) /\ left[t].depth \in Nat
    BY Zenon, <1>1, LeftFacts DEF SwitchInv, All
  <2>2. \A k \in 1 .. 6 : \E r \in Registers :
          r = << "r15", "r14", "r13", "r12", "rbx", "rbp" >>[k] /\ Slot(r) = 7 - k
    BY SMTT(20) DEF Registers, Slot
  <2>3. CtxRSP[t] = left[t].depth + 7
    BY Zenon, <2>1 DEF Whole
  <2>4. /\ \A k \in 1 .. 6 : CtxRSP[t] - k + 1 = left[t].depth + 1 + (7 - k)
        /\ CtxRSP[t] - 6 = left[t].depth + 1
    BY <2>1, <2>3
  <2>5. /\ stack[t][left[t].depth + 1] = Address(left[t].at, t)
        /\ \A r \in Registers : stack[t][left[t].depth + 1 + Slot(r)] = left[t].reg[r]
    BY Zenon, <2>1 DEF Whole, Stored
  <2>6. ASSUME NEW k \in 1 .. 6
        PROVE  stack[t][CtxRSP[t] - k + 1] =
                 left[t].reg[<< "r15", "r14", "r13", "r12", "rbx", "rbp" >>[k]]
    <3>1. PICK r \in Registers :
            r = << "r15", "r14", "r13", "r12", "rbx", "rbp" >>[k] /\ Slot(r) = 7 - k
      BY Zenon, <2>2
    <3>2. stack[t][left[t].depth + 1 + (7 - k)] = left[t].reg[r]
      BY Zenon, <2>5, <3>1
    <3>3. CtxRSP[t] - k + 1 = left[t].depth + 1 + (7 - k)
      BY Zenon, <2>4
    <3> QED  BY Zenon, <3>1, <3>2, <3>3
  <2> QED  BY Zenon, <2>4, <2>5, <2>6
<1>2. SwitchInv => ContextsAreWhole
  BY <1>1 DEF ContextsAreWhole
<1> QED  BY <1>2, SwitchInvAlways, PTL

(* ResumesAsItLeft, likewise: ArchSwitchContext returns to where the next    *)
(* thread had called it, with the registers and the stack pointer of then.   *)
THEOREM ThreadsResumeAsTheyLeft == SwitchSpec => ResumesAsItLeft
<1> DEFINE Resumes ==
      rip.at = "Code" /\ rip'.at # "Code" =>
        /\ rip'.at = "run"
        /\ TopWord = Address(left[CurrentThread].at, CurrentThread)
        /\ reg' = left[CurrentThread].reg
        /\ rsp' = [thread |-> CurrentThread, depth |-> left[CurrentThread].depth]
<1>1. SwitchInv /\ [SwitchNext]_switchVars => [Resumes]_switchVars
  <2> SUFFICES ASSUME SwitchInv, SwitchNext, rip.at = "Code", rip'.at # "Code"
               PROVE  Resumes
    OBVIOUS
  <2>1. Forward => rip'.at = "Code"
    BY BeforeInstruction DEF AtCode
  <2>2. Ret
    BY <2>1 DEF SwitchNext, Run, SwitchTo, Push, Save, Load, Pop, Interrupt
  <2> QED  BY <2>2, RetResumes
<1> QED  BY <1>1, SwitchInvAlways, PTL DEF SwitchSpec, ResumesAsItLeft
-------------------------------------------------------------------------------
(* MADT: proofs for tables, entries and arrays of any length. *)

(* What the history says of an entry. *)
WalkedEntry == [at : Nat, type : EntryType, length : Nat]

(* The inductive invariant. *)
ParseInv ==
  /\ p \in Nat /\ eh \in EntryHeader
  /\ entries \in Seq(WalkedEntry) /\ ioapics \in Seq(Nat) /\ isos \in Seq(Nat)
  /\ TheFirstAreKept

(* The sizes are numbers, and the arrays hold something. *)
LEMMA Sizes ==
  /\ MADTEntryHeader \in Nat /\ MADTHeader \in Nat /\ IOAPICs \in Nat \ {0} /\ ISOs \in Nat \ {0}
  /\ MADTEntryHeader + MADT_IOAPIC \in Nat /\ MADTEntryHeader + MADT_ISO \in Nat
<1>1. /\ MADTEntryHeader \in Nat \ {0} /\ MADTHeader \in Nat \ {0}
      /\ MADT_IOAPIC \in Nat \ {0} /\ MADT_ISO \in Nat \ {0}
      /\ IOAPICs \in Nat \ {0} /\ ISOs \in Nat \ {0}
  BY Zenon, MADTAssumption
<1> QED  BY <1>1

(* A place among the first n + 1 is the last of them or one of the first n. *)
LEMMA LastOrBefore ==
  ASSUME NEW n \in Nat, NEW d \in 1 .. n + 1
  PROVE  d = n + 1 \/ d \in 1 .. n
  OBVIOUS

LEMMA BeforeLast ==
  ASSUME NEW n \in Nat, NEW d \in 1 .. n
  PROVE  d < n + 1
  OBVIOUS

(* t is s with e after it. *)
Longer(s, t, e) ==
  /\ Len(s) \in Nat /\ DOMAIN s = 1 .. Len(s) /\ Len(t) = Len(s) + 1
  /\ DOMAIN t = 1 .. Len(s) + 1 /\ t[Len(s) + 1] = e /\ \A k \in 1 .. Len(s) : t[k] = s[k]

(* Append makes a sequence longer by its element. *)
LEMMA Appended ==
  ASSUME NEW S, NEW s \in Seq(S), NEW e \in S
  PROVE  Append(s, e) \in Seq(S) /\ Longer(s, Append(s, e), e)
BY DEF Longer

(* An entry that is not of the type or too short, or one past a full array,  *)
(* leaves the first ones what they were.                                     *)
LEMMA StaysFirst ==
  ASSUME NEW s, NEW t, NEW e, Longer(s, t, e),
         NEW c \in Nat, NEW n \in Nat \ {0}, NEW type, NEW least \in Nat,
         NEW where \in [1 .. c -> DOMAIN s], AreFirst(where, s, type, least, n),
         ~(Fits(e, type, least) /\ c < n)
  PROVE  where \in [1 .. c -> DOMAIN t] /\ AreFirst(where, t, type, least, n)
<1>1. /\ Len(s) \in Nat /\ DOMAIN s = 1 .. Len(s) /\ DOMAIN t = 1 .. Len(s) + 1
      /\ t[Len(s) + 1] = e /\ \A k \in 1 .. Len(s) : t[k] = s[k]
  BY Zenon DEF Longer
<1>2. \A k \in 1 .. c : where[k] \in 1 .. Len(s) /\ t[where[k]] = s[where[k]]
  BY Zenon, <1>1
<1>3. DOMAIN where = 1 .. c
  OBVIOUS
<1>4. AreFirst(where, t, type, least, n)
  <2>1. \A k \in 1 .. c : k <= n /\ Fits(t[where[k]], type, least)
    BY ZenonT(30), <1>2, <1>3 DEF AreFirst
  <2>2. ASSUME NEW d \in DOMAIN t, Fits(t[d], type, least)
        PROVE  (\E k \in 1 .. c : where[k] = d) \/ (n \in 1 .. c /\ where[n] < d)
    <3>1. CASE d = Len(s) + 1
      <4>1. ~(c < n)
        BY Zenon, <1>1, <2>2, <3>1
      <4>2. n \in 1 .. c
        BY <4>1
      <4>3. where[n] \in 1 .. Len(s)
        BY Zenon, <1>2, <4>2
      <4>4. where[n] < Len(s) + 1
        BY Zenon, <1>1, <4>3, BeforeLast
      <4> QED  BY Zenon, <3>1, <4>2, <4>4
    <3>2. CASE d \in 1 .. Len(s)
      BY ZenonT(30), <1>1, <1>3, <2>2, <3>2 DEF AreFirst
    <3> QED  BY Zenon, <1>1, <2>2, <3>1, <3>2, LastOrBefore
  <2> QED  BY Zenon, <1>3, <2>1, <2>2 DEF AreFirst
<1>5. where \in [1 .. c -> DOMAIN t]
  BY <1>1, <1>2
<1> QED  BY Zenon, <1>4, <1>5

(* more lists of t what where lists of s, and then e. *)
AndThen(more, t, where, s, c, e) ==
  (\A k \in 1 .. c : t[more[k]] = s[where[k]]) /\ t[more[c + 1]] = e

(* An entry of the type that is long enough is the next one of the first. *)
LEMMA OneMore ==
  ASSUME NEW s, NEW t, NEW e, Longer(s, t, e),
         NEW c \in Nat, NEW n \in Nat \ {0}, NEW type, NEW least \in Nat,
         NEW where \in [1 .. c -> DOMAIN s], AreFirst(where, s, type, least, n),
         Fits(e, type, least), c < n
  PROVE  \E more \in [1 .. c + 1 -> DOMAIN t] :
           AreFirst(more, t, type, least, n) /\ AndThen(more, t, where, s, c, e)
<1>1. /\ Len(s) \in Nat /\ DOMAIN s = 1 .. Len(s) /\ DOMAIN t = 1 .. Len(s) + 1
      /\ t[Len(s) + 1] = e /\ \A k \in 1 .. Len(s) : t[k] = s[k]
  BY Zenon DEF Longer
<1> DEFINE more == [k \in 1 .. c + 1 |-> IF k = c + 1 THEN Len(s) + 1 ELSE where[k]]
<1>2. \A k \in 1 .. c : where[k] \in 1 .. Len(s) /\ more[k] = where[k]
  BY <1>1
<1>3. more[c + 1] = Len(s) + 1 /\ DOMAIN more = 1 .. c + 1 /\ DOMAIN where = 1 .. c
  BY SMTT(20)
<1>4. more \in [1 .. c + 1 -> DOMAIN t]
  BY <1>1, <1>2
<1> HIDE DEF more
<1>5. \A k \in 1 .. c + 1 : k \in 1 .. c \/ k = c + 1
  OBVIOUS
<1>6. AreFirst(more, t, type, least, n)
  <2>1. \A k \in 1 .. c + 1 : k <= n
    OBVIOUS
  <2>2. \A k \in 1 .. c + 1 : Fits(t[more[k]], type, least)
    BY Zenon, <1>1, <1>2, <1>3, <1>5 DEF AreFirst
  <2>3. ASSUME NEW j \in 1 .. c + 1, NEW k \in 1 .. c + 1, j < k PROVE more[j] < more[k]
    <3>1. j \in 1 .. c
      BY SMTT(20), <2>3
    <3>2. CASE k = c + 1
      BY <1>1, <1>2, <1>3, <3>1, <3>2
    <3>3. CASE k \in 1 .. c
      BY ZenonT(30), <1>2, <1>3, <2>3, <3>1, <3>3 DEF AreFirst
    <3> QED  BY <1>5, <3>2, <3>3
  <2>4. ASSUME NEW d \in DOMAIN t, Fits(t[d], type, least)
        PROVE  \E k \in 1 .. c + 1 : more[k] = d
    <3>1. CASE d = Len(s) + 1
      BY <1>3, <3>1
    <3>2. CASE d \in 1 .. Len(s)
      <4>1. n \notin 1 .. c
        OBVIOUS
      <4>2. PICK k \in 1 .. c : where[k] = d
        BY Zenon, <1>1, <1>3, <2>4, <3>2, <4>1 DEF AreFirst
      <4> QED  BY <1>2, <4>2
    <3> QED  BY Zenon, <1>1, <2>4, <3>1, <3>2, LastOrBefore
  <2> QED  BY Zenon, <1>3, <2>1, <2>2, <2>3, <2>4 DEF AreFirst
<1> QED  BY ZenonT(30), <1>1, <1>2, <1>3, <1>4, <1>6 DEF AndThen

(* What RecordIOAPIC adds and leaves. *)
LEMMA RecordIOAPICStep ==
  ASSUME ParseInv, NEW e \in WalkedEntry, entries' = Append(entries, e), p = e.at,
         ioapics' = IF e.type = "IOAPIC" THEN RecordIOAPIC(p, e.length, ioapics) ELSE ioapics
  PROVE  /\ ioapics' \in Seq(Nat)
         /\ \E where \in [1 .. Len(ioapics') -> DOMAIN entries'] :
              /\ AreFirst(where, entries', "IOAPIC", MADTEntryHeader + MADT_IOAPIC, IOAPICs)
              /\ \A k \in 1 .. Len(ioapics') : ioapics'[k] = entries'[where[k]].at + MADTEntryHeader
<1>1. PICK least \in Nat : least = MADTEntryHeader + MADT_IOAPIC
  BY Zenon, Sizes
<1>2. entries \in Seq(WalkedEntry) /\ ioapics \in Seq(Nat) /\ p \in Nat
  BY Zenon DEF ParseInv
<1>3. Len(ioapics) \in Nat /\ Longer(entries, entries', e)
  BY <1>2, Appended
<1>4. PICK where \in [1 .. Len(ioapics) -> DOMAIN entries] :
        /\ AreFirst(where, entries, "IOAPIC", least, IOAPICs)
        /\ \A k \in 1 .. Len(ioapics) : ioapics[k] = entries[where[k]].at + MADTEntryHeader
  BY Zenon, <1>1 DEF ParseInv, TheFirstAreKept
<1>5. AreFirst(where, entries, "IOAPIC", least, IOAPICs) /\ IOAPICs \in Nat \ {0}
  BY Zenon, <1>4, Sizes
<1>6. CASE Fits(e, "IOAPIC", least) /\ Len(ioapics) < IOAPICs
  <2>1. ioapics' = Append(ioapics, p + MADTEntryHeader) /\ p + MADTEntryHeader \in Nat
    BY <1>1, <1>2, <1>6, Sizes DEF RecordIOAPIC, Fits
  <2>2. ioapics' \in Seq(Nat) /\ Longer(ioapics, ioapics', p + MADTEntryHeader)
    BY Zenon, <1>2, <2>1, Appended
  <2>3. PICK more \in [1 .. Len(ioapics) + 1 -> DOMAIN entries'] :
          /\ AreFirst(more, entries', "IOAPIC", least, IOAPICs)
          /\ AndThen(more, entries', where, entries, Len(ioapics), e)
    BY Zenon, <1>3, <1>5, <1>6, OneMore
  <2>4. Len(ioapics') = Len(ioapics) + 1
    BY Zenon, <2>2 DEF Longer
  <2>5. \A k \in 1 .. Len(ioapics) + 1 : ioapics'[k] = entries'[more[k]].at + MADTEntryHeader
    <3>1. \A k \in 1 .. Len(ioapics) + 1 : k \in 1 .. Len(ioapics) \/ k = Len(ioapics) + 1
      BY <1>3
    <3> QED  BY Zenon, <1>4, <2>2, <2>3, <3>1 DEF Longer, AndThen
  <2>6. /\ more \in [1 .. Len(ioapics') -> DOMAIN entries']
        /\ AreFirst(more, entries', "IOAPIC", MADTEntryHeader + MADT_IOAPIC, IOAPICs)
        /\ \A k \in 1 .. Len(ioapics') : ioapics'[k] = entries'[more[k]].at + MADTEntryHeader
    BY Zenon, <1>1, <2>3, <2>4, <2>5
  <2> QED  BY Zenon, <2>2, <2>6
<1>7. CASE ~(Fits(e, "IOAPIC", least) /\ Len(ioapics) < IOAPICs)
  <2>1. ioapics' = ioapics
    BY <1>1, <1>7 DEF RecordIOAPIC, Fits
  <2>2. /\ where \in [1 .. Len(ioapics) -> DOMAIN entries']
        /\ AreFirst(where, entries', "IOAPIC", least, IOAPICs)
    BY Zenon, <1>3, <1>5, <1>7, StaysFirst
  <2>3. \A k \in 1 .. Len(ioapics) : entries'[where[k]] = entries[where[k]]
    BY Zenon, <1>3 DEF Longer
  <2>4. /\ where \in [1 .. Len(ioapics') -> DOMAIN entries']
        /\ AreFirst(where, entries', "IOAPIC", MADTEntryHeader + MADT_IOAPIC, IOAPICs)
        /\ \A k \in 1 .. Len(ioapics') : ioapics'[k] = entries'[where[k]].at + MADTEntryHeader
    BY Zenon, <1>1, <1>4, <2>1, <2>2, <2>3
  <2> QED  BY Zenon, <1>2, <2>1, <2>4
<1> QED  BY Zenon, <1>6, <1>7

(* What RecordISO adds and leaves. *)
LEMMA RecordISOStep ==
  ASSUME ParseInv, NEW e \in WalkedEntry, entries' = Append(entries, e), p = e.at,
         isos' = IF e.type = "InterruptSourceOverride" THEN RecordISO(p, e.length, isos) ELSE isos
  PROVE  /\ isos' \in Seq(Nat)
         /\ \E where \in [1 .. Len(isos') -> DOMAIN entries'] :
              AreFirst(where, entries', "InterruptSourceOverride", MADTEntryHeader + MADT_ISO, ISOs)
<1>1. PICK least \in Nat : least = MADTEntryHeader + MADT_ISO
  BY Zenon, Sizes
<1>2. entries \in Seq(WalkedEntry) /\ isos \in Seq(Nat) /\ p \in Nat
  BY Zenon DEF ParseInv
<1>3. Len(isos) \in Nat /\ Longer(entries, entries', e)
  BY <1>2, Appended
<1>4. PICK where \in [1 .. Len(isos) -> DOMAIN entries] :
        AreFirst(where, entries, "InterruptSourceOverride", least, ISOs)
  BY Zenon, <1>1 DEF ParseInv, TheFirstAreKept
<1>5. CASE Fits(e, "InterruptSourceOverride", least) /\ Len(isos) < ISOs
  <2>1. isos' = Append(isos, p + MADTHeader) /\ p + MADTHeader \in Nat
    BY SMTT(20), <1>1, <1>2, <1>5, Sizes DEF RecordISO, Fits
  <2>2. isos' \in Seq(Nat) /\ Len(isos') = Len(isos) + 1
    <3>1. isos' \in Seq(Nat) /\ Longer(isos, isos', p + MADTHeader)
      BY Zenon, <1>2, <2>1, Appended
    <3> QED  BY Zenon, <3>1 DEF Longer
  <2>3. \E more \in [1 .. Len(isos) + 1 -> DOMAIN entries'] :
          AreFirst(more, entries', "InterruptSourceOverride", least, ISOs)
    BY Zenon, <1>3, <1>4, <1>5, OneMore, Sizes
  <2> QED  BY Zenon, <1>1, <2>2, <2>3
<1>6. CASE ~(Fits(e, "InterruptSourceOverride", least) /\ Len(isos) < ISOs)
  <2>1. isos' = isos
    BY <1>1, <1>6 DEF RecordISO, Fits
  <2>2. /\ where \in [1 .. Len(isos) -> DOMAIN entries']
        /\ AreFirst(where, entries', "InterruptSourceOverride", least, ISOs)
    BY Zenon, <1>3, <1>4, <1>6, StaysFirst, Sizes
  <2> QED  BY Zenon, <1>1, <1>2, <2>1, <2>2
<1> QED  BY Zenon, <1>5, <1>6

(* A turn of the loop that does not end it. *)
LEMMA EntryStep ==
  ASSUME ParseInv, Entry, eh.Length # 0
  PROVE  ParseInv'
<1>1. PICK e : e = [at |-> p, type |-> eh.Type, length |-> eh.Length]
  BY ZenonT(30)
<1>2. e \in WalkedEntry /\ e.at = p /\ e.type = eh.Type /\ e.length = eh.Length
  <2>1. p \in Nat /\ eh.Type \in EntryType /\ eh.Length \in Nat
    BY MADTAssumption DEF ParseInv, EntryHeader
  <2> QED  BY Zenon, <1>1, <2>1 DEF WalkedEntry
<1>3. entries' = Append(entries, e) /\ entries \in Seq(WalkedEntry)
  BY ZenonT(30), <1>1 DEF Entry, ParseInv
<1>4. entries' \in Seq(WalkedEntry)
  BY <1>2, <1>3
<1>5. /\ ioapics' = IF e.type = "IOAPIC" THEN RecordIOAPIC(p, e.length, ioapics) ELSE ioapics
      /\ isos' = IF e.type = "InterruptSourceOverride" THEN RecordISO(p, e.length, isos) ELSE isos
  BY ZenonT(30), <1>2 DEF Entry
<1>6. p' \in Nat /\ eh' \in EntryHeader
  <2>1. p' \in Nat
    BY MADTAssumption DEF Entry, MoveTo, ParseInv, EntryHeader
  <2>2. eh' \in EntryHeader
    BY Zenon DEF Entry, MoveTo, ParseInv
  <2> QED  BY Zenon, <2>1, <2>2
<1> QED
  BY Zenon, <1>2, <1>3, <1>4, <1>5, <1>6, RecordIOAPICStep, RecordISOStep
  DEF ParseInv, TheFirstAreKept

(* The invariant holds throughout. *)
LEMMA ParseInvAlways == ParseSpec => []ParseInv
<1>1. ASSUME ParseInit PROVE ParseInv
  <2>1. /\ entries = <<>> /\ ioapics = <<>> /\ isos = <<>> /\ p \in Nat /\ eh \in EntryHeader
        /\ Len(<<>>) = 0 /\ <<>> \in Seq(WalkedEntry) /\ <<>> \in Seq(Nat) /\ DOMAIN <<>> = {}
        /\ <<>> \in [1 .. 0 -> DOMAIN <<>>] /\ 1 .. 0 = {}
    BY <1>1 DEF ParseInit
  <2>2. \A type, least, n : AreFirst(<<>>, <<>>, type, least, n)
    BY Zenon, <2>1 DEF AreFirst
  <2> QED  BY Zenon, <2>1, <2>2 DEF ParseInv, TheFirstAreKept
<1>2. ASSUME ParseInv, [ParseNext]_parseVars PROVE ParseInv'
  <2>1. CASE Entry /\ eh.Length # 0
    BY Zenon, <1>2, <2>1, EntryStep
  <2>2. CASE ~(Entry /\ eh.Length # 0)
    <3>1. UNCHANGED <<p, eh, ioapics, isos, entries>>
      BY Zenon, <1>2, <2>2 DEF ParseNext, parseVars, Begin, Entry, ReturnTrue, Finished
    <3> QED  BY Zenon, <1>2, <3>1 DEF ParseInv, TheFirstAreKept
  <2> QED  BY Zenon, <2>1, <2>2
<1> QED  BY <1>1, <1>2, PTL DEF ParseSpec

(* TheFirstAreKept for tables and arrays of every length: ParseMADT records  *)
(* the first I/O APICs and overrides of the table and no others.             *)
THEOREM TheFirstAreAlwaysKept == ParseSpec => []TheFirstAreKept
<1>1. ParseInv => TheFirstAreKept
  BY DEF ParseInv
<1> QED  BY <1>1, ParseInvAlways, PTL
-------------------------------------------------------------------------------
(* The count of the ticks, which needs the cardinality of two sets. *)

FS == INSTANCE FiniteSetTheorems

LEMMA SmallCardinalities == Cardinality({1}) = 1 /\ Cardinality({}) = 0
<1>1. \A S : FS!Cardinality(S) = Cardinality(S)
  BY Zenon DEF FS!Cardinality, Cardinality
<1>2. FS!Cardinality({1}) = 1 /\ FS!Cardinality({}) = 0
  BY Zenon, FS!FS_Singleton, FS!FS_EmptySet
<1> QED  BY Zenon, <1>1, <1>2

(* TickCount is the number of timer interrupts that have been handled. *)
THEOREM TicksAreCounted == Spec => []EveryTickIsCounted
<1>1. IInv => EveryTickIsCounted
  <2> SUFFICES ASSUME IInv PROVE EveryTickIsCounted
    OBVIOUS
  <2> DEFINE S == {i \in DOMAIN frames :
                     frames[i].vec = VEC_TIMER /\ frames[i].at \in {"dispatch", "OnTimer"}}
  <2>1. DOMAIN frames \subseteq {1} BY DEF IInv, Single
  <2>2. frames # <<>> => 1 \in DOMAIN frames BY DEF IInv, Single
  <2>3. S = IF Due THEN {1} ELSE {} BY SMTT(20), <2>1, <2>2 DEF Due
  <2>4. Cardinality({1}) = 1 /\ Cardinality({}) = 0 BY SmallCardinalities
  <2>5. Uncounted = IF Due THEN 1 ELSE 0 BY Zenon, <2>3, <2>4 DEF Uncounted
  <2> QED BY <2>5 DEF IInv, Types, Ticks, EveryTickIsCounted
<1> QED BY <1>1, IInvAlways, PTL
===============================================================================
