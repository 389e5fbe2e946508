------------------------------ MODULE TicketLock ------------------------------
(***************************************************************************)
(* SpinLock.hpp: the ticket lock that Lock, TryLock and Unlock implement   *)
(* with atomic operations on two counters of 32 bits.  One action is one   *)
(* atomic operation; a turn of the spin loop that finds another owner      *)
(* changes nothing.                                                        *)
(***************************************************************************)
EXTENDS Integers, FiniteSets

CONSTANTS
  CPUs,   \* the processors that use the lock
  M       \* the counters wrap to 0 at M: 2^32 in the code

ASSUME CountersAssumption ==
  /\ M \in Nat
  /\ IsFiniteSet(CPUs) /\ Cardinality(CPUs) < M

VARIABLES
  Next, Owner,   \* the two fields of TicketSpinLock
  pc,            \* where each CPU is
  t,             \* the ticket of a CPU in Lock or holding the lock; 0 out of scope
  o,             \* what TryLock has read from Owner; 0 out of scope
  ahead          \* auxiliary: who held or awaited the lock when a CPU took its
                 \* ticket and has not released it since

vars == <<Next, Owner, pc, t, o, ahead>>

Counter == 0 .. M - 1

Inc(x) == IF x = M - 1 THEN 0 ELSE x + 1

(* How many increments lead from a to b. *)
Dist(a, b) == IF a <= b THEN b - a ELSE b - a + M

InLine == {c \in CPUs : pc[c] \in {"spin", "held"}}

Trying == {c \in CPUs : pc[c] \in {"owner", "next"}}

Init ==
  /\ Next = 0 /\ Owner = 0
  /\ pc = [c \in CPUs |-> "out"]
  /\ t = [c \in CPUs |-> 0]
  /\ o = [c \in CPUs |-> 0]
  /\ ahead = [c \in CPUs |-> {}]

(* The bound of the model: Next is not incremented through all its values    *)
(* between the two reads and the compare-exchange of one TryLock.            *)
NoFullWrap == \A c \in Trying : Inc(Next) # o[c]

Take(c) ==
  /\ NoFullWrap
  /\ Next' = Inc(Next)
  /\ t' = [t EXCEPT ![c] = Next]
  /\ o' = [o EXCEPT ![c] = 0]
  /\ ahead' = [ahead EXCEPT ![c] = InLine]
  /\ UNCHANGED Owner

Goto(c, to) == pc' = [pc EXCEPT ![c] = to]

(* Lock: the fetch_add. *)
Lock(c) ==
  /\ pc[c] = "out"
  /\ Goto(c, "spin")
  /\ Take(c)

\* Wrong form: the next in line is let in beside the holder.
SpinAnyTurn(c) ==
  /\ pc[c] = "spin"
  /\ \/ Owner = t[c]
     \/ Inc(Owner) = t[c] /\ \E d \in CPUs : pc[d] = "held"
  /\ Goto(c, "held")
  /\ UNCHANGED <<Next, Owner, t, o, ahead>>

\* Wrong form: the last ticket is served first.
SpinLastFirst(c) ==
  /\ pc[c] = "spin" /\ Inc(t[c]) = Next /\ \A d \in CPUs : pc[d] # "held"
  /\ Goto(c, "held")
  /\ UNCHANGED <<Next, Owner, t, o, ahead>>

\* Wrong form: the loop does not end while another CPU is in TryLock.
SpinYields(c) ==
  /\ pc[c] = "spin" /\ Owner = t[c] /\ \A d \in CPUs : pc[d] # "owner"
  /\ Goto(c, "held")
  /\ UNCHANGED <<Next, Owner, t, o, ahead>>

(* Lock: the load of Owner that ends the loop. *)
Spin(c) ==
  /\ pc[c] = "spin" /\ Owner = t[c]
  /\ Goto(c, "held")
  /\ UNCHANGED <<Next, Owner, t, o, ahead>>

(* TryLock: the load of Owner. *)
TryOwner(c) ==
  /\ pc[c] = "out"
  /\ Goto(c, "owner")
  /\ o' = [o EXCEPT ![c] = Owner]
  /\ UNCHANGED <<Next, Owner, t, ahead>>

(* TryLock: the load of Next; false unless it is equal to Owner. *)
TryNext(c) ==
  /\ pc[c] = "owner"
  /\ \/ o[c] = Next /\ Goto(c, "next") /\ UNCHANGED o
     \/ o[c] # Next /\ Goto(c, "out") /\ o' = [o EXCEPT ![c] = 0]
  /\ UNCHANGED <<Next, Owner, t, ahead>>

(* TryLock: the compare-exchange of Next; false when Next has moved. *)
TryExchange(c) ==
  /\ pc[c] = "next"
  /\ \/ Next = o[c] /\ Goto(c, "held") /\ Take(c)
     \/ /\ Next # o[c] /\ Goto(c, "out") /\ o' = [o EXCEPT ![c] = 0]
        /\ UNCHANGED <<Next, Owner, t, ahead>>

Unlock(c) ==
  /\ pc[c] = "held"
  /\ Goto(c, "out")
  /\ Owner' = Inc(Owner)
  /\ t' = [t EXCEPT ![c] = 0]
  /\ ahead' = [d \in CPUs |-> ahead[d] \ {c}]
  /\ UNCHANGED <<Next, o>>

Step(c) ==
  Lock(c) \/ Spin(c) \/ TryOwner(c) \/ TryNext(c) \/ TryExchange(c) \/ Unlock(c)

NextStep == \E c \in CPUs : Step(c)

Spec == Init /\ [][NextStep]_vars

(* A CPU keeps running, with interrupts off, while it holds or awaits the    *)
(* lock; whether it asks for the lock at all is up to its caller.            *)
Fairness == \A c \in CPUs : WF_vars(Spin(c)) /\ WF_vars(Unlock(c))

FairSpec == Spec /\ Fairness
-------------------------------------------------------------------------------
(* Properties. *)

(* The counters stay within their width. *)
TypeOK ==
  /\ Next \in Counter /\ Owner \in Counter
  /\ pc \in [CPUs -> {"out", "spin", "owner", "next", "held"}]
  /\ t \in [CPUs -> Counter] /\ o \in [CPUs -> Counter]
  /\ ahead \in [CPUs -> SUBSET CPUs]

(* At most one CPU is between Lock, or a TryLock that returned true, and     *)
(* Unlock, also after the counters have wrapped.                             *)
MutualExclusion == \A c, d \in CPUs : pc[c] = "held" /\ pc[d] = "held" => c = d

(* First come, first served: a CPU holds the lock only when all that were    *)
(* in line when it took its ticket have released it, TryLock included.       *)
FirstComeFirstServed == \A c \in CPUs : pc[c] = "held" => ahead[c] = {}

(* Next is ahead of Owner by the number of CPUs in line: no ticket is lost   *)
(* or given twice, so the lock is free again when all of them have left.     *)
NoTicketIsLost == Dist(Owner, Next) = Cardinality(InLine)

(* A CPU in Lock gets the lock, whatever the others do. *)
NoStarvation == \A c \in CPUs : pc[c] = "spin" ~> pc[c] = "held"
===============================================================================
